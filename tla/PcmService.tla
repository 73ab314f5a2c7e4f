----------------------------- MODULE PcmService -----------------------------
(***************************************************************************)
(* PcmService (library/pcmService.ts) and its commands                     *)
(* (commands/viewerCommands.ts): packages of KiCad's package manager are   *)
(* installed, updated and uninstalled while repositories are refreshed.    *)
(* What is installed is told in five places: the service's map, VS Code's  *)
(* globalState, KiCad's installed_packages.json, the directories under     *)
(* 3rdparty and the library tables.  A command writes them one after the   *)
(* other over several awaits; commands overlap, and each acts on the       *)
(* package object it was given, which may be older than the map.           *)
(*                                                                         *)
(* An action is the code between two awaits that leave the microtask       *)
(* queue.  Writing KiCad's files does not fail.  Different identifiers     *)
(* have different directories.  A version is an entry of a package's feed: *)
(* its number only tells it from the others, it is neither its string nor  *)
(* its place among them.                                                   *)
(***************************************************************************)
EXTENDS Naturals

CONSTANTS
  Packages, Repositories,
  RepositoryOf,   \* RepositoryOf[p]: the repository that offers p
  NamedUnder,     \* NamedUnder[p]: whose table names begin with p's prefix
  VersionString,  \* VersionString[p][v]: what version v of p is called
  Newer,          \* Newer[p]: <<v, w>> if isVersionNewer(v, w), by epochs and numbers
  Ops,            \* commands that may be in flight together
  MaxVersion, MaxCommands,
  None

Versions == 1 .. MaxVersion

ASSUME PcmAssumption ==
  /\ RepositoryOf \in [Packages -> Repositories]
  /\ NamedUnder \in [Packages -> SUBSET Packages]
  /\ \A p \in Packages : p \in NamedUnder[p]
  /\ \A p \in Packages : DOMAIN VersionString[p] = Versions
  /\ Newer \in [Packages -> SUBSET (Versions \X Versions)]
  /\ MaxVersion \in Nat \ {0} /\ MaxCommands \in Nat
  /\ None \notin Packages

VARIABLES
  installed,    \* this.installed: the version of each package and who put it there
  managed,      \* this.managedIdentifiers
  catalogue,    \* this.repositories: what is offered, and the state shown with it
  stored,       \* globalState on disk
  listed,       \* the versions in installed_packages.json, 0 for none
  files,        \* the version that is complete in a package's directory, 0 for none
  tables,       \* packages with entries in the library tables
  ops,          \* the commands in flight
  commands,     \* commands given so far
  damaged,      \* packages that a failed or cut operation has touched, or an update
                \* whose version was taken for the one installed
  cut,          \* packages whose command was cut short by a reload
  overlooked    \* packages changed after a refresh in flight had read them

service == <<installed, managed, catalogue>>
disk    == <<stored, listed, files, tables>>
history == <<damaged, cut, overlooked>>
pcmVars == <<service, disk, ops, commands, history>>

NotInstalled == [version |-> 0, by |-> "none"]
Entries == {NotInstalled} \union [version : Versions, by : {"cli", "direct"}]

NotListed == [latest |-> 0, seen |-> 0]
Offers == {NotListed} \union [latest : Versions, seen : 0 .. MaxVersion]
NoOffers == [p \in Packages |-> NotListed]

Idle == [kind |-> "none", at |-> "idle", pkg |-> None, offer |-> NotListed,
         list |-> NoOffers, todo |-> {}]

Kinds == {"install", "update", "uninstall", "updateAll", "refresh"}

OpType ==
  [kind : Kinds \union {"none"},
   at : {"idle", "picked", "next", "fetch", "cli", "save", "write", "index", "load"},
   pkg : Packages \union {None}, offer : Offers,
   list : [Packages -> Offers], todo : SUBSET Repositories]

\* What earlier sessions left: some packages are installed, all of them whole,
\* and the repositories have been loaded.
PcmInit ==
  /\ installed \in [Packages -> Entries]
  /\ \E latest \in [Packages -> Versions] :
       catalogue = [p \in Packages |->
                      [latest |-> latest[p], seen |-> installed[p].version]]
  /\ managed = {p \in Packages : installed[p] # NotInstalled}
  /\ stored = installed
  /\ listed = [p \in Packages |-> installed[p].version]
  /\ files = [p \in Packages |->
                IF installed[p].by = "direct" THEN installed[p].version ELSE 0]
  /\ tables = {p \in Packages : installed[p].by = "direct"}
  /\ ops = [o \in Ops |-> Idle]
  /\ commands = 0
  /\ damaged = {} /\ cut = {} /\ overlooked = {}

-----------------------------------------------------------------------------
Version(p) == installed[p].version

\* isUpdateAvailable asks the package object, not the map, and compares the
\* versions' epochs and numbers.
Updatable(p, offer) == offer.seen # 0 /\ <<offer.latest, offer.seen>> \in Newer[p]

\* installPackage asks the map, and compares the versions' strings.
Present(p, v) == Version(p) # 0 /\ VersionString[p][Version(p)] = VersionString[p][v]

\* The commands that are offered for a package in this state; a search result
\* may ask to install any package.
KindsFor(p, offer) ==
  {"install"} \union (IF offer.seen # 0 THEN {"uninstall"} ELSE {})
              \union (IF Updatable(p, offer) THEN {"update"} ELSE {})

Refreshing == [Idle EXCEPT !.kind = "refresh", !.at = "load", !.todo = Repositories]

\* A command that has done its work refreshes the repositories.
Done(op) == IF op.kind = "updateAll" THEN [op EXCEPT !.at = "next"] ELSE Refreshing

Goes(o, op) == ops' = [ops EXCEPT ![o] = op]

\* A refresh in flight that has read p will publish what p was.
Overlook(p) ==
  IF \E o \in Ops : ops[o].list[p] # NotListed /\ ops[o].kind = "refresh"
    THEN overlooked' = overlooked \union {p}
    ELSE UNCHANGED overlooked

\* removeDirectInstallFiles: the table entries under the package's prefix,
\* whosever they are, and the directory of a direct install.
RemoveDirectInstallFiles(p) ==
  /\ tables' = tables \ NamedUnder[p]
  /\ files' = IF installed[p].by = "direct" THEN [files EXCEPT ![p] = 0] ELSE files

\* installPackage up to the download or to kicad-cli.
InstallPackage(o, op) ==
  \E way \in {"fetch", "cli"} :
    Goes(o, IF Present(op.pkg, op.offer.latest) THEN Done(op) ELSE [op EXCEPT !.at = way])

\* updatePackage up to the same point: the old files go first.
UpdatePackage(o, op) ==
  \/ /\ Version(op.pkg) = 0
     /\ InstallPackage(o, op)
     /\ UNCHANGED <<files, tables, damaged>>
  \/ /\ Version(op.pkg) # 0 /\ ~Updatable(op.pkg, op.offer)
     /\ Goes(o, Done(op))
     /\ UNCHANGED <<files, tables, damaged>>
  \/ /\ Version(op.pkg) # 0 /\ Updatable(op.pkg, op.offer)
     /\ RemoveDirectInstallFiles(op.pkg)
     /\ InstallPackage(o, op)
     /\ damaged' = damaged \union (NamedUnder[op.pkg] \ {op.pkg})
          \union (IF Present(op.pkg, op.offer.latest) THEN {op.pkg} ELSE {})

-----------------------------------------------------------------------------
(***************************************************************************)
(* Commands.                                                               *)
(***************************************************************************)

Command(o) ==
  /\ ops[o] = Idle
  /\ commands < MaxCommands
  /\ commands' = commands + 1

\* A package is named: its object is the command's from here on, while a list
\* or a message waits for the user's answer.
Choose(o, kind, p) ==
  /\ Command(o)
  /\ catalogue[p] # NotListed /\ kind \in KindsFor(p, catalogue[p])
  /\ Goes(o, [Idle EXCEPT !.kind = kind, !.at = "picked",
                          !.pkg = p, !.offer = catalogue[p]])
  /\ UNCHANGED <<service, disk, history>>

Dismiss(o) ==
  /\ ops[o].at = "picked"
  /\ Goes(o, Idle)
  /\ UNCHANGED <<service, disk, commands, history>>

Install(o) ==
  /\ ops[o].at = "picked" /\ ops[o].kind = "install"
  /\ InstallPackage(o, ops[o])
  /\ UNCHANGED <<service, disk, commands, history>>

Update(o) ==
  /\ ops[o].at = "picked" /\ ops[o].kind = "update"
  /\ UpdatePackage(o, ops[o])
  /\ UNCHANGED <<service, stored, listed, commands, cut, overlooked>>

\* uninstallPackage looks the package up by its identifier.
Uninstall(o) ==
  LET p == ops[o].pkg IN
  /\ ops[o].at = "picked" /\ ops[o].kind = "uninstall"
  /\ IF Version(p) = 0
       THEN Goes(o, Done(ops[o])) /\ UNCHANGED <<installed, files, tables, damaged, overlooked>>
       ELSE /\ RemoveDirectInstallFiles(p)
            /\ installed' = [installed EXCEPT ![p] = NotInstalled]
            /\ damaged' = damaged \union (NamedUnder[p] \ {p})
            /\ Overlook(p)
            /\ Goes(o, [ops[o] EXCEPT !.at = "save"])
  /\ UNCHANGED <<managed, catalogue, stored, listed, commands, cut>>

\* Mutant of UpdateAll: the old files of all packages go first.
UpdateAllRemovingFirst(o) ==
  /\ Command(o)
  /\ LET old == {p \in Packages : Updatable(p, catalogue[p])} IN
     /\ Goes(o, [Idle EXCEPT !.kind = "updateAll", !.at = "next",
                   !.list = [p \in Packages |->
                               IF p \in old THEN catalogue[p] ELSE NotListed]])
     /\ files' = [p \in Packages |->
                    IF p \in old /\ installed[p].by = "direct" THEN 0 ELSE files[p]]
     /\ tables' = tables \ old
  /\ UNCHANGED <<service, stored, listed, history>>

\* The packages to update are filtered once, before the first is updated.
UpdateAll(o) ==
  /\ Command(o)
  /\ Goes(o, [Idle EXCEPT !.kind = "updateAll", !.at = "next",
                          !.list = [p \in Packages |->
                             IF Updatable(p, catalogue[p]) THEN catalogue[p] ELSE NotListed]])
  /\ UNCHANGED <<service, disk, history>>

NextUpdate(o) ==
  /\ ops[o].at = "next"
  /\ \E p \in Packages :
       /\ ops[o].list[p] # NotListed
       /\ UpdatePackage(o, [ops[o] EXCEPT !.pkg = p, !.offer = ops[o].list[p],
                                          !.list[p] = NotListed])
  /\ UNCHANGED <<service, stored, listed, commands, cut, overlooked>>

AllUpdated(o) ==
  /\ ops[o].at = "next" /\ ops[o].list = NoOffers
  /\ Goes(o, Refreshing)
  /\ UNCHANGED <<service, disk, commands, history>>

Refresh(o) ==
  /\ Command(o)
  /\ Goes(o, Refreshing)
  /\ UNCHANGED <<service, disk, history>>

-----------------------------------------------------------------------------
(***************************************************************************)
(* Downloads, kicad-cli, storage, the index and the repositories answer.   *)
(***************************************************************************)

\* persistInstalled up to "await globalState.update".
Record(o, by) ==
  LET p == ops[o].pkg IN
  /\ installed' = [installed EXCEPT ![p] = [version |-> ops[o].offer.latest, by |-> by]]
  /\ managed' = managed \union {p}
  /\ Overlook(p)
  /\ Goes(o, [ops[o] EXCEPT !.at = "save"])

\* installDirect once the archive is there and its checksum is right.
Extracted(o) ==
  LET p == ops[o].pkg IN
  /\ ops[o].at = "fetch"
  /\ files' = [files EXCEPT ![p] = ops[o].offer.latest]
  /\ tables' = (tables \ NamedUnder[p]) \union {p}
  /\ Record(o, "direct")
  /\ damaged' = (damaged \union NamedUnder[p]) \ {p}
  /\ UNCHANGED <<catalogue, stored, listed, commands, cut>>

CliInstalled(o) ==
  /\ ops[o].at = "cli"
  /\ Record(o, "cli")
  /\ UNCHANGED <<catalogue, disk, commands, damaged, cut>>

\* The directory is emptied before the archive is unpacked into it.
ExtractionFails(o) ==
  LET p == ops[o].pkg IN
  /\ ops[o].at = "fetch"
  /\ files' = [files EXCEPT ![p] = 0]
  /\ damaged' = damaged \union {p}
  /\ Goes(o, Idle)
  /\ UNCHANGED <<service, stored, listed, tables, commands, cut, overlooked>>

\* No address, no answer, a wrong checksum, or kicad-cli fails.  What an
\* update has removed stays removed, and the rest of an update of all is off.
InstallFails(o) ==
  /\ ops[o].at \in {"fetch", "cli"}
  /\ damaged' = damaged \union (IF ops[o].kind = "install" THEN {} ELSE {ops[o].pkg})
  /\ Goes(o, Idle)
  /\ UNCHANGED <<service, disk, commands, cut, overlooked>>

\* The storage always writes its latest value.
Saved(o) ==
  /\ ops[o].at = "save"
  /\ stored' = installed
  /\ Goes(o, [ops[o] EXCEPT !.at = "write"])
  /\ UNCHANGED <<service, listed, files, tables, commands, history>>

\* Mutant of WriteInstalledPackages: entries of packages that are not
\* installed any more are taken for KiCad's own.
WriteOverInstalled(o) ==
  /\ ops[o].at = "write"
  /\ listed' = [p \in Packages |-> IF Version(p) # 0 THEN Version(p) ELSE listed[p]]
  /\ cut' = cut \ managed
  /\ Goes(o, [ops[o] EXCEPT !.at = "index"])
  /\ UNCHANGED <<service, stored, files, tables, commands, damaged, overlooked>>

\* writeKiCadInstalledPackages: entries of packages that were never managed
\* in this session are kept as they are.
WriteInstalledPackages(o) ==
  /\ ops[o].at = "write"
  /\ listed' = [p \in Packages |-> IF p \in managed THEN Version(p) ELSE listed[p]]
  /\ cut' = cut \ managed
  /\ Goes(o, [ops[o] EXCEPT !.at = "index"])
  /\ UNCHANGED <<service, stored, files, tables, commands, damaged, overlooked>>

\* indexAll has ended, well or not: refreshPackageStates, and the command is done.
Indexed(o) ==
  /\ ops[o].at = "index"
  /\ catalogue' = [p \in Packages |->
       IF catalogue[p] = NotListed THEN NotListed
                                   ELSE [catalogue[p] EXCEPT !.seen = Version(p)]]
  /\ Goes(o, Done(ops[o]))
  /\ UNCHANGED <<installed, managed, disk, commands, history>>

\* refreshRepositories: one repository has answered, with any versions, or has
\* failed and is left out; the last answer publishes them all.
Load(o, r) ==
  /\ r \in ops[o].todo
  /\ \E found \in {{}, {p \in Packages : RepositoryOf[p] = r}} :
     \E latest \in [found -> Versions] :
       LET op == [ops[o] EXCEPT !.todo = @ \ {r},
                    !.list = [p \in Packages |->
                       IF p \in found THEN [latest |-> latest[p], seen |-> Version(p)]
                                      ELSE @[p]]]
       IN IF op.todo = {}
            THEN Goes(o, Idle) /\ catalogue' = op.list
            ELSE Goes(o, op) /\ UNCHANGED catalogue
  /\ UNCHANGED <<installed, managed, disk, commands, history>>

\* The window reloads: the constructor reads globalState back, and the view
\* loads the repositories.  Packages whose command is cut off are remembered.
Reload ==
  LET Under(stages) == {p \in Packages : \E o \in Ops : ops[o].pkg = p /\ ops[o].at \in stages}
      Removed == {p \in Packages : \E o \in Ops : ops[o].pkg = p /\ ops[o].kind # "install"
                                                /\ ops[o].at \in {"fetch", "cli"}}
  IN
  /\ installed' = stored
  /\ managed' = {p \in Packages : stored[p] # NotInstalled}
  /\ catalogue' = NoOffers
  /\ \E o \in Ops : ops' = [q \in Ops |-> IF q = o THEN Refreshing ELSE Idle]
  /\ damaged' = damaged \union Under({"save"}) \union Removed
  /\ cut' = cut \union Under({"save", "write"})
  /\ overlooked' = {}
  /\ UNCHANGED <<disk, commands>>

PcmNext ==
  \/ \E o \in Ops :
       \/ \E p \in Packages, kind \in Kinds : Choose(o, kind, p)
       \/ Dismiss(o) \/ Install(o) \/ Update(o) \/ Uninstall(o)
       \/ UpdateAll(o) \/ NextUpdate(o) \/ AllUpdated(o) \/ Refresh(o)
       \/ Extracted(o) \/ CliInstalled(o) \/ ExtractionFails(o) \/ InstallFails(o)
       \/ Saved(o) \/ WriteInstalledPackages(o) \/ Indexed(o)
       \/ \E r \in Repositories : Load(o, r)
  \/ Reload

PcmSpec == PcmInit /\ [][PcmNext]_pcmVars

-----------------------------------------------------------------------------
\* A command on p is between changing the map and these stages' end.
Pending(p, stages) == \E o \in Ops : ops[o].pkg = p /\ ops[o].at \in stages

PcmTypeOK ==
  /\ installed \in [Packages -> Entries] /\ stored \in [Packages -> Entries]
  /\ managed \in SUBSET Packages
  /\ catalogue \in [Packages -> Offers]
  /\ listed \in [Packages -> 0 .. MaxVersion] /\ files \in [Packages -> 0 .. MaxVersion]
  /\ tables \in SUBSET Packages
  /\ ops \in [Ops -> OpType]
  /\ commands \in 0 .. MaxCommands

\* What the next session will read is what is installed, but for commands that
\* have still to save.
StoredIsInstalled ==
  \A p \in Packages : stored[p] = installed[p] \/ Pending(p, {"save"})

\* KiCad's list names what is installed, in its version, whichever of two
\* commands wrote it last; only a reload in the middle leaves it wrong, until
\* the package is written again.
ListedIsInstalled ==
  \A p \in Packages : \/ listed[p] = Version(p)
                      \/ Pending(p, {"save", "write"})
                      \/ p \in cut

\* The view shows what is installed, also after an update of all that stopped
\* in the middle, unless a refresh had read the package before it changed.
ShownIsInstalled ==
  \A p \in Packages : \/ catalogue[p] = NotListed
                      \/ catalogue[p].seen = Version(p)
                      \/ Pending(p, {"save", "write", "index"})
                      \/ p \in overlooked

\* What the service says of its packages, in memory, in storage, in KiCad's
\* list and in the view, agrees once its commands are through.
PcmInv == PcmTypeOK /\ StoredIsInstalled /\ ListedIsInstalled /\ ShownIsInstalled

\* A package that counts as installed directly has all the files of its version
\* and its entries in the library tables.  Commands on other packages, refreshes,
\* reloads between two updates, failed downloads of an install and updates that
\* were given an outdated object do not change that.  What does: an update that
\* fails, one to a version whose string is that of the version installed, and a
\* package whose name begins this one's.
InstalledPackagesAreWhole ==
  \A p \in Packages :
    installed[p].by = "direct" /\ p \notin damaged
      /\ ~(\E o \in Ops : ops[o].pkg = p /\ ops[o].kind # "install"
                        /\ ops[o].at \in {"fetch", "cli"})
      => files[p] = Version(p) /\ p \in tables

\* 'detects updates, performs bulk update, ...' (test/unit/pcmService.test.ts:367),
\* which expects the version offered: an update of a package whose object is
\* current never takes its files away only to end.
UpdatesInstall ==
  [][\A o \in Ops, p \in Packages :
       NextUpdate(o) /\ ops'[o].list[p] # ops[o].list[p] /\ ops[o].list[p].seen = Version(p)
         => files'[p] = files[p] \/ ops'[o].at \in {"fetch", "cli"}]_pcmVars
=============================================================================
