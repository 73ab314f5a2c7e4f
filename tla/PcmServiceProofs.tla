--------------------------- MODULE PcmServiceProofs ---------------------------
(***************************************************************************)
(* Proofs about PcmService, for any number of packages, repositories and   *)
(* commands in flight: what the service says of its packages in memory, in *)
(* storage, in KiCad's list and in the view agrees once its commands are   *)
(* through, and a package that counts as installed directly is whole.      *)
(***************************************************************************)
EXTENDS PcmService, TLAPS

\* Stages of a command that has a package and the object it was given.
WithPackage == {"picked", "fetch", "cli", "save", "write", "index"}

\* What a command is where it is.
Shaped(op) ==
  /\ op.at \in WithPackage => op.pkg \in Packages /\ op.offer # NotListed
  /\ op.at = "next" => op.kind = "updateAll"
  /\ op.kind = "refresh" => op.at = "load"
  /\ op.todo # {} => op.kind = "refresh"

OpsShaped == \A o \in Ops : Shaped(ops[o])

\* What is written to KiCad's list is managed in this session.
InstalledIsManaged ==
  /\ \A p \in Packages : installed[p] # NotInstalled => p \in managed
  /\ \A o \in Ops : ops[o].at \in {"save", "write"} => ops[o].pkg \in managed

\* A refresh has read a package as it is, or has overlooked its change.
RefreshesSee ==
  \A o \in Ops, p \in Packages :
    ops[o].kind = "refresh" /\ ops[o].list[p] # NotListed =>
      ops[o].list[p].seen = Version(p) \/ p \in overlooked

\* What the four accounts of a package need to agree.
Agreement ==
  /\ PcmTypeOK /\ OpsShaped /\ InstalledIsManaged
  /\ StoredIsInstalled /\ ListedIsInstalled /\ RefreshesSee /\ ShownIsInstalled

PcmIInv == Agreement /\ InstalledPackagesAreWhole

\* An update has taken p's files away and has not put the new ones there yet.
Updating(p) == \E o \in Ops : /\ ops[o].pkg = p /\ ops[o].kind # "install"
                              /\ ops[o].at \in {"fetch", "cli"}

\* A refresh that begins, or a command that is none, has read nothing.
ReadNothing(op) == op.kind = "refresh" => op.list = NoOffers

-----------------------------------------------------------------------------
\* The commands' records.
LEMMA Records ==
  /\ Idle \in OpType /\ Shaped(Idle) /\ ReadNothing(Idle) /\ Idle.at = "idle"
  /\ Idle.list = NoOffers /\ Idle.todo = {} /\ Idle.kind = "none"
  /\ Refreshing \in OpType /\ Shaped(Refreshing) /\ ReadNothing(Refreshing)
  /\ Refreshing.at = "load" /\ Refreshing.list = NoOffers
  /\ NotListed \in Offers /\ NoOffers \in [Packages -> Offers]
  /\ \A p \in Packages : NoOffers[p] = NotListed
<1>1. /\ NotListed \in Offers /\ NoOffers \in [Packages -> Offers]
      /\ \A p \in Packages : NoOffers[p] = NotListed
  BY DEF Offers, NoOffers
<1>2. /\ Idle \in OpType /\ Idle.at = "idle" /\ Idle.list = NoOffers
      /\ Idle.todo = {} /\ Idle.kind = "none"
  BY <1>1 DEF Idle, OpType
<1>3. /\ Refreshing \in OpType /\ Refreshing.at = "load" /\ Refreshing.list = NoOffers
      /\ Refreshing.kind = "refresh"
  BY <1>2 DEF Refreshing, OpType, Kinds
<1>4. QED  BY <1>1, <1>2, <1>3 DEF Shaped, ReadNothing, WithPackage

\* The version of what is installed, or not.
LEMMA EntryVersions == \A entry \in Entries : entry.version \in 0 .. MaxVersion
<1> SUFFICES ASSUME NEW entry \in Entries PROVE entry.version \in 0 .. MaxVersion
  OBVIOUS
<1>1. CASE entry = NotInstalled
  BY <1>1, PcmAssumption DEF NotInstalled
<1>2. CASE entry \in [version : Versions, by : {"cli", "direct"}]
  <2>1. entry.version \in 1 .. MaxVersion  BY <1>2 DEF Versions
  <2>2. QED  BY <2>1, PcmAssumption
<1>3. QED  BY <1>1, <1>2 DEF Entries

\* A command that has done its work goes to the next package or to a refresh.
LEMMA DoneOps ==
  ASSUME NEW op \in OpType, Shaped(op)
  PROVE  /\ Done(op) \in OpType /\ Shaped(Done(op)) /\ ReadNothing(Done(op))
         /\ Done(op).at \in {"next", "load"}
<1>1. CASE op.kind = "updateAll"
  <2> DEFINE new == [op EXCEPT !.at = "next"]
  <2>1. new \in OpType /\ new.at = "next" /\ new.kind = "updateAll" /\ new.todo = op.todo
    BY <1>1 DEF OpType
  <2>2. Done(op) = new  BY <1>1 DEF Done
  <2>3. QED  BY <1>1, <2>1, <2>2 DEF Shaped, ReadNothing, WithPackage
<1>2. CASE op.kind # "updateAll"
  BY <1>2, Records DEF Done
<1>3. QED  BY <1>1, <1>2

\* One command goes on, the others stay where they are.
LEMMA GoesOps ==
  ASSUME PcmTypeOK, OpsShaped, NEW o \in Ops, NEW op \in OpType, Shaped(op), Goes(o, op)
  PROVE  /\ ops' \in [Ops -> OpType] /\ OpsShaped' /\ ops'[o] = op
         /\ \A q \in Ops \ {o} : ops'[q] = ops[q]
<1>1. /\ ops' \in [Ops -> OpType] /\ ops'[o] = op
      /\ \A q \in Ops \ {o} : ops'[q] = ops[q]
  BY DEF PcmTypeOK, Goes
<1>2. OpsShaped'
  BY <1>1 DEF OpsShaped, Shaped
<1>3. QED  BY <1>1, <1>2

\* installPackage returns at once or goes to the download or to kicad-cli.
LEMMA InstallPackageGoes ==
  ASSUME NEW o \in Ops, NEW op \in OpType,
         op.pkg \in Packages, op.offer # NotListed, op.todo = {},
         op.kind # "refresh", Shaped(op), InstallPackage(o, op)
  PROVE  \E new \in OpType :
           /\ Goes(o, new) /\ Shaped(new) /\ ReadNothing(new)
           /\ new.at \in {"next", "load", "fetch", "cli"}
           /\ ~Present(op.pkg, op.offer.latest) =>
                new.at \in {"fetch", "cli"} /\ new.pkg = op.pkg /\ new.kind = op.kind
<1>1. PICK way \in {"fetch", "cli"} :
        Goes(o, IF Present(op.pkg, op.offer.latest) THEN Done(op) ELSE [op EXCEPT !.at = way])
  BY DEF InstallPackage
<1>2. CASE Present(op.pkg, op.offer.latest)
  BY <1>1, <1>2, DoneOps
<1>3. CASE ~Present(op.pkg, op.offer.latest)
  <2> DEFINE new == [op EXCEPT !.at = way]
  <2>1. /\ new \in OpType /\ new.at = way /\ new.pkg = op.pkg /\ new.offer = op.offer
        /\ new.kind = op.kind /\ new.todo = {}
    BY DEF OpType
  <2>2. Shaped(new) /\ ReadNothing(new)
    BY <2>1 DEF Shaped, ReadNothing
  <2>3. Goes(o, new)  BY <1>1, <1>3
  <2> HIDE DEF new
  <2>4. QED  BY <2>1, <2>2, <2>3
<1>4. QED  BY <1>2, <1>3

-----------------------------------------------------------------------------
\* A command that neither changes the map nor has changed it goes on: the
\* accounts of every package stay as they are.
LEMMA AgreementStays ==
  ASSUME Agreement, NEW o \in Ops, NEW op \in OpType, Shaped(op), ReadNothing(op),
         Goes(o, op), ops[o].at \notin {"save", "write", "index"},
         op.at \notin {"save", "write"},
         UNCHANGED <<service, stored, listed, cut, overlooked>>,
         files' \in [Packages -> 0 .. MaxVersion], tables' \in SUBSET Packages,
         commands' \in 0 .. MaxCommands
  PROVE  Agreement'
<1> USE DEF Agreement
<1>1. /\ ops' \in [Ops -> OpType] /\ OpsShaped' /\ ops'[o] = op
      /\ \A q \in Ops \ {o} : ops'[q] = ops[q]
  BY GoesOps
<1>2. /\ installed' = installed /\ managed' = managed /\ catalogue' = catalogue
      /\ stored' = stored /\ listed' = listed /\ cut' = cut /\ overlooked' = overlooked
  BY DEF service
<1>3. PcmTypeOK'
  BY <1>1, <1>2 DEF PcmTypeOK
<1>4. InstalledIsManaged'
  BY <1>1, <1>2 DEF InstalledIsManaged
<1>5. ASSUME NEW p \in Packages, NEW stages \in SUBSET {"save", "write", "index"},
             Pending(p, stages)
      PROVE  Pending(p, stages)'
  BY <1>1, <1>5 DEF Pending
<1>6. StoredIsInstalled' /\ ListedIsInstalled' /\ ShownIsInstalled'
  <2>1. {"save"} \in SUBSET {"save", "write", "index"}
        /\ {"save", "write"} \in SUBSET {"save", "write", "index"}
        /\ {"save", "write", "index"} \in SUBSET {"save", "write", "index"}
    OBVIOUS
  <2>2. StoredIsInstalled'
    BY <1>2, <1>5, <2>1 DEF StoredIsInstalled
  <2>3. ListedIsInstalled'
    BY <1>2, <1>5, <2>1 DEF ListedIsInstalled, Version
  <2>4. ShownIsInstalled'
    BY <1>2, <1>5, <2>1 DEF ShownIsInstalled, Version
  <2>5. QED  BY <2>2, <2>3, <2>4
<1>7. RefreshesSee'
  BY <1>1, <1>2, Records DEF RefreshesSee, ReadNothing, Version
<1>8. QED  BY <1>1, <1>3, <1>4, <1>6, <1>7

\* A package stays whole when its files and entries stay and none of the updates
\* that excuse it ends without touching it.
LEMMA WholeStays ==
  ASSUME InstalledPackagesAreWhole, UNCHANGED <<installed, files, tables>>,
         damaged \subseteq damaged',
         \A p \in Packages : Updating(p) => Updating(p)' \/ p \in damaged'
  PROVE  InstalledPackagesAreWhole'
BY DEF InstalledPackagesAreWhole, Updating, Version

\* A command that is not at a download goes on, or the download of an install does.
LEMMA UpdatingStays ==
  ASSUME PcmTypeOK, NEW o \in Ops, NEW op, Goes(o, op),
         ops[o].kind = "install" \/ ops[o].at \notin {"fetch", "cli"},
         NEW p \in Packages, Updating(p)
  PROVE  Updating(p)'
<1>1. PICK q \in Ops : /\ ops[q].pkg = p /\ ops[q].kind # "install"
                       /\ ops[q].at \in {"fetch", "cli"}
  BY DEF Updating
<1>2. q # o  BY <1>1
<1>3. ops'[q] = ops[q]  BY <1>2 DEF Goes, PcmTypeOK
<1>4. QED  BY <1>1, <1>3 DEF Updating

-----------------------------------------------------------------------------
\* Commands that begin, end or wait change nothing but themselves.
LEMMA QuietStep ==
  ASSUME PcmIInv, NEW o \in Ops, NEW op \in OpType, Shaped(op), ReadNothing(op),
         Goes(o, op), ops[o].at \notin {"fetch", "cli", "save", "write", "index"},
         op.at \notin {"save", "write"},
         UNCHANGED <<service, disk, history>>, commands' \in 0 .. MaxCommands
  PROVE  PcmIInv'
<1>1. Agreement'
  <2>1. Agreement /\ PcmTypeOK  BY DEF PcmIInv, Agreement
  <2>2. /\ UNCHANGED <<service, stored, listed, cut, overlooked>>
        /\ files' \in [Packages -> 0 .. MaxVersion] /\ tables' \in SUBSET Packages
    BY <2>1 DEF disk, history, PcmTypeOK
  <2>3. QED  BY <2>1, <2>2, AgreementStays
<1>2. InstalledPackagesAreWhole'
  <2>1. InstalledPackagesAreWhole /\ PcmTypeOK  BY DEF PcmIInv, Agreement
  <2>2. UNCHANGED <<installed, files, tables>> /\ damaged' = damaged
    BY DEF service, disk, history
  <2>3. \A p \in Packages : Updating(p) => Updating(p)'
    BY <2>1, UpdatingStays
  <2>4. QED  BY <2>1, <2>2, <2>3, WholeStays
<1>3. QED  BY <1>1, <1>2 DEF PcmIInv

\* A command counts.
LEMMA CommandsCount ==
  ASSUME PcmTypeOK, NEW o \in Ops, Command(o)
  PROVE  commands' \in 0 .. MaxCommands /\ ops[o] = Idle
BY PcmAssumption DEF PcmTypeOK, Command

LEMMA ChooseKeepsInv ==
  ASSUME PcmIInv, NEW o \in Ops, NEW p \in Packages, NEW kind \in Kinds, Choose(o, kind, p)
  PROVE  PcmIInv'
<1> DEFINE op == [Idle EXCEPT !.kind = kind, !.at = "picked",
                              !.pkg = p, !.offer = catalogue[p]]
<1>1. PcmTypeOK  BY DEF PcmIInv, Agreement
<1>2. kind # "refresh" /\ catalogue[p] # NotListed
  BY DEF Choose, KindsFor
<1>3. /\ op \in OpType /\ op.at = "picked" /\ op.pkg = p /\ op.offer = catalogue[p]
      /\ op.kind = kind /\ op.todo = {}
  BY <1>1, Records DEF PcmTypeOK, OpType
<1>4. Shaped(op) /\ ReadNothing(op)
  BY <1>2, <1>3 DEF Shaped, ReadNothing
<1>5. Goes(o, op) /\ UNCHANGED <<service, disk, history>> /\ Command(o)
  BY DEF Choose
<1> HIDE DEF op
<1>6. QED  BY <1>1, <1>3, <1>4, <1>5, Records, CommandsCount, QuietStep

LEMMA DismissKeepsInv ==
  ASSUME PcmIInv, NEW o \in Ops, Dismiss(o)
  PROVE  PcmIInv'
<1>1. commands' \in 0 .. MaxCommands  BY DEF PcmIInv, Agreement, PcmTypeOK, Dismiss
<1>2. QED  BY <1>1, Records, QuietStep DEF Dismiss

LEMMA InstallKeepsInv ==
  ASSUME PcmIInv, NEW o \in Ops, Install(o)
  PROVE  PcmIInv'
<1>1. PcmTypeOK /\ OpsShaped  BY DEF PcmIInv, Agreement
<1>2. ops[o] \in OpType /\ Shaped(ops[o]) /\ ops[o].at = "picked" /\ ops[o].kind = "install"
  BY <1>1 DEF PcmTypeOK, OpsShaped, Install
<1>3. /\ ops[o].pkg \in Packages /\ ops[o].offer # NotListed /\ ops[o].todo = {}
  BY <1>2 DEF Shaped, WithPackage
<1>4. InstallPackage(o, ops[o]) /\ UNCHANGED <<service, disk, history>> /\ commands' = commands
  BY DEF Install
<1>5. PICK new \in OpType : /\ Goes(o, new) /\ Shaped(new) /\ ReadNothing(new)
                            /\ new.at \in {"next", "load", "fetch", "cli"}
  BY <1>2, <1>3, <1>4, InstallPackageGoes
<1>6. commands' \in 0 .. MaxCommands  BY <1>1, <1>4 DEF PcmTypeOK
<1>7. QED  BY <1>2, <1>4, <1>5, <1>6, QuietStep

LEMMA UpdateAllKeepsInv ==
  ASSUME PcmIInv, NEW o \in Ops, UpdateAll(o)
  PROVE  PcmIInv'
<1> DEFINE op == [Idle EXCEPT !.kind = "updateAll", !.at = "next",
                          !.list = [p \in Packages |->
                             IF Updatable(p, catalogue[p]) THEN catalogue[p] ELSE NotListed]]
<1>1. PcmTypeOK  BY DEF PcmIInv, Agreement
<1>2. [p \in Packages |-> IF Updatable(p, catalogue[p]) THEN catalogue[p] ELSE NotListed]
        \in [Packages -> Offers]
  BY <1>1, Records DEF PcmTypeOK
<1>3. op \in OpType /\ op.at = "next" /\ op.kind = "updateAll" /\ op.todo = {}
  BY <1>2, Records DEF OpType, Kinds
<1>4. Shaped(op) /\ ReadNothing(op)
  BY <1>3 DEF Shaped, ReadNothing, WithPackage
<1>5. Goes(o, op) /\ UNCHANGED <<service, disk, history>> /\ Command(o)
  BY DEF UpdateAll
<1> HIDE DEF op
<1>6. QED  BY <1>1, <1>3, <1>4, <1>5, Records, CommandsCount, QuietStep

LEMMA AllUpdatedKeepsInv ==
  ASSUME PcmIInv, NEW o \in Ops, AllUpdated(o)
  PROVE  PcmIInv'
<1>1. commands' \in 0 .. MaxCommands  BY DEF PcmIInv, Agreement, PcmTypeOK, AllUpdated
<1>2. QED  BY <1>1, Records, QuietStep DEF AllUpdated

LEMMA RefreshKeepsInv ==
  ASSUME PcmIInv, NEW o \in Ops, Refresh(o)
  PROVE  PcmIInv'
<1>1. PcmTypeOK  BY DEF PcmIInv, Agreement
<1>2. QED  BY <1>1, Records, CommandsCount, QuietStep DEF Refresh

-----------------------------------------------------------------------------
\* An update of p takes the old files away and goes to fetch the new ones, unless
\* installPackage takes the version for the one installed: then it ends there.
LEMMA UpdatePackageKeepsInv ==
  ASSUME PcmIInv, NEW o \in Ops, NEW op \in OpType, Shaped(op),
         op.pkg \in Packages, op.offer # NotListed,
         op.kind \in {"update", "updateAll"}, ops[o].at \in {"picked", "next"},
         UpdatePackage(o, op),
         UNCHANGED <<service, stored, listed, commands, cut, overlooked>>
  PROVE  PcmIInv'
<1>1. /\ PcmTypeOK /\ OpsShaped /\ Agreement /\ InstalledPackagesAreWhole
  BY DEF PcmIInv, Agreement
<1>2. commands' \in 0 .. MaxCommands  BY <1>1 DEF PcmTypeOK
<1>3. op.todo = {} /\ op.kind # "refresh" /\ op.kind # "install"  BY DEF Shaped
<1>4. /\ installed' = installed
      /\ UNCHANGED <<service, stored, listed, cut, overlooked>>
  BY DEF service
<1>5. CASE Version(op.pkg) = 0 /\ InstallPackage(o, op) /\ UNCHANGED <<files, tables, damaged>>
  <2>1. PICK new \in OpType : /\ Goes(o, new) /\ Shaped(new) /\ ReadNothing(new)
                              /\ new.at \in {"next", "load", "fetch", "cli"}
    BY <1>3, <1>5, InstallPackageGoes
  <2>2. UNCHANGED <<service, disk, history>>
    BY <1>5 DEF disk, history
  <2>3. QED  BY <1>2, <2>1, <2>2, QuietStep
<1>6. CASE Goes(o, Done(op)) /\ UNCHANGED <<files, tables, damaged>>
  <2>1. UNCHANGED <<service, disk, history>>
    BY <1>6 DEF disk, history
  <2>2. QED  BY <1>2, <1>6, <2>1, DoneOps, QuietStep
<1>7. ASSUME Version(op.pkg) # 0, Updatable(op.pkg, op.offer),
             RemoveDirectInstallFiles(op.pkg), InstallPackage(o, op),
             damaged' = damaged \union (NamedUnder[op.pkg] \ {op.pkg})
               \union (IF Present(op.pkg, op.offer.latest) THEN {op.pkg} ELSE {})
      PROVE  PcmIInv'
  <2>1. PICK new \in OpType :
           /\ Goes(o, new) /\ Shaped(new) /\ ReadNothing(new)
           /\ new.at \in {"next", "load", "fetch", "cli"}
           /\ ~Present(op.pkg, op.offer.latest) =>
                new.at \in {"fetch", "cli"} /\ new.pkg = op.pkg /\ new.kind = op.kind
    BY <1>3, <1>7, InstallPackageGoes
  <2>2. /\ files' \in [Packages -> 0 .. MaxVersion] /\ tables' \in SUBSET Packages
        /\ tables' = tables \ NamedUnder[op.pkg]
        /\ \A p \in Packages \ {op.pkg} : files'[p] = files[p]
    BY <1>1, <1>7, PcmAssumption DEF PcmTypeOK, RemoveDirectInstallFiles
  <2>3. Agreement'
    BY <1>1, <1>2, <2>1, <2>2, AgreementStays
  <2>4. \A p \in Packages : Updating(p) => Updating(p)'
    BY <1>1, <2>1, UpdatingStays
  <2>5. op.pkg \in damaged' \/ Updating(op.pkg)'
    <3>1. CASE Present(op.pkg, op.offer.latest)
      BY <1>7, <3>1
    <3>2. CASE ~Present(op.pkg, op.offer.latest)
      <4>1. ops'[o] = new  BY <1>1, <2>1, GoesOps
      <4>2. QED  BY <1>3, <2>1, <3>2, <4>1 DEF Updating
    <3>3. QED  BY <3>1, <3>2
  <2>6. InstalledPackagesAreWhole'
    <3> SUFFICES ASSUME NEW p \in Packages, installed'[p].by = "direct",
                        p \notin damaged', ~Updating(p)'
                 PROVE  files'[p] = Version(p)' /\ p \in tables'
      BY DEF InstalledPackagesAreWhole, Updating
    <3>1. p # op.pkg /\ p \notin damaged /\ p \notin NamedUnder[op.pkg]
      BY <1>7, <2>5
    <3>2. ~Updating(p)  BY <2>4
    <3>3. files[p] = Version(p) /\ p \in tables
      BY <1>1, <1>4, <3>1, <3>2 DEF InstalledPackagesAreWhole, Updating
    <3>4. QED  BY <1>4, <2>2, <3>1, <3>3 DEF Version
  <2>7. QED  BY <2>3, <2>6 DEF PcmIInv
<1>8. QED  BY <1>5, <1>6, <1>7 DEF UpdatePackage

LEMMA UpdateKeepsInv ==
  ASSUME PcmIInv, NEW o \in Ops, Update(o)
  PROVE  PcmIInv'
<1>1. PcmTypeOK /\ OpsShaped  BY DEF PcmIInv, Agreement
<1>2. ops[o] \in OpType /\ Shaped(ops[o]) /\ ops[o].at = "picked" /\ ops[o].kind = "update"
  BY <1>1 DEF PcmTypeOK, OpsShaped, Update
<1>3. /\ ops[o].pkg \in Packages /\ ops[o].offer # NotListed
  BY <1>2 DEF Shaped, WithPackage
<1>4. QED  BY <1>2, <1>3, UpdatePackageKeepsInv DEF Update

LEMMA NextUpdateKeepsInv ==
  ASSUME PcmIInv, NEW o \in Ops, NextUpdate(o)
  PROVE  PcmIInv'
<1>1. PcmTypeOK /\ OpsShaped  BY DEF PcmIInv, Agreement
<1>2. /\ ops[o] \in OpType /\ Shaped(ops[o]) /\ ops[o].at = "next"
      /\ UNCHANGED <<service, stored, listed, commands, cut, overlooked>>
  BY <1>1 DEF PcmTypeOK, OpsShaped, NextUpdate
<1>3. PICK p \in Packages :
        /\ ops[o].list[p] # NotListed
        /\ UpdatePackage(o, [ops[o] EXCEPT !.pkg = p, !.offer = ops[o].list[p],
                                           !.list[p] = NotListed])
  BY DEF NextUpdate
<1> DEFINE op == [ops[o] EXCEPT !.pkg = p, !.offer = ops[o].list[p], !.list[p] = NotListed]
<1>4. /\ op \in OpType /\ op.pkg = p /\ op.offer # NotListed /\ op.kind = ops[o].kind
      /\ op.at = "next" /\ op.todo = ops[o].todo
  BY <1>2, <1>3, Records DEF OpType
<1>5. Shaped(op) /\ op.kind = "updateAll"
  BY <1>2, <1>4 DEF Shaped, WithPackage
<1>6. UpdatePackage(o, op)  BY <1>3
<1> HIDE DEF op
<1>7. QED  BY <1>2, <1>4, <1>5, <1>6, UpdatePackageKeepsInv

-----------------------------------------------------------------------------
\* Packages other than p whose update was not excused are not excused now.
LEMMA OthersUpdate ==
  ASSUME PcmTypeOK, NEW o \in Ops, NEW op, Goes(o, op),
         NEW p \in Packages, p # ops[o].pkg, Updating(p)
  PROVE  Updating(p)'
<1>1. PICK q \in Ops : /\ ops[q].pkg = p /\ ops[q].kind # "install"
                       /\ ops[q].at \in {"fetch", "cli"}
  BY DEF Updating
<1>2. ops'[q] = ops[q]  BY <1>1 DEF Goes, PcmTypeOK
<1>3. QED  BY <1>1, <1>2 DEF Updating

\* What is installed of o's package changes, and the change is still to be
\* saved, listed and shown; refreshes in flight that have read it are outdated.
LEMMA ChangeIsPending ==
  ASSUME Agreement, NEW o \in Ops, NEW p \in Packages, NEW entry \in Entries,
         ops[o].pkg = p, ops[o].at \in {"picked", "fetch", "cli"},
         p \in managed',
         installed' = [installed EXCEPT ![p] = entry],
         managed' \in SUBSET Packages, managed \subseteq managed',
         Overlook(p), Goes(o, [ops[o] EXCEPT !.at = "save"]),
         UNCHANGED <<catalogue, stored, listed, commands, cut>>,
         files' \in [Packages -> 0 .. MaxVersion], tables' \in SUBSET Packages
  PROVE  Agreement'
<1> DEFINE op == [ops[o] EXCEPT !.at = "save"]
<1>1. PcmTypeOK /\ OpsShaped /\ ops[o] \in OpType /\ Shaped(ops[o])
  BY DEF Agreement, PcmTypeOK, OpsShaped
<1>2. /\ op \in OpType /\ op.at = "save" /\ op.pkg = p /\ op.kind = ops[o].kind
      /\ op.offer = ops[o].offer /\ op.todo = ops[o].todo /\ op.list = ops[o].list
  BY <1>1 DEF OpType
<1>3. Shaped(op) /\ op.kind # "refresh"
  BY <1>1, <1>2 DEF Shaped, WithPackage
<1>4. Goes(o, op)  OBVIOUS
<1> HIDE DEF op
<1>5. /\ ops' \in [Ops -> OpType] /\ OpsShaped' /\ ops'[o] = op
      /\ \A q \in Ops \ {o} : ops'[q] = ops[q]
  BY <1>1, <1>2, <1>3, <1>4, GoesOps
<1>6. /\ installed' \in [Packages -> Entries] /\ installed'[p] = entry
      /\ \A q \in Packages \ {p} : installed'[q] = installed[q]
  BY <1>1 DEF PcmTypeOK
<1>7. PcmTypeOK'
  BY <1>1, <1>5, <1>6 DEF PcmTypeOK
<1>8. InstalledIsManaged'
  <2>1. \A q \in Packages : installed'[q] # NotInstalled => q \in managed'
    BY <1>6 DEF Agreement, InstalledIsManaged
  <2>2. \A q \in Ops : ops'[q].at \in {"save", "write"} => ops'[q].pkg \in managed'
    BY <1>2, <1>5 DEF Agreement, InstalledIsManaged
  <2>3. QED  BY <2>1, <2>2 DEF InstalledIsManaged
<1>9. ASSUME NEW stages \in SUBSET {"save", "write", "index"}, "save" \in stages
      PROVE  /\ Pending(p, stages)'
             /\ \A q \in Packages : Pending(q, stages) => Pending(q, stages)'
  BY <1>2, <1>5, <1>9 DEF Pending
<1>10. /\ {"save"} \in SUBSET {"save", "write", "index"}
       /\ {"save", "write"} \in SUBSET {"save", "write", "index"}
       /\ {"save", "write", "index"} \in SUBSET {"save", "write", "index"}
       /\ "save" \in {"save"} /\ "save" \in {"save", "write"}
       /\ "save" \in {"save", "write", "index"}
  OBVIOUS
<1>11. overlooked \subseteq overlooked'
  BY DEF Overlook
<1>12. StoredIsInstalled'
  BY <1>6, <1>9, <1>10 DEF Agreement, StoredIsInstalled
<1>13. ListedIsInstalled'
  BY <1>6, <1>9, <1>10 DEF Agreement, ListedIsInstalled, Version
<1>14. ShownIsInstalled'
  BY <1>6, <1>9, <1>10, <1>11 DEF Agreement, ShownIsInstalled, Version
<1>15. RefreshesSee'
  <2> SUFFICES ASSUME NEW q \in Ops, NEW k \in Packages,
                      ops'[q].kind = "refresh", ops'[q].list[k] # NotListed
               PROVE  ops'[q].list[k].seen = Version(k)' \/ k \in overlooked'
    BY DEF RefreshesSee
  <2>1. ops'[q] = ops[q]  BY <1>3, <1>5
  <2>2. CASE k = p
    BY <2>1, <2>2 DEF Overlook
  <2>3. CASE k # p
    BY <1>6, <1>11, <2>1, <2>3 DEF Agreement, RefreshesSee, Version
  <2>4. QED  BY <2>2, <2>3
<1>16. QED
  BY <1>5, <1>7, <1>8, <1>12, <1>13, <1>14, <1>15 DEF Agreement

LEMMA UninstallKeepsInv ==
  ASSUME PcmIInv, NEW o \in Ops, Uninstall(o)
  PROVE  PcmIInv'
<1> DEFINE p == ops[o].pkg
<1>1. PcmTypeOK /\ OpsShaped /\ Agreement /\ InstalledPackagesAreWhole
  BY DEF PcmIInv, Agreement
<1>2. /\ ops[o] \in OpType /\ Shaped(ops[o]) /\ ops[o].at = "picked"
      /\ UNCHANGED <<managed, catalogue, stored, listed, commands, cut>>
  BY <1>1 DEF PcmTypeOK, OpsShaped, Uninstall
<1>3. p \in Packages  BY <1>2 DEF Shaped, WithPackage
<1>4. CASE Goes(o, Done(ops[o])) /\ UNCHANGED <<installed, files, tables, damaged, overlooked>>
  <2>1. UNCHANGED <<service, disk, history>>
    BY <1>2, <1>4 DEF service, disk, history
  <2>2. commands' \in 0 .. MaxCommands  BY <1>1, <1>2 DEF PcmTypeOK
  <2>3. QED  BY <1>2, <1>4, <2>1, <2>2, DoneOps, QuietStep
<1>5. ASSUME Version(p) # 0, RemoveDirectInstallFiles(p),
             installed' = [installed EXCEPT ![p] = NotInstalled],
             damaged' = damaged \union (NamedUnder[p] \ {p}),
             Overlook(p), Goes(o, [ops[o] EXCEPT !.at = "save"])
      PROVE  PcmIInv'
  <2>1. /\ files' \in [Packages -> 0 .. MaxVersion] /\ tables' \in SUBSET Packages
        /\ tables' = tables \ NamedUnder[p]
        /\ \A q \in Packages \ {p} : files'[q] = files[q]
    BY <1>1, <1>3, <1>5, PcmAssumption DEF PcmTypeOK, RemoveDirectInstallFiles
  <2>2. p \in managed'
    BY <1>1, <1>2, <1>3, <1>5 DEF Agreement, InstalledIsManaged, Version, NotInstalled
  <2>3. NotInstalled \in Entries /\ NotInstalled.by = "none"  BY DEF Entries, NotInstalled
  <2>4. managed' \in SUBSET Packages /\ managed \subseteq managed'
    BY <1>1, <1>2 DEF PcmTypeOK
  <2>5. Agreement'
    BY <1>1, <1>2, <1>3, <1>5, <2>1, <2>2, <2>3, <2>4, ChangeIsPending
  <2>6. InstalledPackagesAreWhole'
    <3> SUFFICES ASSUME NEW q \in Packages, installed'[q].by = "direct",
                        q \notin damaged', ~Updating(q)'
                 PROVE  files'[q] = Version(q)' /\ q \in tables'
      BY DEF InstalledPackagesAreWhole, Updating
    <3>1. q # p
      BY <1>1, <1>3, <1>5, <2>3 DEF PcmTypeOK
    <3>2. q \notin damaged /\ q \notin NamedUnder[p] /\ installed'[q] = installed[q]
      BY <1>1, <1>3, <1>5, <3>1 DEF PcmTypeOK
    <3>3. ~Updating(q)  BY <1>1, <1>5, <3>1, OthersUpdate
    <3>4. files[q] = Version(q) /\ q \in tables
      BY <1>1, <3>2, <3>3 DEF InstalledPackagesAreWhole, Updating
    <3>5. QED  BY <2>1, <3>1, <3>2, <3>4 DEF Version
  <2>7. QED  BY <2>5, <2>6 DEF PcmIInv
<1>6. QED  BY <1>4, <1>5 DEF Uninstall

\* What a download or kicad-cli has brought is recorded.
LEMMA RecordIsPending ==
  ASSUME Agreement, NEW o \in Ops, NEW by \in {"cli", "direct"}, Record(o, by),
         ops[o].at \in {"fetch", "cli"},
         UNCHANGED <<catalogue, stored, listed, commands, cut>>,
         files' \in [Packages -> 0 .. MaxVersion], tables' \in SUBSET Packages
  PROVE  /\ Agreement' /\ ops[o].pkg \in Packages
         /\ installed' = [installed EXCEPT ![ops[o].pkg] =
                            [version |-> ops[o].offer.latest, by |-> by]]
<1>1. PcmTypeOK /\ OpsShaped  BY DEF Agreement
<1>2. ops[o] \in OpType /\ Shaped(ops[o])  BY <1>1 DEF PcmTypeOK, OpsShaped
<1>3. ops[o].pkg \in Packages /\ ops[o].offer # NotListed
  BY <1>2 DEF Shaped, WithPackage
<1>4. [version |-> ops[o].offer.latest, by |-> by] \in Entries
  BY <1>2, <1>3 DEF OpType, Offers, Entries
<1>5. /\ installed' = [installed EXCEPT ![ops[o].pkg] =
                         [version |-> ops[o].offer.latest, by |-> by]]
      /\ managed' = managed \union {ops[o].pkg}
      /\ Overlook(ops[o].pkg) /\ Goes(o, [ops[o] EXCEPT !.at = "save"])
  BY DEF Record
<1>6. managed' \in SUBSET Packages /\ managed \subseteq managed' /\ ops[o].pkg \in managed'
  BY <1>1, <1>3, <1>5 DEF PcmTypeOK
<1>7. Agreement'
  BY <1>3, <1>4, <1>5, <1>6, ChangeIsPending
<1>8. QED  BY <1>3, <1>5, <1>7

LEMMA ExtractedKeepsInv ==
  ASSUME PcmIInv, NEW o \in Ops, Extracted(o)
  PROVE  PcmIInv'
<1> DEFINE p == ops[o].pkg
<1>1. PcmTypeOK /\ OpsShaped /\ Agreement /\ InstalledPackagesAreWhole
  BY DEF PcmIInv, Agreement
<1>2. /\ ops[o].at = "fetch" /\ Record(o, "direct")
      /\ files' = [files EXCEPT ![p] = ops[o].offer.latest]
      /\ tables' = (tables \ NamedUnder[p]) \union {p}
      /\ damaged' = (damaged \union NamedUnder[p]) \ {p}
      /\ UNCHANGED <<catalogue, stored, listed, commands, cut>>
  BY DEF Extracted
<1>3. ops[o] \in OpType /\ p \in Packages /\ ops[o].offer # NotListed
  BY <1>1, <1>2 DEF PcmTypeOK, OpsShaped, Shaped, WithPackage
<1>4. ops[o].offer.latest \in 0 .. MaxVersion
  BY <1>3, PcmAssumption DEF OpType, Offers, Versions
<1>5. files' \in [Packages -> 0 .. MaxVersion] /\ tables' \in SUBSET Packages
  BY <1>1, <1>2, <1>3, <1>4 DEF PcmTypeOK
<1>6. /\ Agreement'
      /\ installed' = [installed EXCEPT ![p] = [version |-> ops[o].offer.latest, by |-> "direct"]]
  BY <1>1, <1>2, <1>5, RecordIsPending
<1>7. InstalledPackagesAreWhole'
  <2> SUFFICES ASSUME NEW q \in Packages, installed'[q].by = "direct",
                      q \notin damaged', ~Updating(q)'
               PROVE  files'[q] = Version(q)' /\ q \in tables'
    BY DEF InstalledPackagesAreWhole, Updating
  <2>1. CASE q = p
    BY <1>1, <1>2, <1>3, <1>6, <2>1 DEF PcmTypeOK, Version
  <2>2. CASE q # p
    <3>1. q \notin damaged /\ q \notin NamedUnder[p] /\ installed'[q] = installed[q]
      BY <1>1, <1>2, <1>3, <1>6, <2>2 DEF PcmTypeOK
    <3>2. ~Updating(q)  BY <1>1, <1>2, <2>2, OthersUpdate DEF Record
    <3>3. files[q] = Version(q) /\ q \in tables
      BY <1>1, <3>1, <3>2 DEF InstalledPackagesAreWhole, Updating
    <3>4. files'[q] = files[q]  BY <1>1, <1>2, <2>2 DEF PcmTypeOK
    <3>5. QED  BY <1>2, <3>1, <3>3, <3>4 DEF Version
  <2>3. QED  BY <2>1, <2>2
<1>8. QED  BY <1>6, <1>7 DEF PcmIInv

LEMMA CliInstalledKeepsInv ==
  ASSUME PcmIInv, NEW o \in Ops, CliInstalled(o)
  PROVE  PcmIInv'
<1> DEFINE p == ops[o].pkg
<1>1. PcmTypeOK /\ Agreement /\ InstalledPackagesAreWhole
  BY DEF PcmIInv, Agreement
<1>2. /\ ops[o].at = "cli" /\ Record(o, "cli")
      /\ UNCHANGED <<catalogue, stored, listed, commands, cut>>
      /\ UNCHANGED <<files, tables, damaged>>
  BY DEF CliInstalled, disk
<1>3. files' \in [Packages -> 0 .. MaxVersion] /\ tables' \in SUBSET Packages
  BY <1>1, <1>2 DEF PcmTypeOK
<1>4. /\ Agreement' /\ p \in Packages
      /\ installed' = [installed EXCEPT ![p] = [version |-> ops[o].offer.latest, by |-> "cli"]]
  BY <1>1, <1>2, <1>3, RecordIsPending
<1>5. InstalledPackagesAreWhole'
  <2> SUFFICES ASSUME NEW q \in Packages, installed'[q].by = "direct",
                      q \notin damaged', ~Updating(q)'
               PROVE  files'[q] = Version(q)' /\ q \in tables'
    BY DEF InstalledPackagesAreWhole, Updating
  <2>1. q # p
    BY <1>1, <1>4 DEF PcmTypeOK
  <2>2. installed'[q] = installed[q]
    BY <1>1, <1>4, <2>1 DEF PcmTypeOK
  <2>3. ~Updating(q)  BY <1>1, <1>2, <2>1, OthersUpdate DEF Record
  <2>4. QED
    BY <1>1, <1>2, <2>2, <2>3 DEF InstalledPackagesAreWhole, Updating, Version
<1>6. QED  BY <1>4, <1>5 DEF PcmIInv

-----------------------------------------------------------------------------
\* A command whose download has failed is over, and its package is damaged
\* unless nothing of it had been taken away.
LEMMA FailureKeepsInv ==
  ASSUME PcmIInv, NEW o \in Ops, ops[o].at \in {"fetch", "cli"}, Goes(o, Idle),
         UNCHANGED <<service, stored, listed, tables, commands, cut, overlooked>>,
         damaged \subseteq damaged',
         ops[o].kind # "install" => ops[o].pkg \in damaged',
         \/ files' = files
         \/ files' = [files EXCEPT ![ops[o].pkg] = 0] /\ ops[o].pkg \in damaged'
  PROVE  PcmIInv'
<1>1. PcmTypeOK /\ OpsShaped /\ Agreement /\ InstalledPackagesAreWhole
  BY DEF PcmIInv, Agreement
<1>2. ops[o].pkg \in Packages
  BY <1>1 DEF OpsShaped, Shaped, WithPackage
<1>3. /\ files' \in [Packages -> 0 .. MaxVersion] /\ tables' \in SUBSET Packages
      /\ commands' \in 0 .. MaxCommands
  BY <1>1, <1>2, PcmAssumption DEF PcmTypeOK
<1>4. Agreement'
  BY <1>1, <1>3, Records, AgreementStays
<1>5. InstalledPackagesAreWhole'
  <2> SUFFICES ASSUME NEW q \in Packages, installed'[q].by = "direct",
                      q \notin damaged', ~Updating(q)'
               PROVE  files'[q] = Version(q)' /\ q \in tables'
    BY DEF InstalledPackagesAreWhole, Updating
  <2>1. ~Updating(q)
    BY <1>1, OthersUpdate, UpdatingStays
  <2>2. installed' = installed /\ files'[q] = files[q]
    BY <1>1 DEF service, PcmTypeOK
  <2>3. QED
    BY <1>1, <2>1, <2>2 DEF InstalledPackagesAreWhole, Updating, Version
<1>6. QED  BY <1>4, <1>5 DEF PcmIInv

LEMMA ExtractionFailsKeepsInv ==
  ASSUME PcmIInv, NEW o \in Ops, ExtractionFails(o)
  PROVE  PcmIInv'
BY FailureKeepsInv DEF ExtractionFails

LEMMA InstallFailsKeepsInv ==
  ASSUME PcmIInv, NEW o \in Ops, InstallFails(o)
  PROVE  PcmIInv'
<1>1. UNCHANGED <<service, stored, listed, tables, commands, cut, overlooked>> /\ files' = files
  BY DEF InstallFails, disk
<1>2. /\ damaged \subseteq damaged' /\ ops[o].at \in {"fetch", "cli"} /\ Goes(o, Idle)
      /\ ops[o].kind # "install" => ops[o].pkg \in damaged'
  BY DEF InstallFails
<1>3. QED  BY <1>1, <1>2, FailureKeepsInv

-----------------------------------------------------------------------------
\* A command that has changed the map goes to its next stage, and no excuse for
\* the files of a package begins or ends.
LEMMA NextStage ==
  ASSUME PcmIInv, NEW o \in Ops, NEW op \in OpType, Shaped(op), ReadNothing(op),
         Goes(o, op), ops[o].at \in {"save", "write", "index"},
         UNCHANGED <<installed, files, tables, damaged, overlooked>>
  PROVE  /\ ops' \in [Ops -> OpType] /\ OpsShaped' /\ ops'[o] = op
         /\ \A q \in Ops \ {o} : ops'[q] = ops[q]
         /\ RefreshesSee' /\ InstalledPackagesAreWhole'
<1>1. PcmTypeOK /\ OpsShaped /\ RefreshesSee /\ InstalledPackagesAreWhole
  BY DEF PcmIInv, Agreement
<1>2. /\ ops' \in [Ops -> OpType] /\ OpsShaped' /\ ops'[o] = op
      /\ \A q \in Ops \ {o} : ops'[q] = ops[q]
  BY <1>1, GoesOps
<1>3. RefreshesSee'
  BY <1>1, <1>2, Records DEF RefreshesSee, ReadNothing, Version
<1>4. \A p \in Packages : Updating(p) => Updating(p)'
  BY <1>1, UpdatingStays
<1>5. InstalledPackagesAreWhole'
  BY <1>1, <1>4, WholeStays
<1>6. QED  BY <1>2, <1>3, <1>5

\* A command that is at a stage after changing the map.
LEMMA StageOps ==
  ASSUME PcmTypeOK, OpsShaped, NEW o \in Ops, NEW at \in {"write", "index"},
         ops[o].at \in {"save", "write", "index"}, NEW op, op = [ops[o] EXCEPT !.at = at]
  PROVE  /\ op \in OpType /\ Shaped(op) /\ ReadNothing(op)
         /\ op.at = at /\ op.pkg = ops[o].pkg
<1>1. ops[o] \in OpType /\ Shaped(ops[o])  BY DEF PcmTypeOK, OpsShaped
<1>2. /\ op \in OpType /\ op.at = at /\ op.pkg = ops[o].pkg
      /\ op.offer = ops[o].offer /\ op.kind = ops[o].kind /\ op.todo = ops[o].todo
  BY <1>1 DEF OpType
<1>3. QED  BY <1>1, <1>2 DEF Shaped, ReadNothing, WithPackage

LEMMA SavedKeepsInv ==
  ASSUME PcmIInv, NEW o \in Ops, Saved(o)
  PROVE  PcmIInv'
<1>1. PcmTypeOK /\ OpsShaped /\ Agreement  BY DEF PcmIInv, Agreement
<1>2. /\ ops[o].at = "save" /\ stored' = installed
      /\ UNCHANGED <<installed, managed, catalogue, listed, files, tables>>
      /\ UNCHANGED <<commands, damaged, cut, overlooked>>
  BY DEF Saved, service, history
<1> DEFINE op == [ops[o] EXCEPT !.at = "write"]
<1>3. /\ op \in OpType /\ Shaped(op) /\ ReadNothing(op)
      /\ op.at = "write" /\ op.pkg = ops[o].pkg
  BY <1>1, <1>2, StageOps
<1>4. Goes(o, op)  BY DEF Saved
<1> HIDE DEF op
<1>5. /\ ops' \in [Ops -> OpType] /\ OpsShaped' /\ ops'[o] = op
      /\ \A q \in Ops \ {o} : ops'[q] = ops[q]
      /\ RefreshesSee' /\ InstalledPackagesAreWhole'
  BY <1>2, <1>3, <1>4, NextStage
<1>6. PcmTypeOK'
  BY <1>1, <1>2, <1>5 DEF PcmTypeOK
<1>7. InstalledIsManaged'
  BY <1>1, <1>2, <1>3, <1>5 DEF Agreement, InstalledIsManaged
<1>8. StoredIsInstalled'
  BY <1>2 DEF StoredIsInstalled
<1>9. ListedIsInstalled'
  BY <1>1, <1>2, <1>3, <1>5 DEF Agreement, ListedIsInstalled, Pending, Version
<1>10. ShownIsInstalled'
  BY <1>1, <1>2, <1>3, <1>5 DEF Agreement, ShownIsInstalled, Pending, Version
<1>11. QED
  BY <1>5, <1>6, <1>7, <1>8, <1>9, <1>10 DEF PcmIInv, Agreement

LEMMA WriteInstalledPackagesKeepsInv ==
  ASSUME PcmIInv, NEW o \in Ops, WriteInstalledPackages(o)
  PROVE  PcmIInv'
<1>1. PcmTypeOK /\ OpsShaped /\ Agreement  BY DEF PcmIInv, Agreement
<1>2. /\ ops[o].at = "write" /\ cut' = cut \ managed
      /\ listed' = [p \in Packages |-> IF p \in managed THEN Version(p) ELSE listed[p]]
      /\ UNCHANGED <<installed, managed, catalogue, stored, files, tables>>
      /\ UNCHANGED <<commands, damaged, overlooked>>
  BY DEF WriteInstalledPackages, service
<1> DEFINE op == [ops[o] EXCEPT !.at = "index"]
<1>3. /\ op \in OpType /\ Shaped(op) /\ ReadNothing(op)
      /\ op.at = "index" /\ op.pkg = ops[o].pkg
  BY <1>1, <1>2, StageOps
<1>4. Goes(o, op)  BY DEF WriteInstalledPackages
<1> HIDE DEF op
<1>5. /\ ops' \in [Ops -> OpType] /\ OpsShaped' /\ ops'[o] = op
      /\ \A q \in Ops \ {o} : ops'[q] = ops[q]
      /\ RefreshesSee' /\ InstalledPackagesAreWhole'
  BY <1>2, <1>3, <1>4, NextStage
<1>6. \A p \in Packages : Version(p) \in 0 .. MaxVersion
  BY <1>1, EntryVersions DEF PcmTypeOK, Version
<1>7. PcmTypeOK'
  BY <1>1, <1>2, <1>5, <1>6 DEF PcmTypeOK
<1>8. InstalledIsManaged'
  BY <1>1, <1>2, <1>3, <1>5 DEF Agreement, InstalledIsManaged
<1>9. StoredIsInstalled'
  BY <1>1, <1>2, <1>5 DEF Agreement, StoredIsInstalled, Pending
<1>10. ListedIsInstalled'
  <2> SUFFICES ASSUME NEW p \in Packages, p \notin managed
               PROVE  listed[p] = Version(p) \/ p \in cut
    BY <1>2 DEF ListedIsInstalled, Version
  <2>1. ~Pending(p, {"save", "write"})
    BY <1>1 DEF Agreement, InstalledIsManaged, Pending
  <2>2. QED  BY <1>1, <2>1 DEF Agreement, ListedIsInstalled
<1>11. ShownIsInstalled'
  BY <1>1, <1>2, <1>3, <1>5 DEF Agreement, ShownIsInstalled, Pending, Version
<1>12. QED
  BY <1>5, <1>7, <1>8, <1>9, <1>10, <1>11 DEF PcmIInv, Agreement

LEMMA IndexedKeepsInv ==
  ASSUME PcmIInv, NEW o \in Ops, Indexed(o)
  PROVE  PcmIInv'
<1>1. PcmTypeOK /\ OpsShaped /\ Agreement  BY DEF PcmIInv, Agreement
<1>2. /\ ops[o].at = "index"
      /\ catalogue' = [p \in Packages |->
           IF catalogue[p] = NotListed THEN NotListed
                                       ELSE [catalogue[p] EXCEPT !.seen = Version(p)]]
      /\ UNCHANGED <<installed, managed, stored, listed, files, tables>>
      /\ UNCHANGED <<commands, damaged, cut, overlooked>>
  BY DEF Indexed, disk, history
<1> DEFINE op == Done(ops[o])
<1>3. /\ op \in OpType /\ Shaped(op) /\ ReadNothing(op) /\ op.at \in {"next", "load"}
  BY <1>1, DoneOps DEF PcmTypeOK, OpsShaped
<1>4. Goes(o, op)  BY DEF Indexed
<1> HIDE DEF op
<1>5. /\ ops' \in [Ops -> OpType] /\ OpsShaped' /\ ops'[o] = op
      /\ \A q \in Ops \ {o} : ops'[q] = ops[q]
      /\ RefreshesSee' /\ InstalledPackagesAreWhole'
  BY <1>2, <1>3, <1>4, NextStage
<1>6. ASSUME NEW p \in Packages
      PROVE  /\ catalogue'[p] \in Offers
             /\ catalogue'[p] = NotListed \/ catalogue'[p].seen = Version(p)
  <2>1. Version(p) \in 0 .. MaxVersion
    BY <1>1, EntryVersions DEF PcmTypeOK, Version
  <2>2. CASE catalogue[p] = NotListed
    BY <1>2, <2>2, Records
  <2>3. CASE catalogue[p] # NotListed
    <3>1. catalogue[p] \in [latest : Versions, seen : 0 .. MaxVersion]
      BY <1>1, <2>3 DEF PcmTypeOK, Offers
    <3>2. catalogue'[p] = [catalogue[p] EXCEPT !.seen = Version(p)]
      BY <1>2, <2>3
    <3>3. QED  BY <2>1, <3>1, <3>2 DEF Offers
  <2>4. QED  BY <2>2, <2>3
<1>7. catalogue' \in [Packages -> Offers]
  BY <1>2, <1>6
<1>8. PcmTypeOK'
  BY <1>1, <1>2, <1>5, <1>7 DEF PcmTypeOK
<1>9. InstalledIsManaged'
  BY <1>1, <1>2, <1>3, <1>5 DEF Agreement, InstalledIsManaged
<1>10. StoredIsInstalled'
  BY <1>1, <1>2, <1>5 DEF Agreement, StoredIsInstalled, Pending
<1>11. ListedIsInstalled'
  BY <1>1, <1>2, <1>5 DEF Agreement, ListedIsInstalled, Pending, Version
<1>12. ShownIsInstalled'
  BY <1>2, <1>6 DEF ShownIsInstalled, Version
<1>13. QED
  BY <1>5, <1>8, <1>9, <1>10, <1>11, <1>12 DEF PcmIInv, Agreement

\* The answer of a repository tells its packages as they are now, and the last
\* one publishes them all.
LEMMA LoadKeepsInv ==
  ASSUME PcmIInv, NEW o \in Ops, NEW r \in Repositories, Load(o, r)
  PROVE  PcmIInv'
<1>1. PcmTypeOK /\ OpsShaped /\ Agreement /\ InstalledPackagesAreWhole
  BY DEF PcmIInv, Agreement
<1>2. /\ ops[o] \in OpType /\ Shaped(ops[o]) /\ r \in ops[o].todo
      /\ UNCHANGED <<installed, managed, stored, listed, files, tables>>
      /\ UNCHANGED <<commands, damaged, cut, overlooked>>
  BY <1>1 DEF Load, PcmTypeOK, OpsShaped, disk, history
<1>3. ops[o].kind = "refresh" /\ ops[o].at = "load"
  BY <1>2 DEF Shaped
<1>4. PICK found \in {{}, {p \in Packages : RepositoryOf[p] = r}} :
        \E latest \in [found -> Versions] :
        LET op == [ops[o] EXCEPT !.todo = @ \ {r},
                     !.list = [p \in Packages |->
                        IF p \in found THEN [latest |-> latest[p], seen |-> Version(p)]
                                       ELSE @[p]]]
        IN IF op.todo = {}
             THEN Goes(o, Idle) /\ catalogue' = op.list
             ELSE Goes(o, op) /\ UNCHANGED catalogue
  BY DEF Load
<1>4a. PICK latest \in [found -> Versions] :
        LET op == [ops[o] EXCEPT !.todo = @ \ {r},
                     !.list = [p \in Packages |->
                        IF p \in found THEN [latest |-> latest[p], seen |-> Version(p)]
                                       ELSE @[p]]]
        IN IF op.todo = {}
             THEN Goes(o, Idle) /\ catalogue' = op.list
             ELSE Goes(o, op) /\ UNCHANGED catalogue
  BY <1>4
<1> DEFINE list == [p \in Packages |->
                      IF p \in found THEN [latest |-> latest[p], seen |-> Version(p)]
                                     ELSE ops[o].list[p]]
           op == [ops[o] EXCEPT !.todo = @ \ {r}, !.list = list]
<1>5. IF op.todo = {} THEN Goes(o, Idle) /\ catalogue' = op.list
                      ELSE Goes(o, op) /\ UNCHANGED catalogue
  BY <1>4a
<1>6. /\ list \in [Packages -> Offers]
      /\ \A p \in Packages : list[p] = NotListed \/ list[p].seen = Version(p) \/ p \in overlooked
  <2> SUFFICES ASSUME NEW p \in Packages
               PROVE  /\ list[p] \in Offers
                      /\ list[p] = NotListed \/ list[p].seen = Version(p) \/ p \in overlooked
    OBVIOUS
  <2>1. CASE p \in found
    <3>1. latest[p] \in Versions /\ Version(p) \in 0 .. MaxVersion
      BY <1>1, <2>1, EntryVersions DEF PcmTypeOK, Version
    <3>2. list[p] = [latest |-> latest[p], seen |-> Version(p)]
      BY <2>1
    <3>3. QED  BY <3>1, <3>2 DEF Offers
  <2>2. CASE p \notin found
    BY <1>1, <1>2, <1>3, <2>2 DEF OpType, Agreement, RefreshesSee
  <2>3. QED  BY <2>1, <2>2
<1> HIDE DEF list
<1>7. /\ op \in OpType /\ op.kind = "refresh" /\ op.at = "load" /\ op.list = list
  BY <1>2, <1>3, <1>6 DEF OpType
<1> HIDE DEF op
<1>8. Shaped(op)
  BY <1>7 DEF Shaped, WithPackage
<1> DEFINE new == IF op.todo = {} THEN Idle ELSE op
<1>9. /\ new \in OpType /\ Shaped(new) /\ Goes(o, new)
      /\ new.at \in {"idle", "load"}
      /\ new.kind = "refresh" => new.list = list
      /\ catalogue' = catalogue \/ catalogue' = list
  BY <1>5, <1>7, <1>8, Records
<1> HIDE DEF new
<1>10. /\ ops' \in [Ops -> OpType] /\ OpsShaped' /\ ops'[o] = new
       /\ \A q \in Ops \ {o} : ops'[q] = ops[q]
  BY <1>1, <1>9, GoesOps
<1>11. PcmTypeOK'
  BY <1>1, <1>2, <1>6, <1>9, <1>10 DEF PcmTypeOK
<1>12. InstalledIsManaged'
  BY <1>1, <1>2, <1>9, <1>10 DEF Agreement, InstalledIsManaged
<1>13. StoredIsInstalled'
  BY <1>1, <1>2, <1>3, <1>10 DEF Agreement, StoredIsInstalled, Pending
<1>14. ListedIsInstalled'
  BY <1>1, <1>2, <1>3, <1>10 DEF Agreement, ListedIsInstalled, Pending, Version
<1>15. ShownIsInstalled'
  <2>1. CASE catalogue' = list
    BY <1>2, <1>6, <2>1 DEF ShownIsInstalled, Version
  <2>2. CASE catalogue' = catalogue
    BY <1>1, <1>2, <1>3, <1>10, <2>2 DEF Agreement, ShownIsInstalled, Pending, Version
  <2>3. QED  BY <1>9, <2>1, <2>2
<1>16. RefreshesSee'
  BY <1>1, <1>2, <1>6, <1>9, <1>10 DEF Agreement, RefreshesSee, Version
<1>17. InstalledPackagesAreWhole'
  BY <1>1, <1>2, <1>3, <1>9, UpdatingStays, WholeStays
<1>18. QED
  BY <1>10, <1>11, <1>12, <1>13, <1>14, <1>15, <1>16, <1>17 DEF PcmIInv, Agreement

\* A reload reads back what was saved: what had still to be saved is forgotten.
LEMMA ReloadKeepsInv ==
  ASSUME PcmIInv, Reload
  PROVE  PcmIInv'
<1>1. PcmTypeOK /\ Agreement /\ InstalledPackagesAreWhole
  BY DEF PcmIInv, Agreement
<1>2. /\ installed' = stored
      /\ managed' = {p \in Packages : stored[p] # NotInstalled}
      /\ catalogue' = NoOffers /\ overlooked' = {}
      /\ UNCHANGED <<stored, listed, files, tables, commands>>
  BY DEF Reload, disk
<1>3. /\ damaged \subseteq damaged' /\ cut \subseteq cut'
      /\ \A p \in Packages : /\ Pending(p, {"save"}) \/ Updating(p) => p \in damaged'
                             /\ Pending(p, {"save", "write"}) => p \in cut'
  BY DEF Reload, Pending, Updating
<1>4. PICK o \in Ops : ops' = [q \in Ops |-> IF q = o THEN Refreshing ELSE Idle]
  BY DEF Reload
<1>5. /\ ops' \in [Ops -> OpType] /\ OpsShaped'
      /\ \A q \in Ops : ops'[q].at \in {"idle", "load"} /\ ops'[q].list = NoOffers
  BY <1>4, Records DEF OpsShaped, Shaped
<1>6. \A p \in Packages : stored[p] = installed[p] \/ Pending(p, {"save"})
  BY <1>1 DEF Agreement, StoredIsInstalled
<1>7. \A p \in Packages : Pending(p, {"save"}) => Pending(p, {"save", "write"})
  BY DEF Pending
<1>8. PcmTypeOK'
  BY <1>1, <1>2, <1>5, Records DEF PcmTypeOK
<1>9. InstalledIsManaged'
  BY <1>2, <1>5 DEF InstalledIsManaged
<1>10. StoredIsInstalled'
  BY <1>2 DEF StoredIsInstalled
<1>11. ListedIsInstalled'
  BY <1>1, <1>2, <1>3, <1>6, <1>7 DEF Agreement, ListedIsInstalled, Version
<1>12. ShownIsInstalled'
  BY <1>2, Records DEF ShownIsInstalled
<1>13. RefreshesSee'
  BY <1>5, Records DEF RefreshesSee
<1>14. InstalledPackagesAreWhole'
  BY <1>1, <1>2, <1>3, <1>6 DEF InstalledPackagesAreWhole, Updating, Version
<1>15. QED
  BY <1>5, <1>8, <1>9, <1>10, <1>11, <1>12, <1>13, <1>14 DEF PcmIInv, Agreement

-----------------------------------------------------------------------------
LEMMA InitEstablishesInv == PcmInit => PcmIInv
<1> SUFFICES ASSUME PcmInit PROVE PcmIInv
  OBVIOUS
<1>1. PICK latest \in [Packages -> Versions] :
        catalogue = [p \in Packages |->
                       [latest |-> latest[p], seen |-> installed[p].version]]
  BY DEF PcmInit
<1>2. \A p \in Packages : installed[p] \in Entries /\ installed[p].version \in 0 .. MaxVersion
  BY EntryVersions DEF PcmInit
<1>3. catalogue \in [Packages -> Offers]
  BY <1>1, <1>2 DEF Offers
<1>4. /\ \A o \in Ops : ops[o] = Idle
      /\ \A p \in Packages : catalogue[p].seen = Version(p)
  BY <1>1 DEF PcmInit, Version
<1>5. PcmTypeOK
  BY <1>2, <1>3, Records, PcmAssumption DEF PcmInit, PcmTypeOK
<1>6. OpsShaped /\ RefreshesSee
  BY <1>4, Records DEF OpsShaped, RefreshesSee
<1>7. InstalledIsManaged
  BY <1>4, Records DEF PcmInit, InstalledIsManaged
<1>8. StoredIsInstalled /\ ListedIsInstalled /\ ShownIsInstalled
  BY <1>4 DEF PcmInit, StoredIsInstalled, ListedIsInstalled, ShownIsInstalled, Version
<1>9. InstalledPackagesAreWhole
  BY DEF PcmInit, InstalledPackagesAreWhole, Version
<1>10. QED  BY <1>5, <1>6, <1>7, <1>8, <1>9 DEF PcmIInv, Agreement

LEMMA StutterKeepsInv ==
  ASSUME PcmIInv, UNCHANGED pcmVars
  PROVE  PcmIInv'
<1>1. UNCHANGED <<installed, managed, catalogue, stored, listed, files, tables, ops>>
      /\ UNCHANGED <<commands, damaged, cut, overlooked>>
  BY DEF pcmVars, service, disk, history
<1>2. PcmTypeOK' /\ OpsShaped' /\ InstalledIsManaged' /\ RefreshesSee'
  BY <1>1 DEF PcmIInv, Agreement, PcmTypeOK, OpsShaped, InstalledIsManaged, RefreshesSee, Version
<1>3. StoredIsInstalled' /\ ListedIsInstalled' /\ ShownIsInstalled'
  BY <1>1 DEF PcmIInv, Agreement, StoredIsInstalled, ListedIsInstalled, ShownIsInstalled,
              Pending, Version
<1>4. InstalledPackagesAreWhole'
  BY <1>1 DEF PcmIInv, InstalledPackagesAreWhole, Version
<1>5. QED  BY <1>2, <1>3, <1>4 DEF PcmIInv, Agreement

THEOREM PcmInvariant == PcmSpec => []PcmIInv
<1>1. PcmIInv /\ [PcmNext]_pcmVars => PcmIInv'
  <2> SUFFICES ASSUME PcmIInv, [PcmNext]_pcmVars PROVE PcmIInv'
    OBVIOUS
  <2>1. ASSUME NEW o \in Ops, NEW p \in Packages, NEW kind \in Kinds, Choose(o, kind, p)
        PROVE  PcmIInv'
    BY <2>1, ChooseKeepsInv
  <2>2. ASSUME NEW o \in Ops,
               \/ Dismiss(o) \/ Install(o) \/ Update(o) \/ Uninstall(o)
               \/ UpdateAll(o) \/ NextUpdate(o) \/ AllUpdated(o) \/ Refresh(o)
        PROVE  PcmIInv'
    BY <2>2, DismissKeepsInv, InstallKeepsInv, UpdateKeepsInv, UninstallKeepsInv,
       UpdateAllKeepsInv, NextUpdateKeepsInv, AllUpdatedKeepsInv, RefreshKeepsInv
  <2>3. ASSUME NEW o \in Ops,
               \/ Extracted(o) \/ CliInstalled(o) \/ ExtractionFails(o) \/ InstallFails(o)
               \/ Saved(o) \/ WriteInstalledPackages(o) \/ Indexed(o)
        PROVE  PcmIInv'
    BY <2>3, ExtractedKeepsInv, CliInstalledKeepsInv, ExtractionFailsKeepsInv,
       InstallFailsKeepsInv, SavedKeepsInv, WriteInstalledPackagesKeepsInv, IndexedKeepsInv
  <2>4. ASSUME NEW o \in Ops, NEW r \in Repositories, Load(o, r)
        PROVE  PcmIInv'
    BY <2>4, LoadKeepsInv
  <2>5. CASE Reload
    BY <2>5, ReloadKeepsInv
  <2>6. CASE UNCHANGED pcmVars
    BY <2>6, StutterKeepsInv
  <2>7. QED  BY <2>1, <2>2, <2>3, <2>4, <2>5, <2>6 DEF PcmNext
<1>2. QED  BY InitEstablishesInv, <1>1, PTL DEF PcmSpec

\* What the service says of its packages, in memory, in storage, in KiCad's list
\* and in the view, agrees once its commands are through (PcmService,
\* pcmService.ts).
THEOREM PackagesAgree == PcmSpec => []PcmInv
<1>1. PcmIInv => PcmInv  BY DEF PcmIInv, Agreement, PcmInv
<1>2. QED  BY PcmInvariant, <1>1, PTL

\* A package that counts as installed directly has the files of its version and
\* its entries in the library tables, unless an update of it is under way, an
\* operation that failed or was cut off has touched it, or an update whose
\* version has the string of the one installed, however the versions of a package
\* are called and compared (PcmService.installDirect, updatePackage).
THEOREM PackagesStayWhole == PcmSpec => []InstalledPackagesAreWhole
<1>1. PcmIInv => InstalledPackagesAreWhole  BY DEF PcmIInv
<1>2. QED  BY PcmInvariant, <1>1, PTL
=============================================================================
