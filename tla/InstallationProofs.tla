--------------------------- MODULE InstallationProofs ---------------------------
(***************************************************************************)
(* The invariants of Installation, for any places, releases, failures and  *)
(* mishaps.                                                                *)
(***************************************************************************)
EXTENDS Installation, TLAPS

Processes ==
    [place : Places \cup {System}, version : Versions, environment : {"own", "unset", "inherited"}]

Phases == {"idle", "extract", "document"}

InstallTypeOK ==
    /\ kind \in Kinds
    /\ installed \in [place : Places \cup {System}, version : Versions]
    /\ process \in {None} \cup Processes
    /\ setup \in [pc : Phases, image : Places \cup {None}]
    /\ copy \in {None} \cup Copies
    /\ document \in {None} \cup Commands /\ recorded \in {None} \cup Commands
    /\ failures \in Nat /\ mishaps \in Nat
    /\ hurt \in BOOLEAN /\ astray \subseteq {"document", "recorded"} /\ written \in BOOLEAN

\* A package stays where it is, nothing is copied for it, and its document is vouched
\* for.
Placed ==
    /\ kind = "image" => installed.place \in Places
    /\ kind = "package" => installed.place = System /\ copy = None /\ "document" \notin astray

\* The app that runs is no later than the installed one; as an image it set out from
\* the image it was launched from, and when that is no longer in its place, neither
\* command is vouched for.
Launched ==
    process # None =>
        /\ process.version <= installed.version
        /\ process.environment \in Environments
        /\ kind = "image" => process.place \in Places /\ setup.image = process.place
        /\ kind = "package" => setup.image = None
        /\ kind = "image" /\ installed.place # process.place => astray = {"document", "recorded"}

\* What excuses a command that does not run depends on what it names: only a copy
\* that was touched excuses one for the copy, and only an image that was moved
\* excuses any other.
Excused(command, name) ==
    IF command.target = "copy" THEN Runs(command) \/ hurt ELSE Runs(command) \/ name \in astray

CommandsHold ==
    /\ document # None => Excused(document, "document")
    /\ recorded # None => Excused(recorded, "recorded")

CopyHolds == copy # None => copy.mode = "executable" \/ hurt

\* What the steps of setup::write have achieved so far.
SetupHolds ==
    process # None /\ written /\ ~hurt =>
        /\ setup.pc # "extract" /\ setup.image # None => IsCurrent
        /\ setup.pc = "idle" =>
              /\ document # None
              /\ kind = "image" \/ installed.version = process.version =>
                    document = InvocationFor(setup.image, System)

InstallInv ==
    /\ InstallTypeOK /\ Placed /\ Launched /\ CommandsHold /\ CopyHolds /\ SetupHolds

-----------------------------------------------------------------------------
\* The commands a process gives

\* The image running_from finds is the one the app was launched from, for as long as
\* that is in its place.
LEMMA WhereItRuns ==
    ASSUME InstallTypeOK, Placed, Launched, process # None
    PROVE  /\ RunningFrom \in Places \cup {None}
           /\ RunningFrom # None => RunningFrom = setup.image /\ RunningFrom = installed.place
           /\ kind = "image" /\ RunningFrom = None => astray = {"document", "recorded"}
           /\ kind = "package" => RunningFrom = None
<1>1. process.place \in Places \cup {System} /\ kind \in {"image", "package"}
  BY DEF InstallTypeOK, Processes, Kinds
<1>2. CASE kind = "package"
  <2>1. process.environment \in {"unset", "inherited"}
    BY <1>2 DEF Launched, Environments
  <2>2. RunningFrom = None
    BY <2>1 DEF RunningFrom, ImageAt
  <2>. QED  BY <1>2, <2>2
<1>3. CASE kind = "image"
  <2>1. /\ process.place \in Places /\ setup.image = process.place
        /\ installed.place # process.place => astray = {"document", "recorded"}
        /\ process.environment = "own"
    BY <1>3 DEF Launched, Environments
  <2>2. RunningFrom = IF installed.place = process.place THEN process.place ELSE None
    BY <2>1 DEF RunningFrom, ImageAt
  <2>. QED  BY <1>3, <2>1, <2>2, NoneAssumption
<1>. QED  BY <1>1, <1>2, <1>3

LEMMA VersionsAreOrdered == \A v \in Versions : v \in Int /\ v <= v
BY InstallationAssumption

LEMMA CopiesAreFiles == None \notin Copies
BY NoneAssumption, InstallationAssumption DEF Copies

\* A copy that is current is there, and can be run.
LEMMA CurrentCopyRuns ==
    ASSUME InstallTypeOK, process # None, IsCurrent
    PROVE  copy # None /\ copy.mode = "executable"
<1>1. copy \in [version : Versions, mode : {"executable", "stripped"}]
  BY DEF IsCurrent, InstallTypeOK, Processes
<1>. QED  BY <1>1, NoneAssumption DEF IsCurrent

LEMMA InvocationIsCommand ==
    ASSUME InstallTypeOK, NEW image \in Places \cup {None}, NEW exe \in {System, Replaced}
    PROVE  InvocationFor(image, exe) \in Commands /\ InvocationFor(image, exe) # None
<1>1. InvocationFor(image, exe) \in Commands
  BY DEF InstallTypeOK, InvocationFor, Beside, Command, CopyTarget, Commands
<1>. QED  BY <1>1, NoneAssumption

LEMMA ExeIsNamed ==
    /\ System \in CurrentExe /\ CurrentExe \subseteq {System, Replaced}
    /\ installed.version = process.version => CurrentExe = {System}
BY DEF CurrentExe

\* A package's own command runs, but the name of an executable that was replaced.
LEMMA PackageRuns ==
    ASSUME InstallTypeOK, Placed, kind = "package", NEW exe \in {System, Replaced}
    PROVE  /\ InvocationFor(None, exe).target # "copy"
           /\ \/ Runs(InvocationFor(None, exe))
              \/ exe = Replaced /\ InvocationFor(None, exe) = Command("alias", Replaced)
<1>1. installed.place = System
  BY DEF Placed
<1>2. CASE installed.version \in Bundled
  <2>1. InvocationFor(None, exe) = Command("sibling", System)
    BY <1>2 DEF InvocationFor, Beside
  <2>. QED  BY <1>2, <2>1 DEF Runs, Command
<1>3. CASE installed.version \notin Bundled
  <2>1. InvocationFor(None, exe) = Command("alias", exe)
    BY <1>3 DEF InvocationFor, Beside
  <2>. QED  BY <1>1, <2>1 DEF Runs, Command
<1>. QED  BY <1>2, <1>3

\* A command that is given works, or is excused by what the user did.
LEMMA InvocationWorks ==
    ASSUME InstallTypeOK, Placed, Launched, CopyHolds, process # None,
           NEW image \in {setup.image, RunningFrom}, NEW exe \in {System, Replaced},
           NEW name \in {"document", "recorded"}
    PROVE  LET command == InvocationFor(image, exe)
           IN  IF command.target = "copy" THEN Runs(command) \/ hurt
               ELSE \/ Runs(command)
                    \/ exe = Replaced /\ command = Command("alias", Replaced)
                    \/ kind = "image" /\ RunningFrom = None /\ name \in astray
<1>1. CASE kind = "package"
  <2>1. image = None
    BY <1>1, WhereItRuns DEF Launched
  <2>. QED  BY <1>1, <2>1, PackageRuns
<1>2. CASE kind = "image" /\ image # None
  <2>1. image = setup.image /\ (RunningFrom # None => image = installed.place)
    BY <1>2, WhereItRuns
  <2>2. CASE copy # None
    BY <1>2, <2>2 DEF InvocationFor, CopyTarget, Command, Runs, CopyHolds
  <2>3. CASE copy = None
    <3>1. InvocationFor(image, exe) = Command("alias", image)
      BY <1>2, <2>3 DEF InvocationFor
    <3>. QED  BY <1>2, <2>1, <3>1, WhereItRuns DEF Runs, Command
  <2>. QED  BY <2>2, <2>3
<1>3. CASE kind = "image" /\ image = None
  <2>1. InvocationFor(image, exe) = Command("mount", None)
    BY <1>3 DEF InvocationFor, Beside
  <2>2. RunningFrom = None
    BY <1>3, WhereItRuns, NoneAssumption DEF Launched
  <2>. QED  BY <1>3, <2>1, <2>2, WhereItRuns DEF Command
<1>. QED  BY <1>1, <1>2, <1>3 DEF InstallTypeOK, Kinds

-----------------------------------------------------------------------------
\* The invariant

LEMMA InstallInit == Init => InstallInv
<1>. SUFFICES ASSUME Init PROVE InstallInv
  OBVIOUS
<1>1. InstallTypeOK /\ Placed
  BY DEF Init, InstallTypeOK, Placed, Kinds, Phases
<1>2. Launched /\ CommandsHold /\ CopyHolds /\ SetupHolds
  BY DEF Init, Launched, CommandsHold, CopyHolds, SetupHolds
<1>. QED  BY <1>1, <1>2 DEF InstallInv

LEMMA InstallTypeStep ==
    ASSUME InstallInv, [Next]_vars PROVE InstallTypeOK'
<1>. USE DEF InstallInv, InstallTypeOK
<1>1. ASSUME NEW environment \in Environments, Launch(environment) PROVE InstallTypeOK'
  BY <1>1 DEF Launch, ImageAt, Processes, Phases, Environments, Placed, Kinds
<1>2. CASE Extract
  <2>1. setup' \in [pc : Phases, image : Places \cup {None}]
    BY <1>2 DEF Extract, Phases
  <2>2. copy' \in {None} \cup Copies
    BY <1>2 DEF Extract, Copies
  <2>3. hurt' \in BOOLEAN
    BY <1>2, Zenon DEF Extract
  <2>4. failures' \in Nat
    BY <1>2 DEF Extract, Fails
  <2>5. written' \in BOOLEAN
    BY <1>2, Zenon DEF Extract, Fails
  <2>. QED  BY <1>2, <2>1, <2>2, <2>3, <2>4, <2>5 DEF Extract
<1>3. CASE WriteDocument
  <2>1. setup' \in [pc : Phases, image : Places \cup {None}]
    BY <1>3 DEF WriteDocument, Phases
  <2>2. document' \in {None} \cup Commands
    BY <1>3, InvocationIsCommand DEF WriteDocument
  <2>3. failures' \in Nat /\ astray' \subseteq {"document", "recorded"}
    BY <1>3 DEF WriteDocument, Fails
  <2>4. written' \in BOOLEAN
    BY <1>3, Zenon DEF WriteDocument, Fails
  <2>. QED  BY <1>3, <2>1, <2>2, <2>3, <2>4 DEF WriteDocument
<1>4. CASE Quit
  BY <1>4 DEF Quit, Phases
<1>5. CASE RecordDocument
  BY <1>5 DEF RecordDocument
<1>6. CASE CopyCommand
  <2>1. PICK exe \in {System, Replaced} : recorded' = InvocationFor(RunningFrom, exe)
    BY <1>6, ExeIsNamed DEF CopyCommand
  <2>2. recorded' \in Commands
    BY <1>6, <2>1, InvocationIsCommand, WhereItRuns DEF CopyCommand
  <2>3. astray' \subseteq {"document", "recorded"}
    BY <1>6 DEF CopyCommand
  <2>. QED  BY <1>6, <2>2, <2>3 DEF CopyCommand
<1>7. ASSUME NEW version \in Versions, Upgrade(version) PROVE InstallTypeOK'
  BY <1>7 DEF Upgrade
<1>8. ASSUME NEW place \in Places, Move(place) PROVE InstallTypeOK'
  BY <1>8 DEF Move, Mishap
<1>9. ASSUME NEW left \in {None} \cup Copies, Touch(left) PROVE InstallTypeOK'
  BY <1>9 DEF Touch, Mishap
<1>10. CASE UNCHANGED vars
  BY <1>10 DEF vars
<1>. QED  BY <1>1, <1>2, <1>3, <1>4, <1>5, <1>6, <1>7, <1>8, <1>9, <1>10 DEF Next

LEMMA PlacedStep ==
    ASSUME InstallInv, [Next]_vars PROVE Placed'
<1>. USE DEF InstallInv, InstallTypeOK, Placed
<1>1. ASSUME NEW environment \in Environments, Launch(environment) PROVE Placed'
  BY <1>1 DEF Launch
<1>2. CASE Extract
  <2>1. kind' = kind /\ installed' = installed /\ astray' = astray
    BY <1>2 DEF Extract
  <2>2. kind = "package" => copy' = copy
    BY <1>2 DEF Extract, Launched
  <2>. QED  BY <2>1, <2>2
<1>3. CASE WriteDocument \/ Quit \/ RecordDocument \/ CopyCommand \/ UNCHANGED vars
  <2>1. UNCHANGED <<kind, installed, copy>>
    BY <1>3 DEF WriteDocument, Quit, RecordDocument, CopyCommand, vars
  <2>2. "document" \in astray' => "document" \in astray
    BY <1>3 DEF WriteDocument, Quit, RecordDocument, CopyCommand, vars
  <2>. QED  BY <2>1, <2>2
<1>4. ASSUME NEW version \in Versions, Upgrade(version) PROVE Placed'
  BY <1>4 DEF Upgrade
<1>5. ASSUME NEW place \in Places, Move(place) PROVE Placed'
  BY <1>5 DEF Move, Kinds
<1>6. ASSUME NEW left \in {None} \cup Copies, Touch(left) PROVE Placed'
  BY <1>6 DEF Touch, Kinds
<1>. QED  BY <1>1, <1>2, <1>3, <1>4, <1>5, <1>6 DEF Next

LEMMA LaunchedStep ==
    ASSUME InstallInv, [Next]_vars PROVE Launched'
<1>. USE DEF InstallInv, InstallTypeOK
<1>1. ASSUME NEW environment \in Environments, Launch(environment) PROVE Launched'
  <2>. DEFINE p == [place |-> installed.place, version |-> installed.version,
                    environment |-> environment]
  <2>1. process' = p /\ setup'.image = ImageAt(p) /\ UNCHANGED <<kind, installed, astray>>
    BY <1>1 DEF Launch
  <2>2. kind = "image" => environment = "own" /\ ImageAt(p) = installed.place
    BY DEF Environments, ImageAt
  <2>3. kind = "package" => environment # "own" /\ ImageAt(p) = None
    BY DEF Environments, ImageAt
  <2>4. installed.version \in Versions
    OBVIOUS
  <2>5. installed.version <= installed.version
    BY <2>4, VersionsAreOrdered
  <2>. QED  BY <2>1, <2>2, <2>3, <2>5 DEF Launched, Environments, Placed
<1>2. CASE Extract \/ RecordDocument \/ CopyCommand \/ WriteDocument
  <2>1. /\ UNCHANGED <<kind, installed, process>> /\ setup'.image = setup.image
        /\ process # None
        \/ /\ UNCHANGED <<kind, installed, process, setup>>
    BY <1>2 DEF Extract, RecordDocument, CopyCommand, WriteDocument
  <2>2. kind = "image" /\ process # None /\ installed.place # process.place => astray' = astray
    <3>1. kind = "image" /\ process # None /\ installed.place # process.place
          => RunningFrom = None /\ astray = {"document", "recorded"}
      BY DEF RunningFrom, ImageAt, Launched
    <3>. QED  BY <1>2, <3>1 DEF Extract, RecordDocument, CopyCommand, WriteDocument
  <2>. QED  BY <2>1, <2>2 DEF Launched, Environments
<1>3. CASE Quit
  BY <1>3 DEF Quit, Launched
<1>4. ASSUME NEW version \in Versions, Upgrade(version) PROVE Launched'
  <2>1. UNCHANGED <<kind, process, setup, astray>> /\ installed'.place = installed.place
    BY <1>4 DEF Upgrade
  <2>2. process # None => process.version <= installed'.version
    <3>1. installed.version < version /\ installed'.version = version
      BY <1>4 DEF Upgrade
    <3>2. installed.version \in Int /\ version \in Int
          /\ (process # None => process.version \in Int)
      BY InstallationAssumption DEF Processes
    <3>. QED  BY <3>1, <3>2 DEF Launched
  <2>. QED  BY <2>1, <2>2 DEF Launched, Environments
<1>5. ASSUME NEW place \in Places, Move(place) PROVE Launched'
  <2>1. /\ kind = "image" /\ UNCHANGED <<kind, process, setup>>
        /\ installed'.version = installed.version /\ astray' = {"document", "recorded"}
    BY <1>5 DEF Move
  <2>. QED  BY <2>1 DEF Launched, Environments
<1>6. ASSUME NEW left \in {None} \cup Copies, Touch(left) PROVE Launched'
  BY <1>6 DEF Touch, Launched, Environments
<1>7. CASE UNCHANGED vars
  BY <1>7 DEF vars, Launched, Environments
<1>. QED  BY <1>1, <1>2, <1>3, <1>4, <1>5, <1>6, <1>7 DEF Next

\* What is excused stays excused while nothing it rests on gets worse.
LEMMA StaysExcused ==
    ASSUME NEW name \in {"document", "recorded"}, name \in astray => name \in astray',
           installed'.place = installed.place \/ name \in astray',
           installed.version \in Bundled => installed'.version \in Bundled,
           \/ copy' # None /\ copy'.mode = "executable"
           \/ hurt'
           \/ copy' = copy /\ (hurt => hurt')
    PROVE  \A command \in Commands : Excused(command, name) => Excused(command, name)'
<1>. SUFFICES ASSUME NEW command \in Commands, Excused(command, name)
              PROVE  Excused(command, name)'
  OBVIOUS
<1>1. CASE command.target = "copy"
  BY <1>1 DEF Excused, Runs
<1>2. CASE command.target \in {"alias", "sibling"}
  BY <1>2 DEF Excused, Runs
<1>3. CASE command.target = "mount"
  BY <1>3 DEF Excused, Runs
<1>. QED  BY <1>1, <1>2, <1>3 DEF Commands

\* What a step must leave alone for the command of that name to go on working.
Undisturbed(name) ==
    /\ name \in astray => name \in astray'
    /\ installed'.place = installed.place \/ name \in astray'
    /\ installed.version \in Bundled => installed'.version \in Bundled
    /\ \/ copy' # None /\ copy'.mode = "executable"
       \/ hurt'
       \/ copy' = copy /\ (hurt => hurt')

LEMMA DocumentStays ==
    ASSUME InstallTypeOK, CommandsHold, Undisturbed("document"), document' = document
    PROVE  document' # None => Excused(document, "document")'
<1>. SUFFICES ASSUME document' # None PROVE Excused(document, "document")'
  OBVIOUS
<1>1. document \in Commands /\ Excused(document, "document")
  BY DEF InstallTypeOK, CommandsHold
<1>. QED  BY <1>1, StaysExcused DEF Excused, Runs, Undisturbed

LEMMA RecordedStays ==
    ASSUME InstallTypeOK, CommandsHold, Undisturbed("recorded"), recorded' = recorded
    PROVE  recorded' # None => Excused(recorded, "recorded")'
<1>. SUFFICES ASSUME recorded' # None PROVE Excused(recorded, "recorded")'
  OBVIOUS
<1>1. recorded \in Commands /\ Excused(recorded, "recorded")
  BY DEF InstallTypeOK, CommandsHold
<1>. QED  BY <1>1, StaysExcused DEF Excused, Runs, Undisturbed

LEMMA CommandsStep ==
    ASSUME InstallInv, [Next]_vars PROVE CommandsHold'
<1>. USE DEF InstallInv
<1>1. CASE (\E environment \in Environments : Launch(environment)) \/ Quit \/ UNCHANGED vars
  <2>1. UNCHANGED <<installed, copy, document, recorded, hurt, astray>>
    BY <1>1 DEF Launch, Quit, vars
  <2>. QED  BY <2>1 DEF CommandsHold, Excused, Runs
<1>2. CASE Extract
  <2>1. UNCHANGED <<installed, document, recorded, astray>>
    BY <1>2 DEF Extract
  <2>2. \/ copy' # None /\ copy'.mode = "executable"
        \/ copy' = copy /\ (hurt => hurt')
    <3>1. CASE IsCurrent
      BY <1>2, <3>1, CurrentCopyRuns DEF Extract
    <3>2. CASE copy' = [version |-> process.version, mode |-> "executable"]
               /\ process.version \in Bundled
      BY <3>2, CopiesAreFiles DEF Copies
    <3>3. CASE ~IsCurrent /\ copy' = copy
      BY <1>2, <3>3 DEF Extract, IsCurrent, Fails
    <3>. QED  BY <1>2, <3>1, <3>2, <3>3 DEF Extract
  <2>3. Undisturbed("document") /\ Undisturbed("recorded")
    BY <2>1, <2>2 DEF Undisturbed
  <2>. QED  BY <2>1, <2>3, DocumentStays, RecordedStays DEF CommandsHold
<1>3. CASE WriteDocument
  <2>1. UNCHANGED <<installed, recorded, copy, hurt>> /\ process # None
    BY <1>3 DEF WriteDocument
  <2>2. Undisturbed("recorded")
    BY <1>3, <2>1 DEF WriteDocument, Undisturbed
  <2>3. CASE UNCHANGED <<document, astray>>
    BY <2>1, <2>2, <2>3, DocumentStays, RecordedStays DEF CommandsHold, Undisturbed
  <2>4. CASE /\ document' = InvocationFor(setup.image, System)
             /\ astray' = IF RunningFrom = None THEN astray ELSE astray \ {"document"}
    <3>0. System # Replaced
      BY DEF System, Replaced
    <3>1. Excused(document, "document")'
      BY <2>1, <2>4, <3>0, InvocationWorks DEF Excused, Runs
    <3>. QED  BY <2>1, <2>2, <3>1, RecordedStays DEF CommandsHold
  <2>. QED  BY <1>3, <2>3, <2>4 DEF WriteDocument
<1>4. CASE RecordDocument
  <2>1. UNCHANGED <<installed, document, copy, hurt>> /\ recorded' = document
        /\ astray' = (IF "document" \in astray THEN astray \cup {"recorded"} ELSE {})
    BY <1>4 DEF RecordDocument
  <2>2. document' # None => Excused(document, "document")'
    BY <2>1, DocumentStays DEF Undisturbed
  <2>3. recorded' # None => Excused(recorded, "recorded")'
    BY <2>1, <2>2 DEF Excused, Runs
  <2>. QED  BY <2>2, <2>3 DEF CommandsHold
<1>5. CASE CopyCommand
  <2>1. /\ UNCHANGED <<installed, document, copy, hurt, kind>> /\ process # None
        /\ astray' = IF recorded' = Command("alias", Replaced) THEN astray \cup {"recorded"}
                     ELSE IF kind = "image" /\ RunningFrom = None THEN astray
                     ELSE astray \ {"recorded"}
    BY <1>5 DEF CopyCommand
  <2>2. PICK exe \in {System, Replaced} : recorded' = InvocationFor(RunningFrom, exe)
    BY <1>5, ExeIsNamed DEF CopyCommand
  <2>3. document' # None => Excused(document, "document")'
    BY <2>1, DocumentStays DEF Undisturbed
  <2>4. Excused(recorded, "recorded")'
    <3>1. LET command == recorded'
          IN  IF command.target = "copy" THEN Runs(command) \/ hurt
              ELSE \/ Runs(command)
                   \/ command = Command("alias", Replaced)
                   \/ kind = "image" /\ RunningFrom = None /\ "recorded" \in astray
      BY <2>1, <2>2, InvocationWorks
    <3>. QED  BY <2>1, <3>1 DEF Excused, Runs
  <2>. QED  BY <2>3, <2>4 DEF CommandsHold
<1>6. ASSUME NEW version \in Versions, Upgrade(version) PROVE CommandsHold'
  <2>1. /\ UNCHANGED <<document, recorded, copy, hurt, astray>>
        /\ installed'.place = installed.place /\ installed'.version = version
        /\ installed.version < version
    BY <1>6 DEF Upgrade, InstallTypeOK
  <2>2. installed.version \in Bundled => version \in Bundled
    <3>1. installed.version \in Versions
      BY DEF InstallTypeOK
    <3>2. installed.version <= version
      BY <2>1, <3>1, VersionsAreOrdered
    <3>. QED  BY <3>1, <3>2, InstallationAssumption
  <2>3. Undisturbed("document") /\ Undisturbed("recorded")
    BY <2>1, <2>2 DEF Undisturbed
  <2>. QED  BY <2>1, <2>3, DocumentStays, RecordedStays DEF CommandsHold
<1>7. ASSUME NEW place \in Places, Move(place) PROVE CommandsHold'
  <2>1. /\ UNCHANGED <<document, recorded, copy, hurt>>
        /\ installed'.version = installed.version /\ astray' = {"document", "recorded"}
    BY <1>7 DEF Move, InstallTypeOK
  <2>2. Undisturbed("document") /\ Undisturbed("recorded")
    BY <2>1 DEF Undisturbed
  <2>. QED  BY <2>1, <2>2, DocumentStays, RecordedStays DEF CommandsHold
<1>8. ASSUME NEW left \in {None} \cup Copies, Touch(left) PROVE CommandsHold'
  <2>1. UNCHANGED <<installed, document, recorded, astray>> /\ hurt' = TRUE
    BY <1>8 DEF Touch
  <2>2. Undisturbed("document") /\ Undisturbed("recorded")
    BY <2>1 DEF Undisturbed
  <2>. QED  BY <2>1, <2>2, DocumentStays, RecordedStays DEF CommandsHold
<1>. QED  BY <1>1, <1>2, <1>3, <1>4, <1>5, <1>6, <1>7, <1>8 DEF Next

LEMMA CopyStep ==
    ASSUME InstallInv, [Next]_vars PROVE CopyHolds'
<1>1. CASE Extract
  <2>1. CASE IsCurrent
    BY <1>1, <2>1, CurrentCopyRuns DEF Extract, InstallInv, CopyHolds
  <2>2. CASE copy' = [version |-> process.version, mode |-> "executable"]
    BY <2>2 DEF CopyHolds
  <2>3. CASE ~IsCurrent /\ copy' = copy /\ hurt' = hurt
    BY <2>3 DEF InstallInv, CopyHolds
  <2>4. CASE setup.image = None /\ copy' = copy /\ hurt' = (hurt /\ setup.image = None)
    BY <2>4 DEF InstallInv, CopyHolds
  <2>. QED  BY <1>1, <2>1, <2>2, <2>3, <2>4 DEF Extract
<1>2. ASSUME NEW left \in {None} \cup Copies, Touch(left) PROVE CopyHolds'
  BY <1>2 DEF Touch, CopyHolds
<1>3. CASE UNCHANGED <<copy, hurt>>
  BY <1>3 DEF InstallInv, CopyHolds
<1>. QED
  BY <1>1, <1>2, <1>3
     DEF Next, Launch, WriteDocument, Quit, RecordDocument, CopyCommand, Upgrade, Move, vars

LEMMA SetupStep ==
    ASSUME InstallInv, [Next]_vars PROVE SetupHolds'
<1>. USE DEF InstallInv
<1>1. ASSUME NEW environment \in Environments, Launch(environment) PROVE SetupHolds'
  BY <1>1 DEF Launch, SetupHolds
<1>2. CASE Extract
  <2>1. /\ process # None /\ setup.pc = "extract" /\ process' = process
        /\ setup'.pc = "document" /\ setup'.image = setup.image
    BY <1>2 DEF Extract, InstallTypeOK
  <2>2. setup.image # None /\ written' => copy' = [version |-> process.version, mode |-> "executable"]
    BY <1>2 DEF Extract, IsCurrent, Fails
  <2>. QED  BY <2>1, <2>2 DEF SetupHolds, IsCurrent
<1>3. CASE WriteDocument
  <2>1. /\ UNCHANGED <<kind, process, copy, hurt>>
        /\ setup.pc = "document" /\ setup'.image = setup.image
        /\ written' => written /\ document' = InvocationFor(setup.image, System)
        /\ installed' = installed
    BY <1>3 DEF WriteDocument, Fails, InstallTypeOK
  <2>2. InvocationFor(setup.image, System) # None
    BY InvocationIsCommand DEF InstallTypeOK
  <2>. QED  BY <2>1, <2>2 DEF SetupHolds, IsCurrent, InvocationFor, Beside
<1>4. CASE Quit
  BY <1>4 DEF Quit, SetupHolds
<1>5. ASSUME NEW left \in {None} \cup Copies, Touch(left) PROVE SetupHolds'
  BY <1>5 DEF Touch, SetupHolds
<1>6. CASE /\ UNCHANGED <<kind, process, setup, copy, document, hurt, written>>
           /\ installed'.version = installed.version
  BY <1>6 DEF SetupHolds, IsCurrent, InvocationFor, Beside
<1>7. ASSUME NEW version \in Versions, Upgrade(version) PROVE SetupHolds'
  <2>1. /\ UNCHANGED <<kind, process, setup, copy, document, hurt, written>>
        /\ installed'.version = version /\ installed.version < version
    BY <1>7 DEF Upgrade, InstallTypeOK
  <2>2. process # None => process.version # installed'.version
    <3>1. installed.version \in Int /\ version \in Int
          /\ (process # None => process.version \in Int)
      BY InstallationAssumption DEF InstallTypeOK, Processes
    <3>. QED  BY <2>1, <3>1 DEF Launched
  <2>3. kind = "image" => setup.image # None \/ process = None
    BY NoneAssumption DEF Launched
  <2>. QED  BY <2>1, <2>2, <2>3 DEF SetupHolds, IsCurrent, InvocationFor, Beside
<1>. QED
  BY <1>1, <1>2, <1>3, <1>4, <1>5, <1>6, <1>7
     DEF Next, RecordDocument, CopyCommand, Move, vars, InstallTypeOK

LEMMA InstallInvariant == Spec => []InstallInv
<1>1. InstallInv /\ [Next]_vars => InstallInv'
  BY InstallTypeStep, PlacedStep, LaunchedStep, CommandsStep, CopyStep, SetupStep DEF InstallInv
<1>. QED  BY InstallInit, <1>1, PTL DEF Spec

-----------------------------------------------------------------------------
\* A command the user has recorded can be run by Claude Code whether or not the app
\* runs, through any launches, upgrades, quits and failing writes, unless the user
\* touched the copy or moved the image (setup.rs, appimage.rs).
THEOREM RecordedCommandWorks == Spec => []RecordedCommandRuns
<1>1. InstallInv => RecordedCommandRuns
  BY DEF InstallInv, CommandsHold, Excused, RecordedCommandRuns
<1>. QED  BY InstallInvariant, <1>1, PTL

\* A launch that could write everything has left the bridge of its own release, and a
\* document that holds the command the app would name now and that runs
\* (setup::write, current_command).
THEOREM LaunchPutsRight == Spec => []LaunchSeesToIt
<1>1. InstallInv => LaunchSeesToIt
  <2>. SUFFICES ASSUME InstallInv, process # None, setup.pc = "idle", written, ~hurt,
                       RunningFrom = setup.image
                PROVE  /\ Runs(document)
                       /\ kind = "image" \/ installed.version = process.version =>
                             \A exe \in CurrentExe : document = InvocationFor(RunningFrom, exe)
                       /\ setup.image # None =>
                             copy = [version |-> process.version, mode |-> "executable"]
    BY DEF LaunchSeesToIt
  <2>. USE DEF InstallInv
  <2>1. /\ document # None
        /\ kind = "image" \/ installed.version = process.version =>
              document = InvocationFor(RunningFrom, System)
    BY DEF SetupHolds
  <2>2. setup.image # None => copy = [version |-> process.version, mode |-> "executable"]
    BY DEF SetupHolds, IsCurrent
  <2>3. RunningFrom # None <=> kind = "image"
    BY WhereItRuns, NoneAssumption DEF Launched, InstallTypeOK, Kinds
  <2>4. Runs(document)
    <3>1. CASE kind = "image"
      <4>1. System # Replaced
        BY DEF System, Replaced
      <4>. QED  BY <2>1, <2>3, <3>1, <4>1, InvocationWorks
    <3>2. CASE kind = "package"
      BY <2>1, <3>2 DEF Placed, CommandsHold, Excused
    <3>. QED  BY <3>1, <3>2 DEF InstallTypeOK, Kinds
  <2>5. ASSUME kind = "image" \/ installed.version = process.version, NEW exe \in CurrentExe
        PROVE  document = InvocationFor(RunningFrom, exe)
    <3>1. CASE kind = "image"
      BY <2>1, <2>3, <3>1 DEF InvocationFor
    <3>2. CASE installed.version = process.version
      BY <2>1, <3>2, ExeIsNamed
    <3>. QED  BY <2>5, <3>1, <3>2
  <2>. QED  BY <2>2, <2>4, <2>5
<1>. QED  BY InstallInvariant, <1>1, PTL
=============================================================================
