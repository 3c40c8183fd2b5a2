----------------------------- MODULE Installation -----------------------------
(***************************************************************************)
(* Getting the bridge into the user's status line                          *)
(* (crates/meter-files/src/statusline/setup.rs, appimage.rs): what each    *)
(* launch writes down for Claude Code's /statusline to find, the copy of   *)
(* the bridge it keeps for an AppImage, and how long a command the user    *)
(* has recorded from there keeps working.                                  *)
(*                                                                         *)
(* A command is what it names: the bridge beside a packaged binary, the    *)
(* durable copy, the program itself with a subcommand, or something inside *)
(* the directory an AppImage is mounted at while it runs.                  *)
(***************************************************************************)
EXTENDS Integers

CONSTANTS
    None,
    Places,         \* where the user may keep the AppImage
    Versions,       \* the releases, in order
    Bundled,        \* those that come with the standalone bridge
    MaxFailures,    \* bound on the failing writes of a behaviour
    MaxMishaps      \* bound on what the user does to the files behind the app's back

ASSUME InstallationAssumption ==
    /\ Versions \subseteq Nat /\ Bundled \subseteq Versions
    /\ \A v \in Bundled, w \in Versions : v <= w => w \in Bundled
    /\ MaxFailures \in Nat /\ MaxMishaps \in Nat

VARIABLES
    kind,       \* how the app is installed: as an AppImage or from a package
    installed,  \* where it is, and its release
    process,    \* the running app: where from, which release, in whose environment
    setup,      \* its progress through setup::write, and the image running_from found
    copy,       \* ~/.claudemeter/bin: None, or the release of the bridge and its mode
    document,   \* statusline-command.txt: None, or the command in it
    recorded,   \* the command in ~/.claude/settings.json
    failures,   \* how many writes failed
    mishaps,    \* how many mishaps there were
    hurt,       \* history: the copy was touched since a launch last saw to it
    astray,     \* history: which of the commands date from before the image was moved,
                \* or name the executable an upgrade has taken the place of
    written     \* history: this launch has extracted and written all it had to

vars == <<kind, installed, process, setup, copy, document, recorded, failures, mishaps,
          hurt, astray, written>>

Kinds == {"image", "package"}
System == "/usr/bin"
Replaced == "/usr/bin (deleted)"

\* What $APPDIR and $APPIMAGE say of a process: nothing, its own mount and image, or
\* those of an ancestor that is an AppImage (an editor's terminal, say).
Environments == IF kind = "image" THEN {"own"} ELSE {"unset", "inherited"}
Elsewhere == "another program's image"

Command(target, place) == [target |-> target, place |-> place]
CopyTarget == Command("copy", None)

Commands ==
    [target : {"copy", "alias", "sibling", "mount"}, place : Places \cup {System, Replaced, None}]

Copies == [version : Bundled, mode : {"executable", "stripped"}]

\* None is nothing the app could find: no place, no file of any release, no command.
ASSUME NoneAssumption ==
    /\ None \notin Places \cup Commands
    /\ None \notin [version : Versions, mode : {"executable", "stripped"}]

-----------------------------------------------------------------------------

\* Mutant of ImageAt: $APPIMAGE alone is believed, wherever the executable lies.
MutAnyImage(p) ==
    CASE p.environment = "own" /\ installed.place = p.place -> p.place
      [] p.environment = "inherited" -> Elsewhere
      [] OTHER -> None

\* image_at: the variables are the process's own when the executable lies in the
\* mount they name, and the image must still be where they say.
ImageAt(p) ==
    IF p.environment = "own" /\ installed.place = p.place THEN p.place ELSE None

RunningFrom == ImageAt(process)

\* current_exe: Linux names an executable that was replaced while it runs as deleted,
\* macOS as it was started.
CurrentExe == {System} \cup {exe \in {Replaced} : installed.version # process.version}

\* What a process can name without an image: the bridge beside its executable, if one
\* is on the disk now, else the executable; for an AppImage both are in the mount.
Beside(exe) ==
    IF kind = "image" THEN Command("mount", None)
    ELSE IF installed.version \in Bundled THEN Command("sibling", System)
    ELSE Command("alias", exe)

\* invocation_for: inside an image both candidates are swapped, for the copy if it
\* is a file, and for the image itself.
InvocationFor(image, exe) ==
    IF image = None THEN Beside(exe)
    ELSE IF copy # None THEN CopyTarget
    ELSE Command("alias", image)

\* Mutant of IsCurrent: the same bytes, whatever the mode.
MutSameBytes == \E c \in Copies : copy = c /\ c.version = process.version

\* is_current: the same bytes, and the mode the copy was given.
IsCurrent == copy = [version |-> process.version, mode |-> "executable"]

-----------------------------------------------------------------------------

Init ==
    /\ kind \in Kinds
    /\ installed \in [place : IF kind = "image" THEN Places ELSE {System}, version : Versions]
    /\ process = None /\ setup = [pc |-> "idle", image |-> None]
    /\ copy = None /\ document = None /\ recorded = None
    /\ failures = 0 /\ mishaps = 0 /\ hurt = FALSE /\ astray = {} /\ written = FALSE

\* setup::write, called by every launch, begins with running_from.
Launch(environment) ==
    /\ process = None
    /\ \E p \in {[place |-> installed.place, version |-> installed.version,
                  environment |-> environment]} :
          process' = p /\ setup' = [pc |-> "extract", image |-> ImageAt(p)]
    /\ written' = TRUE
    /\ UNCHANGED <<kind, installed, copy, document, recorded, failures, mishaps, hurt, astray>>

Fails ==
    /\ failures < MaxFailures /\ failures' = failures + 1
    /\ written' = FALSE

\* document_for, the first half: refresh the copy, when running from an image.  A
\* release that has no bridge leaves nothing to copy.
Extract ==
    /\ process # None /\ setup.pc = "extract"
    /\ setup' = [setup EXCEPT !.pc = "document"]
    /\ \/ (setup.image = None \/ IsCurrent)
             /\ hurt' = (hurt /\ setup.image = None)
             /\ UNCHANGED <<copy, failures, written>>
       \/ setup.image # None /\ ~IsCurrent /\ process.version \in Bundled
             /\ copy' = [version |-> process.version, mode |-> "executable"]
             /\ hurt' = FALSE
             /\ UNCHANGED <<failures, written>>
       \/ setup.image # None /\ ~IsCurrent /\ process.version \in Bundled
             /\ Fails /\ UNCHANGED <<copy, hurt>>
       \/ setup.image # None /\ process.version \notin Bundled /\ ~IsCurrent
             /\ written' = FALSE /\ UNCHANGED <<copy, failures, hurt>>
    /\ UNCHANGED <<kind, installed, process, document, recorded, mishaps, astray>>

\* The second half: probe for the bridge, and write the document; the executable was
\* asked for when the launch began.
WriteDocument ==
    /\ process # None /\ setup.pc = "document"
    /\ setup' = [setup EXCEPT !.pc = "idle"]
    /\ \/ /\ document' = InvocationFor(setup.image, System)
          /\ astray' = IF RunningFrom = None THEN astray ELSE astray \ {"document"}
          /\ UNCHANGED <<failures, written>>
       \/ Fails /\ UNCHANGED <<document, astray>>
    /\ UNCHANGED <<kind, installed, process, copy, recorded, mishaps, hurt>>

\* The app ends, at any point; the image is unmounted.
Quit ==
    /\ process # None
    /\ process' = None
    /\ setup' = [pc |-> "idle", image |-> None]
    /\ written' = FALSE
    /\ UNCHANGED <<kind, installed, copy, document, recorded, failures, mishaps, hurt, astray>>

-----------------------------------------------------------------------------
\* The user

\* /statusline, pointed at the document; the app need not run.
RecordDocument ==
    /\ document # None
    /\ recorded' = document
    /\ astray' = IF "document" \in astray THEN astray \cup {"recorded"} ELSE {}
    /\ UNCHANGED <<kind, installed, process, setup, copy, document, failures, mishaps,
                   hurt, written>>

\* Settings' "Copy command": current_command, which extracts nothing.
CopyCommand ==
    /\ process # None /\ setup.pc = "idle"
    /\ \E exe \in CurrentExe : recorded' = InvocationFor(RunningFrom, exe)
    /\ astray' = IF recorded' = Command("alias", Replaced) THEN astray \cup {"recorded"}
                 ELSE IF kind = "image" /\ RunningFrom = None THEN astray
                 ELSE astray \ {"recorded"}
    /\ UNCHANGED <<kind, installed, process, setup, copy, document, failures, mishaps,
                   hurt, written>>

\* A later release takes the place of the installed one, whether or not it runs.
Upgrade(version) ==
    /\ installed.version < version
    /\ installed' = [installed EXCEPT !.version = version]
    /\ UNCHANGED <<kind, process, setup, copy, document, recorded, failures, mishaps,
                   hurt, astray, written>>

Mishap == mishaps < MaxMishaps /\ mishaps' = mishaps + 1

\* The AppImage is moved; a running one stays mounted.
Move(place) ==
    /\ kind = "image" /\ place # installed.place
    /\ Mishap
    /\ installed' = [installed EXCEPT !.place = place]
    /\ astray' = {"document", "recorded"}
    /\ UNCHANGED <<kind, process, setup, copy, document, recorded, failures, hurt, written>>

\* The copy is deleted, loses its mode, or is restored from a backup.
Touch(left) ==
    /\ copy # None /\ copy # left
    /\ Mishap
    /\ copy' = left
    /\ hurt' = TRUE
    /\ UNCHANGED <<kind, installed, process, setup, document, recorded, failures, astray,
                   written>>

Next ==
    \/ \E environment \in Environments : Launch(environment)
    \/ Extract \/ WriteDocument \/ Quit
    \/ RecordDocument \/ CopyCommand
    \/ \E version \in Versions : Upgrade(version)
    \/ \E place \in Places : Move(place)
    \/ \E left \in {None} \cup Copies : Touch(left)

Spec == Init /\ [][Next]_vars

-----------------------------------------------------------------------------

\* Whether Claude Code can run a command whether or not the app runs.
Runs(command) ==
    CASE command.target = "copy" -> copy # None /\ copy.mode = "executable"
      [] command.target = "alias" -> installed.place = command.place
      [] command.target = "sibling" -> installed.version \in Bundled
      [] command.target = "mount" -> FALSE

\* A recorded command goes on working when the app quits, is launched again or is
\* upgraded, and when a launch could not write ("a status line that works until the
\* app quits and never again" is what appimage.rs is there to prevent).  What may
\* break it is the user's, and appimage::note has the remedy: the copy was touched
\* and no launch has put it right since, or the image was moved and the command was
\* not taken from the image in its new place.  One command never worked: the one
\* copied from an app without a bridge whose executable was replaced as it ran.
RecordedCommandRuns ==
    recorded # None => Runs(recorded) \/ hurt \/ "recorded" \in astray

\* A launch that could write everything leaves the bridge of the release it is, and
\* puts right a copy that lost its mode, fell behind or went missing; and what it
\* wrote down can be run, until the user touches the copy or moves the image.  It is
\* also what the "Copy command" button would give ("cannot answer it differently",
\* setup.rs), but both probe the disk: once a package that runs has been upgraded,
\* the button may name a bridge that was not there when the launch wrote.
LaunchSeesToIt ==
    process # None /\ setup.pc = "idle" /\ written /\ ~hurt /\ RunningFrom = setup.image =>
        /\ Runs(document)
        /\ kind = "image" \/ installed.version = process.version =>
              \A exe \in CurrentExe : document = InvocationFor(RunningFrom, exe)
        /\ setup.image # None => copy = [version |-> process.version, mode |-> "executable"]
=============================================================================
