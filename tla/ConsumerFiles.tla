------------------------------ MODULE ConsumerFiles ------------------------------
(***************************************************************************)
(* The helper at work in a repository's worktree, --prepare-worktree of    *)
(* scripts/bootstrap-codex-review-gate.mjs: it installs CODEOWNERS, the    *)
(* temporary legacy bridge and the two v2 workflows, and later removes the *)
(* bridge again, by way of a quarantine directory; in the gate's own       *)
(* source repository it removes the bridge and touches nothing else.       *)
(*                                                                         *)
(* The helper is a sequence of file-system calls, and prog is what is left *)
(* of it.  It holds no lock: between any two calls an editor or git may    *)
(* change any file or the origin, a call may fail, and the helper may be   *)
(* killed, after which the user runs it again.                             *)
(*                                                                         *)
(* Simplifications.  Files have the content the plan gives them, an old or *)
(* a foreign one.  The identity and the content of a file are compared at  *)
(* one time; closing a file does not fail.  Unrelated workflows and the    *)
(* replacement of directories are left out, and so are dry runs and the    *)
(* installation without a bridge, which is that with a bridge less one     *)
(* file.                                                                   *)
(***************************************************************************)
EXTENDS Naturals, Sequences

CONSTANTS
    MaxMishaps,   \* bound: changes by others, failing calls and kills
    MaxFiles,     \* bound: the numbers (inodes) files can have
    Outdated      \* bound: the sets of targets that may need an update at first

ASSUME BoundsAssumption ==
    /\ MaxMishaps \in Nat /\ MaxFiles \in Nat /\ MaxFiles > 3
    /\ Outdated \subseteq SUBSET {"codeowners", "verifier", "controller"}

VARIABLES
    \* The worktree.
    source,       \* is it that of the gate's own repository
    files,        \* the file each name leads to
    litter,       \* is there a file an earlier invocation left behind
    origin,       \* do the origin and the closure agree with the receipt
    mishaps,      \* changes by others, failing calls and kills left
    \* The helper.
    mode,
    prog,         \* the calls it has still to make
    seen,         \* the content each target had when it was read
    listed,       \* the content it had in the security inventory
    admitted,     \* the file admitted for removal, held open
    done,         \* the targets whose change has returned
    note,         \* what it says of an error that happens now
    report,
    \* History.
    wrote,        \* the targets it has changed
    moved,        \* the names others have changed since it was started
    recent,       \* those they have changed since its last look or change
    late          \* those they have changed since its last write, or its plan

worktree == <<source, files, litter, origin>>
memory == <<seen, listed, admitted, done, note>>
past == <<wrote, moved, recent, late>>
filesVars == <<worktree, mishaps, mode, prog, memory, report, past>>

-----------------------------------------------------------------------------

Targets == {"codeowners", "bridge", "verifier", "controller"}
FileNames == Targets \cup {"temp", "quarantine"}
Nothing == [id |-> 0, content |-> "nothing"]
Content(n) == files[n].content
WithFile(n, file) == [files EXCEPT ![n] = file]

\* Only files that lead to the bridge are told apart, by their numbers; those
\* still linked or held open keep them.
Held == IF prog = <<>> THEN {} ELSE {admitted}
NewFile(n, content) ==
    [id |-> IF n \in {"bridge", "quarantine"}
              THEN CHOOSE i \in 1..MaxFiles : i \notin {files[m].id : m \in FileNames} \cup Held
              ELSE 0,
     content |-> content]

Managed == IF source THEN {"bridge"} ELSE Targets

\* installedLabels: the changes an error names as completed.  The removal in the
\* source repository keeps no such list, and has no handler to name them.
Counted == IF source THEN {} ELSE done

\* The content a target is to have in the end.
Final(t) == IF t = "bridge" /\ mode # "bridge" THEN "nothing" ELSE "canonical"

-----------------------------------------------------------------------------
(* The calls of the helper, in their order.                                *)

Call(do, on) == <<[do |-> do, on |-> on]>>

Each(do) ==
    IF source THEN Call(do, "bridge")
    ELSE Call(do, "verifier") \o Call(do, "controller") \o Call(do, "bridge") \o Call(do, "codeowners")

\* The authorization callbacks: the receipt, in the source repository also
\* what git says of the worktree, and before the first change the inventory.
Authorization(diff) ==
    IF source THEN Call("authorize", "origin") \o Call("diff", diff)
    ELSE IF mode = "remove" THEN Call("authorize", "origin") ELSE <<>>

Boundary(first, diff) ==
    (IF first /\ ~source THEN Each("unchanged") ELSE <<>>) \o Authorization(diff)

\* installPreparedConsumerFile.
Installation(t, first) ==
    Call("compare", t) \o Call("write", t) \o Boundary(first, "clean")
    \o Call("compare", t) \o Call("install", t) \o Call("completed", t)

\* A mutant: no check between the authorization and the unlink.
RemovalWithoutLastCheck(first) ==
    Call("admit", "bridge") \o Call("check", "bridge") \o Boundary(first, "clean")
    \o Call("check", "bridge") \o Call("mkdir", "quarantine") \o Call("check", "bridge")
    \o Authorization("clean") \o Call("check", "bridge")
    \o Authorization("clean") \o Call("check", "bridge")
    \o Call("rename", "quarantine") \o Call("check", "quarantine")
    \o Call("verified", "quarantine") \o Call("check", "quarantine")
    \o Authorization("quarantined")
    \o Call("unlink", "quarantine") \o Call("rmdir", "quarantine") \o Call("completed", "bridge")

\* removePreparedConsumerFile.
Removal(first) ==
    Call("admit", "bridge") \o Call("check", "bridge") \o Boundary(first, "clean")
    \o Call("check", "bridge") \o Call("mkdir", "quarantine") \o Call("check", "bridge")
    \o Authorization("clean") \o Call("check", "bridge")
    \o Authorization("clean") \o Call("check", "bridge")
    \o Call("rename", "quarantine") \o Call("check", "quarantine")
    \o Call("verified", "quarantine") \o Call("check", "quarantine")
    \o Authorization("quarantined") \o Call("check", "quarantine")
    \o Call("unlink", "quarantine") \o Call("rmdir", "quarantine") \o Call("completed", "bridge")

\* restoreQuarantinedConsumerFile.
Restoration ==
    Call("check", "quarantine") \o Call("link", "bridge")
    \o Call("check", "bridge") \o Call("check", "quarantine")
    \o Call("unlink", "quarantine") \o Call("check", "bridge")
    \o Call("rmdir", "quarantine") \o Call("check", "bridge") \o Call("restored", "bridge")

\* A mutant: the bridge changes last in either mode.
ChangeOrderOfRemoval == <<"codeowners", "verifier", "controller", "bridge">>

\* The order in which the targets change.
ChangeOrder ==
    IF mode = "bridge" THEN <<"codeowners", "bridge", "verifier", "controller">>
    ELSE <<"codeowners", "verifier", "controller", "bridge">>

IsDue(t) == t \in Managed /\ seen[t] # Final(t)

Change(t, first) == IF Final(t) = "nothing" THEN Removal(first) ELSE Installation(t, first)

\* plannedChanges: what is due in the i-th place of the order.
PlannedAt(i) ==
    LET t == ChangeOrder[i] IN
    IF IsDue(t) THEN Change(t, \A j \in 1..(i - 1) : ~IsDue(ChangeOrder[j])) ELSE <<>>

PlannedChanges == PlannedAt(1) \o PlannedAt(2) \o PlannedAt(3) \o PlannedAt(4)

\* A mutant: CODEOWNERS is not read back.
ReadbacksOfWorkflows ==
    LET workflows == Call("final", "verifier") \o Call("final", "controller") \o Call("final", "bridge") IN
    IF source THEN Each("final") \o Call("diff", "removed")
    ELSE workflows \o workflows \o workflows \o Authorization("removed")

\* The readbacks at the end.
Readbacks ==
    IF source THEN Each("final") \o Call("diff", "removed")
    ELSE Each("final") \o Each("final") \o Each("final") \o Authorization("removed")

Preparation ==
    IF source THEN Authorization("any") \o Each("see") \o Authorization("any") \o Call("plan", "all")
    ELSE Each("see") \o Each("list") \o Authorization("any") \o Call("plan", "all")

PlanCalls ==
    IF \E t \in Targets : IsDue(t) THEN PlannedChanges \o Readbacks \o Call("end", "applied")
    ELSE (IF source THEN <<>> ELSE Each("unchanged"))
         \o Authorization("removed") \o Call("end", "no change")

-----------------------------------------------------------------------------
(* The helper.                                                             *)

FilesInit ==
    /\ source \in BOOLEAN
    /\ \E old \in Outdated \cup {{}}, bridge \in BOOLEAN :
          /\ IF source THEN old = {} /\ bridge ELSE old \in Outdated
          /\ files = [n \in FileNames |->
                CASE n = "bridge" /\ bridge -> [id |-> 1, content |-> "canonical"]
                  [] n \in {"temp", "quarantine"} \/ (n = "bridge" /\ ~bridge) -> Nothing
                  [] OTHER -> [id |-> 0, content |-> IF n \in old THEN "old" ELSE "canonical"]]
    /\ litter = FALSE /\ origin = TRUE /\ mishaps = MaxMishaps
    /\ mode = "none" /\ prog = <<>> /\ report = "none"
    /\ seen = [t \in Targets |-> "nothing"] /\ listed = seen
    /\ admitted = 0 /\ done = {} /\ note = "none"
    /\ wrote = {} /\ moved = {} /\ recent = {} /\ late = {}

\* The user starts the helper, and starts it again after a failure.
Invoke(m) ==
    /\ prog = <<>>
    /\ source <=> m = "source"
    /\ mode' = m
    /\ litter' = (litter \/ files["temp"] # Nothing \/ files["quarantine"] # Nothing)
    /\ files' = [n \in FileNames |-> IF n \in Targets THEN files[n] ELSE Nothing]
    /\ prog' = Call("start", "all")
    /\ seen' = [t \in Targets |-> "nothing"] /\ listed' = seen'
    /\ admitted' = 0 /\ done' = {} /\ note' = "none" /\ report' = "none"
    /\ wrote' = {} /\ moved' = {} /\ recent' = {} /\ late' = {}
    /\ UNCHANGED <<source, origin, mishaps>>

Doing(do) == prog # <<>> /\ Head(prog).do = do
On == Head(prog).on
GoOn == prog' = Tail(prog) /\ UNCHANGED <<worktree, mishaps, mode, report>>

\* An error after the quarantine, met in a callback, has the file restored.
Throw ==
    /\ UNCHANGED <<worktree, mode, seen, listed, admitted, done, past>>
    /\ IF note = "quarantined" /\ Head(prog).do \in {"authorize", "diff"}
         THEN prog' = Restoration /\ note' = "not restored" /\ UNCHANGED report
         ELSE prog' = <<>> /\ report' = "error" /\ UNCHANGED note

Prepare ==
    /\ Doing("start")
    /\ prog' = Preparation
    /\ UNCHANGED <<worktree, mishaps, mode, report, memory, past>>

Looked == recent' = {} /\ UNCHANGED <<wrote, moved, late>>

\* Only the canonical bridge may be removed.
See ==
    /\ Doing("see")
    /\ IF mode # "bridge" /\ On = "bridge" /\ Content(On) \notin {"nothing", "canonical"}
         THEN Throw /\ UNCHANGED mishaps
         ELSE /\ seen' = [seen EXCEPT ![On] = Content(On)]
              /\ Looked /\ GoOn
              /\ UNCHANGED <<listed, admitted, done, note>>

ListTarget ==
    /\ Doing("list")
    /\ listed' = [listed EXCEPT ![On] = Content(On)]
    /\ Looked /\ GoOn
    /\ UNCHANGED <<seen, admitted, done, note>>

\* What git says of the worktree of the source repository.
OthersClean == ~litter /\ \A t \in Targets \ {"bridge"} : Content(t) = "canonical"
Diff ==
    CASE OthersClean /\ files["quarantine"] = Nothing /\ Content("bridge") = "canonical" -> "clean"
      [] OthersClean /\ files["quarantine"] = Nothing /\ files["bridge"] = Nothing -> "removed"
      [] OthersClean /\ files["quarantine"] # Nothing /\ files["bridge"] = Nothing -> "quarantined"
      [] OTHER -> "other"

\* The calls that only compare.
Agrees(do, on) ==
    CASE do = "authorize" -> origin
      [] do = "diff" -> on \in {"any", Diff}
      [] do = "unchanged" -> Content(on) = listed[on]
      [] do = "compare" -> Content(on) = seen[on]
      [] do = "check" -> files[on].id = admitted /\ Content(on) = seen["bridge"]
      [] do = "final" -> Content(on) = Final(on)
      [] OTHER -> TRUE

Comparing == {"authorize", "diff", "unchanged", "compare", "check", "final", "mkdir", "verified"}

\* What an error after the call is reported to have left behind.
NoteAfter(do) ==
    CASE do = "mkdir" -> "directory"
      [] do = "verified" -> "quarantined"
      [] OTHER -> note

Comparison ==
    /\ prog # <<>> /\ Head(prog).do \in Comparing
    /\ IF Agrees(Head(prog).do, On)
         THEN /\ note' = NoteAfter(Head(prog).do)
              /\ IF Head(prog).do = "verified" THEN UNCHANGED past ELSE Looked
              /\ GoOn
              /\ UNCHANGED <<seen, listed, admitted, done>>
         ELSE Throw /\ UNCHANGED mishaps

\* The source repository's worktree has no change but a removal that was made before.
PlanRefused == source /\ Diff # (IF seen["bridge"] = "nothing" THEN "removed" ELSE "clean")

MakePlan ==
    /\ Doing("plan")
    /\ IF PlanRefused
         THEN Throw /\ UNCHANGED mishaps
         ELSE /\ prog' = PlanCalls /\ late' = {}
              /\ UNCHANGED <<worktree, mishaps, mode, report, memory, wrote, moved, recent>>

\* The calls that change the worktree.
Changed(f, n) ==
    /\ files' = f /\ note' = n /\ recent' = {}
    /\ prog' = Tail(prog)
    /\ UNCHANGED <<source, litter, origin, mishaps, mode, seen, listed, report, moved>>

\* A file of a name of its own, to be renamed.
WriteTemp ==
    /\ Doing("write")
    /\ Changed(WithFile("temp", NewFile(On, "canonical")), "temp")
    /\ UNCHANGED <<admitted, done, wrote, late>>

Install ==
    /\ Doing("install")
    /\ Changed([WithFile(On, files["temp"]) EXCEPT !["temp"] = Nothing], "renamed")
    /\ wrote' = wrote \cup {On} /\ late' = {}
    /\ UNCHANGED <<admitted, done>>

\* The change has returned; what it would have said of an error is gone with it.
Completed ==
    /\ Doing("completed")
    /\ done' = done \cup {On} /\ note' = "none" /\ admitted' = 0
    /\ GoOn
    /\ UNCHANGED <<seen, listed, past>>

Admit ==
    /\ Doing("admit")
    /\ IF Content(On) = seen[On]
         THEN /\ admitted' = files[On].id
              /\ Looked /\ GoOn
              /\ UNCHANGED <<seen, listed, done, note>>
         ELSE Throw /\ UNCHANGED mishaps

\* A mutant: the rename is noted only once it is verified.
RenameUnnoted ==
    /\ Doing("rename")
    /\ IF files["bridge"] # Nothing
         THEN /\ Changed([WithFile("quarantine", files["bridge"]) EXCEPT !["bridge"] = Nothing], note)
              /\ wrote' = wrote \cup {"bridge"} /\ late' = {}
              /\ UNCHANGED <<admitted, done>>
         ELSE Throw /\ UNCHANGED mishaps

\* Whatever the name leads to goes into quarantine, and is looked at there.
Rename ==
    /\ Doing("rename")
    /\ IF files["bridge"] # Nothing
         THEN /\ Changed([WithFile("quarantine", files["bridge"]) EXCEPT !["bridge"] = Nothing], "unverified")
              /\ wrote' = wrote \cup {"bridge"} /\ late' = {}
              /\ UNCHANGED <<admitted, done>>
         ELSE Throw /\ UNCHANGED mishaps

Link ==
    /\ Doing("link")
    /\ IF files["quarantine"] # Nothing /\ files["bridge"] = Nothing
         THEN /\ Changed(WithFile("bridge", files["quarantine"]), note)
              /\ wrote' = wrote \ {"bridge"} /\ late' = {}
              /\ UNCHANGED <<admitted, done>>
         ELSE Throw /\ UNCHANGED mishaps

Unlink ==
    /\ Doing("unlink")
    /\ IF files["quarantine"] # Nothing
         THEN /\ Changed(WithFile("quarantine", Nothing), IF note = "quarantined" THEN "unlinked" ELSE note)
              /\ late' = {}
              /\ UNCHANGED <<admitted, done, wrote>>
         ELSE Throw /\ UNCHANGED mishaps

Rmdir ==
    /\ Doing("rmdir")
    /\ IF files["quarantine"] = Nothing
         THEN Looked /\ GoOn /\ UNCHANGED memory
         ELSE Throw /\ UNCHANGED mishaps

\* The restoration is part of a failure.
Restored ==
    /\ Doing("restored")
    /\ prog' = <<>> /\ report' = "error" /\ note' = "restored"
    /\ UNCHANGED <<worktree, mishaps, mode, seen, listed, admitted, done, past>>

End ==
    /\ Doing("end")
    /\ prog' = <<>> /\ report' = On
    /\ UNCHANGED <<worktree, mishaps, mode, memory, past>>

Helper ==
    \/ Prepare \/ See \/ ListTarget \/ Comparison \/ MakePlan
    \/ WriteTemp \/ Install \/ Completed \/ Admit
    \/ Rename \/ Link \/ Unlink \/ Rmdir \/ Restored \/ End

-----------------------------------------------------------------------------
(* Others, failures and kills.                                             *)

Mishap == mishaps > 0 /\ mishaps' = mishaps - 1

OthersChange(names) ==
    /\ Mishap
    /\ moved' = moved \cup names /\ recent' = recent \cup names /\ late' = late \cup names
    /\ UNCHANGED <<source, litter, mode, prog, memory, report, wrote>>

\* Nobody else knows the name of the temporary file.
Editable == FileNames \ {"temp"}

\* A bridge is edited where it is, under both its names.
Edit(n) ==
    /\ n \in {"bridge", "quarantine"}
    /\ files[n] # Nothing /\ Content(n) # "foreign"
    /\ LET same == {m \in {"bridge", "quarantine"} : files[m] # Nothing /\ files[m].id = files[n].id} IN
       /\ files' = [m \in FileNames |-> IF m \in same THEN [files[m] EXCEPT !.content = "foreign"]
                                       ELSE files[m]]
       /\ OthersChange(same)
    /\ UNCHANGED origin

\* A name gets a new file, of its own content or a foreign one, or none.
Replace(n) ==
    /\ n = "quarantine" => files[n] # Nothing
    /\ \E file \in {NewFile(n, "foreign"), NewFile(n, "canonical"), Nothing} \ {files[n]} : files' = WithFile(n, file)
    /\ OthersChange({n})
    /\ UNCHANGED origin

\* The origin is changed, or the repository it names, and changed back.
Retarget ==
    /\ origin' = ~origin
    /\ OthersChange({"origin"})
    /\ UNCHANGED files

\* Before it asks for a source removal again the user tidies up.
Tidy ==
    /\ prog = <<>> /\ litter
    /\ litter' = FALSE
    /\ UNCHANGED <<source, files, origin, mishaps, mode, prog, memory, report, past>>

\* A call fails, or a directory is no longer the one it was.
Fault == prog # <<>> /\ Mishap /\ Throw

Kill ==
    /\ prog # <<>> /\ Mishap
    /\ prog' = <<>>
    /\ UNCHANGED <<worktree, mode, memory, report, past>>

Others ==
    \/ \E n \in Editable : Edit(n) \/ Replace(n)
    \/ Retarget \/ Tidy \/ Fault \/ Kill

FilesNext == (\E m \in {"bridge", "remove", "source"} : Invoke(m)) \/ Helper \/ Others

FilesSpec == FilesInit /\ [][FilesNext]_filesVars

-----------------------------------------------------------------------------

\* The helper overwrites a file only if it still holds what the plan gives up,
\* and unlinks only the canonical bridge it admitted, unless others changed it
\* just then, between its last call and this one.  So an edit made anywhere in
\* the run is not lost to a stale plan, nor a file that took another's place,
\* neither on the way to success nor in a restoration.
DestroysOnlyWhatItSaw ==
    [][ /\ Doing("install") /\ wrote' # wrote => Content(On) = seen[On] \/ On \in recent
        /\ Doing("unlink") /\ files' # files =>
              files["quarantine"] = [id |-> admitted, content |-> "canonical"] \/ "quarantine" \in recent
      ]_<<prog, files>>

AsPlanned(t) == Content(t) = Final(t) \/ t \in moved

\* No workflow changes before CODEOWNERS protects it; no caller is replaced
\* before the bridge that stands in for it is there; and the bridge leaves only
\* a worktree whose gate is complete, also where an earlier run was cut short.
InOrder ==
    /\ wrote \subseteq {"codeowners"} \/ source \/ AsPlanned("codeowners")
    /\ mode = "bridge" /\ wrote \cap {"verifier", "controller"} # {} => AsPlanned("bridge")
    /\ mode = "remove" /\ "bridge" \in wrote => \A t \in Targets \ {"bridge"} : AsPlanned(t)

Ready == \A t \in Managed : Content(t) = Final(t) \/ t \in late

\* When the helper reports that it applied its changes every target is as
\* planned, those it had no need to write included, but for what others changed
\* after its last write.
AppliedIsReal == report = "applied" => Ready

\* An error accounts for every change that was made: by the list of completed
\* ones, or by its note.  Only the readbacks of the source repository's removal
\* say nothing of it, and they come when the bridge is removed in full.
Accounted ==
    wrote # Counted =>
        \/ note \in {"renamed", "unverified", "quarantined", "unlinked", "not restored"}
        \/ source /\ note = "none" /\ AsPlanned("bridge")

\* It says that the bridge is back only if the admitted one is, and that it is in
\* quarantine only if a file is.
Placed ==
    /\ note = "restored" =>
          files["bridge"] = [id |-> admitted, content |-> "canonical"] \/ "bridge" \in recent
    /\ note \in {"unverified", "quarantined"} => files["quarantine"] # Nothing \/ "quarantine" \in moved

\* It leaves no file in quarantine without naming the quarantine.
Swept == note \notin {"unverified", "quarantined", "not restored"} => files["quarantine"] = Nothing

\* What an error of the helper says of the worktree is so, wherever in a change
\* or a restoration the error is met, and whatever others changed meanwhile.
ErrorsAreTrue == report = "error" => Accounted /\ Placed /\ Swept

\* When the helper says that nothing needs a change, nothing does, but for what
\* others changed after it found that out.
NoChangeIsReal == report = "no change" => Ready

=============================================================================
