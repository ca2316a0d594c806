-------------------------- MODULE ScaffoldTransaction --------------------------
(***************************************************************************)
(* `app scaffold` and `init --local`: the all-or-nothing copy of a set of  *)
(* files into a project, one system call at a time, with other runs of the *)
(* command and the user's own edits in between, a failing system call, and *)
(* a run killed half-way.                                                  *)
(*                                                                         *)
(* The tree maps each path to nothing, a directory or a file, and says who *)
(* made it.  A run creates at most one file and one directory per path, so *)
(* the path and its creator stand for what os.SameFile compares; saving    *)
(* into a file changes its bytes, and not who made it.                     *)
(* Every run copies the same template.  A symbolic link or another special *)
(* file where a file or a directory should be counts as a file with other  *)
(* bytes: the code treats both alike.  The staging directory lies beside   *)
(* the project and is left out.                                            *)
(***************************************************************************)
EXTENDS Integers, Sequences, FiniteSets, SequencesExt

CONSTANTS
    User,
    Run,            \* concurrent runs of the command
    Dir,            \* directories of the project
    File,           \* files of the project
    Ancestors,      \* per path: the directories above it, from the top
    Files,          \* per run: the files it is to create, in path order
    MaxTouched,     \* bound on the files the user changes
    MaxUnremoved    \* bound on the paths of a run that its rollback fails to remove

Path == Dir \cup File

ASSUME ScaffoldAssumption ==
    /\ User \notin Run
    /\ Dir \cap File = {}
    /\ Ancestors \in [Path -> Seq(Dir)]
    /\ \A p \in Path : \A n \in 1..Len(Ancestors[p]) :
          Ancestors[Ancestors[p][n]] = SubSeq(Ancestors[p], 1, n - 1)
    /\ Files \in [Run -> Seq(File)]
    /\ MaxTouched \in Nat /\ MaxUnremoved \in Nat

VARIABLES
    tree,           \* per path: what is there
    run,            \* per run: how far it is
    touched         \* files the user wrote, edited or removed

vars == <<tree, run, touched>>

Absent == [kind |-> "absent", by |-> User, bytes |-> "none"]
DirBy(who) == [kind |-> "dir", by |-> who, bytes |-> "none"]
FileBy(who, bytes) == [kind |-> "file", by |-> who, bytes |-> bytes]

Node ==
    {Absent} \cup {DirBy(who) : who \in Run \cup {User}}
             \cup {FileBy(who, bytes) : who \in Run \cup {User}, bytes \in {"template", "other"}}

IsDir(p) == tree[p].kind = "dir"

(* validateDestinationAncestors: what exists above p is a directory. *)
AncestorsAreSane(p) == \A d \in ToSet(Ancestors[p]) : tree[d].kind \in {"dir", "absent"}

(* openDirectoryNoFollow(filepath.Dir(p)) succeeds. *)
ParentOpens(p) == \A d \in ToSet(Ancestors[p]) : IsDir(d)

(* compareDestination *)
CompareDestination(f) ==
    IF tree[f] = Absent
    THEN "create"
    ELSE IF tree[f].kind = "file" /\ tree[f].bytes = "template" THEN "unchanged" ELSE "conflict"

InitialTree ==
    {t \in [Path -> {Absent, DirBy(User), FileBy(User, "template"), FileBy(User, "other")}] :
        /\ \A d \in Dir : t[d].bytes # "template"
        /\ \A f \in File : t[f].kind # "dir"
        /\ \A p \in Path : t[p] # Absent => \A d \in ToSet(Ancestors[p]) : t[d] = DirBy(User)}

NewRun ==
    [phase |-> "plan", status |-> [f \in File |-> "unknown"], next |-> 1, depth |-> 0,
     files |-> <<>>, dirs |-> <<>>, found |-> User, unremoved |-> {}]

Init ==
    /\ tree \in InitialTree
    /\ run = [r \in Run |-> NewRun]
    /\ touched = {}

--------------------------------------------------------------------------------
(* Planning and comparing.  Nothing is written. *)

Becomes(r, record) == run' = [run EXCEPT ![r] = record]
Moves(r, phase) == Becomes(r, [run[r] EXCEPT !.phase = phase])

(* Plan.  Its statuses are reported by a dry run, which ends here; Apply   *)
(* computes them again.                                                    *)
Plan(r, dryRun) ==
    /\ run[r].phase = "plan"
    /\ IF \A f \in ToSet(Files[r]) : AncestorsAreSane(f)
       THEN Moves(r, IF dryRun THEN "previewed" ELSE "compare")
       ELSE Moves(r, "failed")
    /\ UNCHANGED <<tree, touched>>

(* applyWithCommitHook: the statuses are read one file after the other. *)
Compare(r) ==
    /\ run[r].phase = "compare"
    /\ run[r].next <= Len(Files[r])
    /\ LET f == Files[r][run[r].next]
       IN  IF AncestorsAreSane(f)
           THEN Becomes(r, [run[r] EXCEPT !.status[f] = CompareDestination(f),
                                     !.next = run[r].next + 1])
           ELSE Moves(r, "failed")
    /\ UNCHANGED <<tree, touched>>

(* Conflicts end the run; otherwise stageFiles copies what is to be        *)
(* created beside the project, or fails.                                   *)
Stage(r) ==
    /\ run[r].phase = "compare"
    /\ run[r].next > Len(Files[r])
    /\ IF \E f \in ToSet(Files[r]) : run[r].status[f] = "conflict"
       THEN Moves(r, "conflict")
       ELSE \/ Becomes(r, [run[r] EXCEPT !.phase = "enter", !.next = 1])
            \/ Moves(r, "failed")
    /\ UNCHANGED <<tree, touched>>

--------------------------------------------------------------------------------
(* commitFiles: one file after the other *)

Current(r) == Files[r][run[r].next]
Component(r) == Ancestors[Current(r)][run[r].depth + 1]

AtFile(r) == run[r].phase = "enter" /\ run[r].next <= Len(Files[r])
Committing(r) == AtFile(r) /\ run[r].status[Current(r)] = "create"

SkipUnchanged(r) ==
    /\ AtFile(r)
    /\ run[r].status[Current(r)] # "create"
    /\ Becomes(r, [run[r] EXCEPT !.next = run[r].next + 1])
    /\ UNCHANGED <<tree, touched>>

(* ensureDestinationDirectories: open the next directory on the way to the *)
(* current file, or find that it has to be made.                           *)
EnterDirectory(r) ==
    /\ Committing(r)
    /\ run[r].depth < Len(Ancestors[Current(r)])
    /\ CASE IsDir(Component(r)) -> Becomes(r, [run[r] EXCEPT !.depth = run[r].depth + 1])
         [] tree[Component(r)] = Absent -> Moves(r, "make")
         [] OTHER -> Moves(r, "rollback")
    /\ UNCHANGED <<tree, touched>>

(* mkdirat fails if the directory has appeared, or its parent gone, since. *)
(* If openat or Stat fails on what mkdirat has made, it is on no list.     *)
MakeDirectory(r) ==
    /\ run[r].phase = "make"
    /\ IF tree[Component(r)] = Absent /\ ParentOpens(Component(r))
       THEN /\ tree' = [tree EXCEPT ![Component(r)] = DirBy(r)]
            /\ \/ Becomes(r, [run[r] EXCEPT !.phase = "enter", !.depth = run[r].depth + 1,
                                            !.dirs = Append(run[r].dirs, Component(r))])
               \/ Moves(r, "rollback")
       ELSE Moves(r, "rollback") /\ UNCHANGED tree
    /\ UNCHANGED touched

(* Slip: the created file is listed only after parent.Close(). *)
LinkListedLate(r) ==
    /\ Committing(r)
    /\ run[r].depth = Len(Ancestors[Current(r)])
    /\ IF tree[Current(r)] = Absent /\ ParentOpens(Current(r))
       THEN /\ tree' = [tree EXCEPT ![Current(r)] = FileBy(r, "template")]
            /\ \/ Becomes(r, [run[r] EXCEPT !.next = run[r].next + 1, !.depth = 0,
                                            !.files = Append(run[r].files, Current(r))])
               \/ Moves(r, "rollback")
       ELSE Moves(r, "rollback") /\ UNCHANGED tree
    /\ UNCHANGED touched

(* linkat puts the staged file in place unless something is there by now. *)
Link(r) ==
    /\ Committing(r)
    /\ run[r].depth = Len(Ancestors[Current(r)])
    /\ IF tree[Current(r)] = Absent /\ ParentOpens(Current(r))
       THEN /\ tree' = [tree EXCEPT ![Current(r)] = FileBy(r, "template")]
            /\ Becomes(r, [run[r] EXCEPT !.next = run[r].next + 1, !.depth = 0,
                                         !.files = Append(run[r].files, Current(r))])
       ELSE Moves(r, "rollback") /\ UNCHANGED tree
    /\ UNCHANGED touched

(* syncCommittedDirectories, and the run has succeeded. *)
Commit(r) ==
    /\ run[r].phase = "enter"
    /\ run[r].next > Len(Files[r])
    /\ Moves(r, "done")
    /\ UNCHANGED <<tree, touched>>

(* Any other system call of commitFiles fails. *)
CallFails(r) ==
    /\ run[r].phase \in {"enter", "make"}
    /\ Moves(r, "rollback")
    /\ UNCHANGED <<tree, touched>>

--------------------------------------------------------------------------------
(* The deferred rollback of commitFiles *)

IsEmpty(d) ==
    \A p \in Path : Ancestors[p] # <<>> /\ Last(Ancestors[p]) = d => tree[p] = Absent

(* Slip: os.RemoveAll. *)
RemovedAll(p) ==
    [q \in Path |-> IF q = p \/ p \in ToSet(Ancestors[q]) THEN Absent ELSE tree[q]]

(* os.Remove: a directory that is not empty stays. *)
Removed(p) ==
    IF IsDir(p) /\ ~IsEmpty(p) THEN tree ELSE [tree EXCEPT ![p] = Absent]

(* Slip: whatever is there is taken for what the run made. *)
AnyFile(r, p) == tree[p] # Absent

(* os.Lstat finds what this run made at p. *)
SameFile(r, p) == tree[p] # Absent /\ tree[p].by = r

(* The files, last first, then the directories *)
Target(r) == IF run[r].files # <<>> THEN Last(run[r].files) ELSE Last(run[r].dirs)

Dropped(r) ==
    [run[r] EXCEPT !.phase = "rollback", !.found = User,
                   !.files = IF @ # <<>> THEN Front(@) ELSE @,
                   !.dirs = IF run[r].files = <<>> THEN Front(@) ELSE @]

(* removeIfSame ignores a call that fails. *)
NotRemoved(r) ==
    /\ Cardinality(run[r].unremoved) < MaxUnremoved
    /\ Becomes(r, [Dropped(r) EXCEPT !.unremoved = @ \cup {Target(r)}])

(* removeIfSame looks at the next path ... *)
LookAtTarget(r) ==
    /\ run[r].phase = "rollback"
    /\ run[r].files # <<>> \/ run[r].dirs # <<>>
    /\ \/ /\ SameFile(r, Target(r))
          /\ Becomes(r, [run[r] EXCEPT !.phase = "remove", !.found = tree[Target(r)].by])
       \/ ~SameFile(r, Target(r)) /\ Becomes(r, Dropped(r))
       \/ NotRemoved(r)
    /\ UNCHANGED <<tree, touched>>

(* ... and removes what is there by now. *)
RemoveTarget(r) ==
    /\ run[r].phase = "remove"
    /\ \/ tree' = Removed(Target(r)) /\ Becomes(r, Dropped(r))
       \/ NotRemoved(r) /\ UNCHANGED tree
    /\ UNCHANGED touched

RollBackEnds(r) ==
    /\ run[r].phase = "rollback"
    /\ run[r].files = <<>> /\ run[r].dirs = <<>>
    /\ Moves(r, "failed")
    /\ UNCHANGED <<tree, touched>>

--------------------------------------------------------------------------------
(* The surroundings *)

(* The process is killed: nothing is rolled back. *)
Kill(r) ==
    /\ run[r].phase \in {"enter", "make", "rollback", "remove"}
    /\ Moves(r, "killed")
    /\ UNCHANGED <<tree, touched>>

(* The user changes a path once: an editor replaces what was there, or     *)
(* saves into it, or the file goes.                                        *)
UserWrites(f, bytes) ==
    /\ f \notin touched /\ Cardinality(touched) < MaxTouched
    /\ ParentOpens(f)
    /\ tree' = [tree EXCEPT ![f] = FileBy(User, bytes)]
    /\ touched' = touched \cup {f}
    /\ UNCHANGED run

UserEdits(f, bytes) ==
    /\ f \notin touched /\ Cardinality(touched) < MaxTouched
    /\ tree[f].kind = "file" /\ tree[f].bytes # bytes
    /\ tree' = [tree EXCEPT ![f].bytes = bytes]
    /\ touched' = touched \cup {f}
    /\ UNCHANGED run

UserRemoves(f) ==
    /\ f \notin touched /\ Cardinality(touched) < MaxTouched
    /\ tree[f] # Absent
    /\ tree' = [tree EXCEPT ![f] = Absent]
    /\ touched' = touched \cup {f}
    /\ UNCHANGED run

RunSteps(r) ==
    \/ \E dryRun \in BOOLEAN : Plan(r, dryRun)
    \/ Compare(r)
    \/ Stage(r)
    \/ SkipUnchanged(r)
    \/ EnterDirectory(r)
    \/ MakeDirectory(r)
    \/ Link(r)
    \/ Commit(r)
    \/ CallFails(r)
    \/ LookAtTarget(r)
    \/ RemoveTarget(r)
    \/ RollBackEnds(r)
    \/ Kill(r)

UserSteps ==
    \E f \in File :
        \/ UserRemoves(f)
        \/ \E bytes \in {"template", "other"} : UserWrites(f, bytes) \/ UserEdits(f, bytes)

Next == UserSteps \/ \E r \in Run : RunSteps(r)

Spec == Init /\ [][Next]_vars

--------------------------------------------------------------------------------
(* Every variable has its declared shape, and what exists lies in          *)
(* directories that exist.                                                 *)
TypeOK ==
    /\ tree \in [Path -> Node]
    /\ \A p \in Path : tree[p] # Absent => ParentOpens(p)
    /\ \A r \in Run :
          /\ run[r].phase \in {"plan", "previewed", "compare", "conflict", "enter", "make",
                               "rollback", "remove", "done", "failed", "killed"}
          /\ \A f \in File : run[r].status[f] \in {"unknown", "create", "unchanged", "conflict"}
          /\ run[r].next \in 1..(Len(Files[r]) + 1)
          /\ ToSet(run[r].files) \subseteq ToSet(Files[r])
          /\ ToSet(run[r].dirs) \subseteq Dir
          /\ run[r].found \in Run \cup {User}
          /\ run[r].unremoved \subseteq Path
    /\ touched \subseteq File

(* What is at p is the user's: they made it, or have saved other bytes into *)
(* it than the template's.                                                 *)
IsUsers(p) == tree[p] # Absent /\ (tree[p].by = User \/ tree[p].bytes = "other")

(* removeIfSame is about to remove what is at p, though the user has saved *)
(* into the file that the run made there, or has put another in its place  *)
(* since Lstat found it.                                                   *)
TakenForOwn(p, r) ==
    /\ run[r].phase = "remove" /\ p = Target(r)
    /\ tree[p].by = r \/ tree[p].by # run[r].found

(* No step of a run changes what the user put into the project, neither by *)
(* linking nor by rolling back (linkat refuses, removeIfSame compares),    *)
(* save for the two cases in which removeIfSame takes it for the run's     *)
(* own: os.SameFile compares the file and not its bytes, and between Lstat *)
(* and Remove (scaffold.go 636-638) nothing is compared.                   *)
UserFilesUntouched ==
    [][UserSteps \/ \A p \in Path :
          IsUsers(p) => tree'[p] = tree[p] \/ \E r \in Run : TakenForOwn(p, r)]_vars

(* The user or another run has set out to put a file below d. *)
CameToUse(d, r) ==
    \E f \in File :
        /\ d \in ToSet(Ancestors[f])
        /\ \/ f \in touched
           \/ \E s \in Run \ {r} :
                 /\ run[s].phase \in {"enter", "make", "rollback", "remove", "done", "failed", "killed"}
                 /\ run[s].status[f] = "create"

(* The run gave up before it had entered this directory of its own. *)
NotEntered(c, r) ==
    /\ run[r].next <= Len(Files[r])
    /\ run[r].depth < Len(Ancestors[Current(r)])
    /\ c = Component(r) /\ tree[c] = DirBy(r)

(* A run that ends with an error has left no file of its own behind,       *)
(* wherever it failed and whatever happened around it, except one whose    *)
(* Lstat or Remove failed, too (removeIfSame ignores it), and no directory *)
(* either, except those that somebody else came to use, one that was not   *)
(* removed for that reason, and the one it made and could not open         *)
(* (ensureDestinationDirectories returns without it), with the directories *)
(* above any of these.                                                     *)
FailedRunCleansUp ==
    \A r \in Run : run[r].phase \in {"failed", "conflict", "previewed"} =>
        /\ \A f \in File : tree[f] = Absent \/ tree[f].by # r \/ f \in run[r].unremoved
        /\ \A d \in Dir : tree[d] = DirBy(r) =>
              \/ CameToUse(d, r)
              \/ \E c \in Path :
                    /\ NotEntered(c, r) \/ c \in run[r].unremoved
                    /\ d = c \/ d \in ToSet(Ancestors[c])

(* When a run has succeeded, all its files are in place, except one that   *)
(* the user has changed, or one that it found in place because another     *)
(* run had created it, and which that run rolled back: what a run creates  *)
(* itself no other run removes.                                            *)
SuccessIsComplete ==
    \A r \in Run : run[r].phase = "done" =>
        \A f \in ToSet(Files[r]) :
            \/ tree[f] # Absent /\ tree[f].bytes = "template"
            \/ f \in touched
            \/ /\ run[r].status[f] = "unchanged"
               /\ \E s \in Run \ {r} :
                     run[s].phase \in {"rollback", "remove", "failed", "killed"} /\ run[s].status[f] = "create"
================================================================================
