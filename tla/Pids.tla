-------------------------------- MODULE Pids --------------------------------
(***************************************************************************)
(* process_utils.c: a program that spawns a child, waits for it, asks      *)
(* whether a process is running and looks one up by name, while other      *)
(* processes begin and end and the system gives their numbers away again.  *)
(***************************************************************************)
EXTENDS Integers, FiniteSets

CONSTANTS
  Pids,      \* the process ids that the system gives out
  Names,     \* the programs' names, as /proc shows them: cut to 15 characters
  Own,       \* that of the program itself
  Sought,    \* the name that pidof is called with
  MaxEvents  \* how many processes begin: a bound of the model

ASSUME PidsAssumption == Pids \subseteq Nat \ {0} /\ {Own} \subseteq Names

VARIABLES
  proc,      \* what has each process id
  doing,     \* the program: "idle", "waiting", or in pidof: "readdir", "open", "found", "none"
  child,     \* pid_out of the last process_spawn, until process_wait has returned; 0 before
  entry,     \* pidof's directory entry
  begun,
  hadName, keptName \* who had the name at some time of the search, or all the time

pidVars == <<proc, doing, child, entry, begun, hadName, keptName>>

-----------------------------------------------------------------------------

NoProcess == [state |-> "free", name |-> Own, ours |-> FALSE]
Taken(p) == proc[p].state # "free"

\* /proc shows the name of a zombie, too.
Named == {p \in Pids : Taken(p) /\ proc[p].name = Sought}

\* ours: the process may be sent signals, as the program's user is its own.
PidsInit ==
  /\ proc \in [Pids -> {NoProcess} \cup {[state |-> "running", name |-> n, ours |-> o] :
                                      n \in Names, o \in BOOLEAN}]
  /\ doing = "idle" /\ child = 0 /\ entry = 0 /\ begun = 0
  /\ hadName = {} /\ keptName = {}

Observe == /\ hadName' = IF doing \in {"readdir", "open"} THEN hadName \cup Named' ELSE hadName
           /\ keptName' = IF doing \in {"readdir", "open"} THEN keptName \cap Named' ELSE keptName

-----------------------------------------------------------------------------
(* Processes *)

\* Another process begins or ends.
Appear ==
  /\ begun < MaxEvents /\ begun' = begun + 1
  /\ \E p \in Pids, n \in Names, o \in BOOLEAN :
       ~Taken(p) /\ proc' = [proc EXCEPT ![p] = [state |-> "running", name |-> n, ours |-> o]]
  /\ Observe
  /\ UNCHANGED <<doing, child, entry>>

Disappear ==
  /\ \E p \in Pids \ {child} : Taken(p) /\ proc' = [proc EXCEPT ![p] = NoProcess]
  /\ Observe
  /\ UNCHANGED <<doing, child, entry, begun>>

\* The child becomes the program, which may go on as another user, as sudo does; or it exits:
\* with 127 if there is no such program.
Become ==
  /\ child # 0 /\ proc[child].state = "running" /\ proc[child].name = Own
  /\ \E n \in Names, o \in BOOLEAN : proc' = [proc EXCEPT ![child].name = n, ![child].ours = o]
  /\ Observe
  /\ UNCHANGED <<doing, child, entry, begun>>

Exit ==
  /\ child # 0 /\ proc[child].state = "running"
  /\ proc' = [proc EXCEPT ![child].state = "zombie"]
  /\ Observe
  /\ UNCHANGED <<doing, child, entry, begun>>

-----------------------------------------------------------------------------
(* The program *)

\* fork: the child has the program's name until it execs.  It fails when no number is free.
process_spawn ==
  /\ doing = "idle" /\ child = 0
  /\ begun < MaxEvents /\ begun' = begun + 1
  /\ \/ \E p \in Pids :
          /\ ~Taken(p)
          /\ proc' = [proc EXCEPT ![p] = [state |-> "running", name |-> Own, ours |-> TRUE]]
          /\ child' = p
     \/ UNCHANGED <<proc, child>>
  /\ UNCHANGED <<doing, entry, hadName, keptName>>

\* It returns when the child has ended, and then the number is free.
process_wait ==
  /\ doing = "idle" /\ child # 0 /\ proc[child].state = "zombie"
  /\ proc' = [proc EXCEPT ![child] = NoProcess]
  /\ child' = 0
  /\ UNCHANGED <<doing, entry, begun, hadName, keptName>>

\* kill(pid, 0): a zombie counts, and a process of another user does not.
is_process_running(pid) == pid \in Pids /\ Taken(pid) /\ proc[pid].ours

pidof ==
  /\ doing = "idle"
  /\ doing' = "readdir" /\ entry' = 0
  /\ hadName' = Named /\ keptName' = Named
  /\ UNCHANGED <<proc, child, begun>>

\* The numbers come in their order, each if its process is there at the time.
ReadDir ==
  /\ doing = "readdir"
  /\ LET rest == {p \in Pids : p > entry /\ Taken(p)} IN
       IF rest = {} THEN doing' = "none" /\ UNCHANGED entry
       ELSE /\ \E p \in rest : (\A q \in rest : p <= q) /\ entry' = p
            /\ doing' = "open"
  /\ UNCHANGED <<proc, child, begun, hadName, keptName>>

\* Mutant of ReadComm: the search ends at a process that is gone.
ReadCommStops ==
  /\ doing = "open"
  /\ doing' = IF ~Taken(entry) THEN "none" ELSE IF proc[entry].name = Sought THEN "found" ELSE "readdir"
  /\ UNCHANGED <<proc, child, entry, begun, hadName, keptName>>

\* Its name is read, unless it has ended meanwhile (the number may be another's by now).
ReadComm ==
  /\ doing = "open"
  /\ doing' = IF entry \in Named THEN "found" ELSE "readdir"
  /\ UNCHANGED <<proc, child, entry, begun, hadName, keptName>>

PidofReturn ==
  /\ doing \in {"found", "none"}
  /\ doing' = "idle"
  /\ UNCHANGED <<proc, child, entry, begun, hadName, keptName>>

PidsNext == \/ Appear \/ Disappear \/ Become \/ Exit
            \/ process_spawn \/ process_wait \/ pidof \/ ReadDir \/ ReadComm \/ PidofReturn

PidsSpec == PidsInit /\ [][PidsNext]_pidVars

-----------------------------------------------------------------------------
(* Properties *)

\* pidof returns a process that had the name at some time of the search, and finds one if
\* one had it all along, whatever else begins and ends.  The child's number is its own from
\* process_spawn until process_wait has returned: it counts as running all that time, also
\* when it has ended, unless it went on as another user: kill is not permitted then.
PidsTruthful ==
  /\ doing = "found" => entry \in hadName
  /\ doing = "none" => keptName = {}
  /\ child # 0 => Taken(child) /\ (is_process_running(child) <=> proc[child].ours)
=============================================================================
