------------------------------ MODULE MCSystem ------------------------------
(***************************************************************************)
(* What surrounds the execution of a command, in one run: the search for   *)
(* it, the elevator in its line, the streams of its process and the number *)
(* of it.  A behaviour explores one of them.                               *)
(***************************************************************************)
EXTENDS PathLookup, Elevate, Streams, Pids, TLC

VARIABLE part

\* One state for a part that is not explored.
SearchIdle ==
  /\ role = [t \in Threads |-> "distro"] /\ pc = [t \in Threads |-> "done"]
  /\ nth = [t \in Threads |-> 1] /\ whole = {} /\ saved = [copy |-> <<Unset, 1>>, at |-> 1]
  /\ token = [t \in Threads |-> [dir |-> Unset, copy |-> <<Unset, 1>>]]
  /\ found = [t \in Threads |-> Unset] /\ answers = [t \in Threads |-> <<FALSE>>]
  /\ os = "linux" /\ named = {} /\ answer = [t \in Threads |-> "linux"] /\ executable = {} /\ changes = 0
  /\ ever = [t \in Threads |-> {}] /\ always = [t \in Threads |-> {}]
  /\ alone = [t \in Threads |-> TRUE] /\ raced = FALSE
ElevateIdle == Init /\ stage = "scan" /\ c = End
StreamsIdle ==
  StreamsInit /\ fn = "process_spawn" /\ inherit = Std /\ open = Std
PidsIdle == PidsInit /\ proc = [p \in Pids |-> NoProcess]

SystemInit ==
  \/ part = "search"  /\ SearchInit /\ ElevateIdle /\ StreamsIdle /\ PidsIdle
  \/ part = "elevate" /\ SearchIdle /\ Init /\ StreamsIdle /\ PidsIdle
  \/ part = "streams" /\ SearchIdle /\ ElevateIdle /\ StreamsInit /\ PidsIdle
  \/ part = "pids"    /\ SearchIdle /\ ElevateIdle /\ StreamsIdle /\ PidsInit

SystemNext ==
  /\ \/ part = "search"  /\ SearchNext /\ UNCHANGED <<vars, streamVars, pidVars>>
     \/ part = "elevate" /\ Next /\ UNCHANGED <<searchVars, streamVars, pidVars>>
     \/ part = "streams" /\ StreamsNext /\ UNCHANGED <<searchVars, vars, pidVars>>
     \/ part = "pids"    /\ PidsNext /\ UNCHANGED <<searchVars, vars, streamVars>>
  /\ UNCHANGED part

SystemSpec == SystemInit /\ [][SystemNext]_<<part, searchVars, vars, streamVars, pidVars>>

-----------------------------------------------------------------------------

ThreadsAlike == Permutations(Threads)

\* Two directories with an empty entry between them.
TwoDirs == <<"bin", "empty", "sbin">>
=============================================================================
