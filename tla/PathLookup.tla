----------------------------- MODULE PathLookup -----------------------------
(***************************************************************************)
(* have.c: the search for a command in the directories of PATH, and its    *)
(* two callers in the library: determine_elevator (elevate.c) and          *)
(* try_to_determine_linux_distro (which_os.c).  Threads search at the same *)
(* time, each in a copy of PATH of its own, but strtok has one position    *)
(* for all of them; and commands are installed and removed meanwhile.      *)
(***************************************************************************)
EXTENDS Integers, Sequences, FiniteSets
LOCAL INSTANCE Functions

CONSTANTS
  Threads,
  PATH,       \* its entries, in order
  Elsewhere,  \* directories outside of PATH, which memory that was freed may spell
  NoDir,      \* an empty entry
  Unset,      \* a token that is none: NULL
  Fits,       \* the entries whose full path fits PATH_MAX
  MaxInstalled, \* how many commands there are at first: a bound of the model
  MaxChanges  \* how many commands are installed or removed: a bound of the model

ASSUME PathLookupAssumption ==
  /\ PATH \in Seq({PATH[i] : i \in DOMAIN PATH})
  /\ Fits \subseteq {PATH[i] : i \in DOMAIN PATH} \cup Elsewhere
  /\ Unset \notin {PATH[i] : i \in DOMAIN PATH} \cup Elsewhere
  /\ NoDir \notin Elsewhere
  /\ {Unset, "linux"} \cap Threads = {}

\* What each caller looks for, in this order.
Commands(role) == IF role = "elevator" THEN <<"sudo", "doas">> ELSE <<"lsb_release">>
Dirs   == {PATH[i] : i \in DOMAIN PATH} \ {NoDir}
Strings == Dirs \cup Elsewhere
Places == Strings \X {"sudo", "doas", "lsb_release"}

VARIABLES
  role,     \* what a thread determines: "elevator" or "distro"
  pc,       \* where it is
  nth,      \* which of its commands it looks for
  whole,    \* the copies of PATH that are allocated and hold its entries
  saved,    \* strtok's own variable: the copy it is in, and the next entry there
  token,    \* each thread's dir, and the copy it points into
  found,    \* the directory where it found the command; Unset if it did not
  answers,  \* which of its commands exist
  os,       \* the global: Unset, "linux" or the name that a thread read
  named,    \* the threads that have read one
  answer,   \* what try_to_determine_linux_distro has returned
  executable, \* where access(X_OK) succeeds (for directories, too)
  changes,
  ever, always, \* where its commands were at some time of the search, or all the time
  alone,    \* no other thread has searched while it did
  raced     \* two threads were in try_to_determine_linux_distro at a time

distroVars == <<os, named, answer>>
searchVars == <<role, pc, nth, whole, saved, token, found, answers, distroVars, executable,
                changes, ever, always, alone, raced>>

-----------------------------------------------------------------------------

Goto(t, label)  == pc' = [pc EXCEPT ![t] = label]
Searching(t)    == pc[t] \in {"first", "check", "next", "free"}
Command(t)      == Commands(role[t])[nth[t]]
CopyOf(t)       == <<t, nth[t]>>
\* Places with a command that anyone looks for.
Wanted == {p \in Places : \E t \in Threads : p[2] \in Range(Commands(role[t]))}
Of(t, places)   == {p \in places : p[2] = Command(t)}

SearchInit ==
  /\ role \in [Threads -> {"elevator", "distro"}]
  /\ pc = [t \in Threads |-> "call"]
  /\ nth = [t \in Threads |-> 1]
  /\ whole = {} /\ saved = [copy |-> <<Unset, 1>>, at |-> 1]
  /\ token = [t \in Threads |-> [dir |-> Unset, copy |-> <<Unset, 1>>]]
  /\ found = [t \in Threads |-> Unset]
  /\ answers = [t \in Threads |-> <<>>]
  /\ os = Unset /\ named = {} /\ answer = [t \in Threads |-> Unset]
  /\ executable \in SUBSET Wanted /\ Cardinality(executable) <= MaxInstalled /\ changes = 0
  /\ ever = [t \in Threads |-> {}] /\ always = [t \in Threads |-> {}]
  /\ alone = [t \in Threads |-> TRUE] /\ raced = FALSE

-----------------------------------------------------------------------------
(* command_exists.  The commands have no slash, PATH is set, strdup succeeds. *)

\* path_copy; the search begins.
Copy(t) ==
  /\ pc[t] = "call"
  /\ whole' = whole \cup {CopyOf(t)}
  /\ found' = [found EXCEPT ![t] = Unset]
  /\ ever'   = [ever EXCEPT ![t] = @ \cup Of(t, executable)]
  /\ always' = [always EXCEPT ![t] = @ \cup Of(t, executable)]
  /\ alone'  = [u \in Threads |->
       alone[u] /\ IF u = t THEN \A v \in Threads \ {t} : ~Searching(v) ELSE ~Searching(u)]
  /\ Goto(t, "first")
  /\ raced' = (raced \/ (/\ role[t] = "distro"
                         /\ \E u \in Threads \ {t} : role[u] = "distro" /\ pc[u] \notin {"call", "done"}))
  /\ UNCHANGED <<role, nth, saved, token, answers, distroVars, executable, changes>>

\* The next token in a copy from position i on; empty entries are skipped.
Tokens(i) == {j \in i .. Len(PATH) : PATH[j] # NoDir}

\* A token in memory that is not a copy of PATH, or none: what it spells is up to whoever
\* reads it (Check).
Rubbish(t, copy) ==
  \E d \in {NoDir, Unset} : token' = [token EXCEPT ![t] = [dir |-> d, copy |-> copy]]

\* strtok goes on in the copy where it stopped, whoever made it.  If that was freed, any
\* string may come out, or none; and the terminator that it writes there may fall into
\* a copy that was made since.
Strtok(t, copy, i) ==
  IF copy \in whole
  THEN /\ IF Tokens(i) = {}
          THEN /\ token' = [token EXCEPT ![t] = [dir |-> Unset, copy |-> copy]]
               /\ saved' = [copy |-> copy, at |-> Len(PATH) + 1]
          ELSE \E j \in Tokens(i) :
                 /\ \A k \in Tokens(i) : j <= k
                 /\ token' = [token EXCEPT ![t] = [dir |-> PATH[j], copy |-> copy]]
                 /\ saved' = [copy |-> copy, at |-> j + 1]
       /\ UNCHANGED whole
  ELSE /\ Rubbish(t, copy)
       /\ whole' \in {whole} \cup {whole \ {other} : other \in whole}
       /\ UNCHANGED saved

FirstToken(t) ==
  /\ pc[t] = "first"
  /\ IF CopyOf(t) \in whole THEN Strtok(t, CopyOf(t), 1)
     ELSE /\ Rubbish(t, CopyOf(t))
          /\ saved' = [copy |-> CopyOf(t), at |-> 1] /\ UNCHANGED whole
  /\ Goto(t, IF token'[t].dir = Unset THEN "free" ELSE "check")
  /\ UNCHANGED <<role, nth, found, answers, distroVars, executable, changes, ever, always,
                 alone, raced>>

\* Mutant of NextToken: the search ends at an empty entry.
NextTokenStops(t) ==
  /\ pc[t] = "next"
  /\ IF saved.at <= Len(PATH) /\ PATH[saved.at] = NoDir
     THEN token' = [token EXCEPT ![t].dir = Unset] /\ UNCHANGED <<saved, whole>>
     ELSE Strtok(t, saved.copy, saved.at)
  /\ Goto(t, IF token'[t].dir = Unset THEN "free" ELSE "check")
  /\ UNCHANGED <<role, nth, found, answers, distroVars, executable, changes, ever, always,
                 alone, raced>>

NextToken(t) ==
  /\ pc[t] = "next"
  /\ Strtok(t, saved.copy, saved.at)
  /\ Goto(t, IF token'[t].dir = Unset THEN "free" ELSE "check")
  /\ UNCHANGED <<role, nth, found, answers, distroVars, executable, changes, ever, always,
                 alone, raced>>

\* snprintf and access, for the directory in the copy: what that holds if it was freed.
Check(t) ==
  /\ pc[t] = "check"
  /\ \E d \in IF token[t].copy \in whole THEN {token[t].dir} ELSE Strings \cup {Unset} :
       LET here == d \in Fits /\ <<d, Command(t)>> \in executable
       IN  /\ found' = [found EXCEPT ![t] = IF here THEN d ELSE Unset]
           /\ Goto(t, IF here THEN "free" ELSE "next")
  /\ UNCHANGED <<role, nth, whole, saved, token, answers, distroVars, executable, changes,
                 ever, always, alone, raced>>

command_exists(t) == found[t] # Unset

\* The path it has found, a copy; Unset if there is none.
which(t) == IF found[t] = Unset THEN Unset ELSE <<found[t], Command(t)>>

\* free and return; the caller looks for its next command or goes on.
Free(t) ==
  /\ pc[t] = "free"
  /\ whole' = whole \ {CopyOf(t)}
  /\ answers' = [answers EXCEPT ![t] = Append(@, command_exists(t))]
  /\ IF nth[t] < Len(Commands(role[t]))
     THEN nth' = [nth EXCEPT ![t] = @ + 1] /\ Goto(t, "call")
     ELSE UNCHANGED nth /\ Goto(t, IF role[t] = "elevator" THEN "done" ELSE "read")
  /\ UNCHANGED <<role, saved, token, found, distroVars, executable, changes, ever, always,
                 alone, raced>>

\* What reads or frees memory that is not its own, or that was written over, may end the
\* process.
Crash(t) ==
  /\ \/ pc[t] = "next" /\ saved.copy \notin whole
     \/ pc[t] = "check" /\ token[t].copy \notin whole
     \/ pc[t] \in {"first", "free"} /\ CopyOf(t) \notin whole
  /\ pc' = [u \in Threads |-> "crashed"]
  /\ UNCHANGED <<role, nth, whole, saved, token, found, answers, distroVars, executable,
                 changes, ever, always, alone, raced>>

\* Both are looked for, sudo first (elevate.h:6); doas is taken if both are found.
determine_elevator(t) ==
  IF answers[t][2] THEN "doas" ELSE IF answers[t][1] THEN "sudo" ELSE "neither"

-----------------------------------------------------------------------------
(* try_to_determine_linux_distro *)

\* The output of lsb_release if it was found, and otherwise a line of /etc/os-release.
\* Either may be missing, and os stays as it was.
ReadName(t) ==
  /\ pc[t] = "read"
  /\ \/ os' = t /\ named' = named \cup {t}
     \/ UNCHANGED <<os, named>>
  /\ Goto(t, "test")
  /\ UNCHANGED <<role, nth, whole, saved, token, found, answers, answer, executable, changes,
                 ever, always, alone, raced>>

\* Mutant of TestOs: the default is taken in any case.
TestNothing(t) ==
  /\ pc[t] = "test"
  /\ Goto(t, "default")
  /\ UNCHANGED <<role, nth, whole, saved, token, found, answers, distroVars, executable,
                 changes, ever, always, alone, raced>>

TestOs(t) ==
  /\ pc[t] = "test"
  /\ Goto(t, IF os = Unset THEN "default" ELSE "return")
  /\ UNCHANGED <<role, nth, whole, saved, token, found, answers, distroVars, executable,
                 changes, ever, always, alone, raced>>

DefaultOs(t) ==
  /\ pc[t] = "default"
  /\ os' = "linux"
  /\ Goto(t, "return")
  /\ UNCHANGED <<role, nth, whole, saved, token, found, answers, named, answer, executable,
                 changes, ever, always, alone, raced>>

\* The global is what it returns, by now.
ReturnOs(t) ==
  /\ pc[t] = "return"
  /\ answer' = [answer EXCEPT ![t] = os]
  /\ Goto(t, "done")
  /\ UNCHANGED <<role, nth, whole, saved, token, found, answers, os, named, executable,
                 changes, ever, always, alone, raced>>

-----------------------------------------------------------------------------

\* A command is installed or removed.
Change ==
  /\ changes < MaxChanges /\ changes' = changes + 1
  /\ \E f \in Wanted :
       executable' = IF f \in executable THEN executable \ {f} ELSE executable \cup {f}
  /\ ever'   = [t \in Threads |-> IF Searching(t) THEN ever[t] \cup Of(t, executable') ELSE ever[t]]
  /\ always' = [t \in Threads |->
       IF Searching(t) THEN always[t] \ Of(t, Places \ executable') ELSE always[t]]
  /\ UNCHANGED <<role, pc, nth, whole, saved, token, found, answers, distroVars, alone, raced>>

SearchNext ==
  \/ \E t \in Threads :
       \/ Copy(t) \/ FirstToken(t) \/ NextToken(t) \/ Check(t) \/ Free(t)
       \/ Crash(t) \/ ReadName(t) \/ TestOs(t) \/ DefaultOs(t) \/ ReturnOs(t)
  \/ Change

SearchSpec == SearchInit /\ [][SearchNext]_searchVars

-----------------------------------------------------------------------------
(* Properties *)

\* No directory of PATH had the command all the time.
Absent(t, command) == \A d \in Dirs \cap Fits : <<d, command>> \notin always[t]

\* A search that finds a command finds it where it was at some time of the search, and in
\* PATH; one that does not find it has looked in every directory of PATH, with empty entries
\* between them or not, and none had it all along; and so for the elevator: doas, or else
\* sudo, or there is neither.  If another thread searches meanwhile, the two share strtok's
\* position: a search may miss what is there, or find the command outside of PATH, or the
\* process may crash, but what is found was there.  A call of try_to_determine_linux_distro
\* that has read a name returns that one, and no other call does that reads its own, if
\* calls do not overlap (a call that reads none returns the name of an earlier one, which
\* the caller of that was told to free: which_os.c:63).
SearchTruthful ==
  \A t \in Threads :
    /\ pc[t] = "free" =>
         /\ command_exists(t) => which(t) \in ever[t] /\ (alone[t] => found[t] \in Dirs)
         /\ ~command_exists(t) /\ alone[t] => Absent(t, Command(t))
    /\ pc[t] = "done" /\ role[t] = "elevator" =>
         LET elevator == determine_elevator(t)
         IN  /\ elevator # "neither" =>
                  \E d \in Strings : <<d, elevator>> \in ever[t] /\ (alone[t] => d \in Dirs)
             /\ elevator # "doas" /\ alone[t] => Absent(t, "doas")
             /\ elevator = "neither" /\ alone[t] => Absent(t, "sudo")
    /\ pc[t] = "done" /\ t \in named /\ ~raced => answer[t] = t
=============================================================================
