---------------------------- MODULE SystemProofs ----------------------------
(***************************************************************************)
(* What surrounds the execution of a command: which elevator there is,     *)
(* found by searches of any PATH by any number of threads while commands   *)
(* are installed and removed, and where it is inserted in a line of any    *)
(* length; the table of processes; and the descriptors of a child.         *)
(***************************************************************************)
EXTENDS PathLookup, Elevate, Pids, Streams, FiniteSetTheorems, TLAPS

-----------------------------------------------------------------------------
(* have.c, which_os.c: the searches *)

Labels == {"call", "first", "check", "next", "free", "read", "test", "default", "return",
           "done", "crashed"}
Copies == (Threads \cup {Unset}) \X {1, 2}

SearchType ==
  /\ role \in [Threads -> {"elevator", "distro"}]
  /\ pc \in [Threads -> Labels]
  /\ nth \in [Threads -> {1, 2}]
  /\ whole \subseteq Copies
  /\ saved \in [copy : Copies, at : Nat \ {0}]
  /\ token \in [Threads -> [dir : Dirs \cup {NoDir, Unset}, copy : Copies]]
  /\ found \in [Threads -> Strings \cup {Unset}]
  /\ answers \in [Threads -> Seq(BOOLEAN)]
  /\ executable \subseteq Places
  /\ ever \in [Threads -> SUBSET Places]
  /\ always \in [Threads -> SUBSET Places]
  /\ alone \in [Threads -> BOOLEAN]

\* How far a thread is with its commands.
Counted(t) ==
  /\ nth[t] <= Len(Commands(role[t]))
  /\ pc[t] \in {"call", "first", "check", "next", "free"} => Len(answers[t]) = nth[t] - 1
  /\ pc[t] \in {"read", "test", "default", "return", "done"} => Len(answers[t]) = Len(Commands(role[t]))

\* A search that is alone holds its copy of PATH, and ever and always enclose what is there
\* now.
Enclosed(t) ==
  Searching(t) =>
    /\ alone[t] => CopyOf(t) \in whole
    /\ Of(t, executable) \subseteq ever[t]
    /\ Of(t, always[t]) \subseteq executable

\* What has not been looked for has not been there all along either.
NotYet(t) ==
  \A p \in always[t], i \in 1 .. Len(Commands(role[t])) :
    i > nth[t] \/ (i = nth[t] /\ pc[t] = "call") => p[2] # Commands(role[t])[i]

\* No directory before the k-th entry had the command all along.
Missed(t, k) ==
  \A j \in DOMAIN PATH : j < k /\ PATH[j] \in Fits => <<PATH[j], Command(t)>> \notin always[t]

\* A search that is alone has strtok's position to itself: it has looked in every entry
\* before it.
Position(t) ==
  Searching(t) /\ alone[t] =>
    /\ \A u \in Threads \ {t} : ~Searching(u)
    /\ pc[t] = "check" =>
         /\ saved.copy = CopyOf(t) /\ token[t].copy = CopyOf(t)
         /\ saved.at - 1 \in DOMAIN PATH /\ token[t].dir = PATH[saved.at - 1]
         /\ Missed(t, saved.at - 1)
    /\ pc[t] = "next" => saved.copy = CopyOf(t) /\ Missed(t, saved.at)
    /\ pc[t] = "free" /\ found[t] = Unset => Missed(t, Len(PATH) + 1)

FoundThere(t) ==
  /\ pc[t] \in {"first", "check", "next"} => found[t] = Unset
  /\ pc[t] = "free" /\ found[t] # Unset =>
       <<found[t], Command(t)>> \in ever[t] /\ (alone[t] => found[t] \in Dirs)

\* Each answer so far was true.
Answered(t) ==
  \A i \in 1 .. Len(answers[t]) :
    /\ answers[t][i] =>
         \E d \in Strings : <<d, Commands(role[t])[i]>> \in ever[t] /\ (alone[t] => d \in Dirs)
    /\ ~answers[t][i] /\ alone[t] => Absent(t, Commands(role[t])[i])

ThreadInv(t) ==
  Counted(t) /\ Enclosed(t) /\ NotYet(t) /\ Position(t) /\ FoundThere(t) /\ Answered(t)

SearchInv == SearchType /\ \A t \in Threads : ThreadInv(t)

-----------------------------------------------------------------------------
(* Constants *)

LEMMA PathFacts ==
  /\ Len(PATH) \in Nat /\ DOMAIN PATH = 1 .. Len(PATH)
  /\ \A j \in DOMAIN PATH : PATH[j] # NoDir => PATH[j] \in Dirs
  /\ Unset \notin Strings /\ NoDir \notin Strings
  /\ \A d \in Dirs : \E j \in DOMAIN PATH : d = PATH[j]
<1>1. Len(PATH) \in Nat /\ DOMAIN PATH = 1 .. Len(PATH)
  BY PathLookupAssumption
<1>. QED
  BY <1>1, PathLookupAssumption DEF Dirs, Strings

LEMMA CommandFacts ==
  ASSUME NEW r \in {"elevator", "distro"}
  PROVE  /\ Len(Commands(r)) \in {1, 2}
         /\ r = "elevator" => Len(Commands(r)) = 2 /\ Commands(r)[1] = "sudo" /\ Commands(r)[2] = "doas"
         /\ \A i, j \in 1 .. Len(Commands(r)) : i # j => Commands(r)[i] # Commands(r)[j]
<1>1. CASE r = "elevator"
  BY <1>1 DEF Commands
<1>2. CASE r = "distro"
  BY <1>2 DEF Commands
<1>. QED BY <1>1, <1>2

LEMMA NthFacts ==
  ASSUME SearchType, NEW t \in Threads, Counted(t)
  PROVE  /\ role[t] \in {"elevator", "distro"}
         /\ nth[t] \in 1 .. Len(Commands(role[t]))
         /\ \A i, j \in 1 .. Len(Commands(role[t])) :
              i # j => Commands(role[t])[i] # Commands(role[t])[j]
<1>1. role[t] \in {"elevator", "distro"} /\ nth[t] \in {1, 2}
  BY DEF SearchType
<1>2. Len(Commands(role[t])) \in {1, 2} /\ nth[t] <= Len(Commands(role[t]))
  BY <1>1, CommandFacts DEF Counted
<1>. QED
  BY <1>1, <1>2, CommandFacts

-----------------------------------------------------------------------------
(* Steps that leave a thread where it is *)

\* What may happen around a thread: commands come and go, other threads that it does not
\* know to be absent move strtok's position.
Undisturbed(u) ==
  /\ role'[u] = role[u] /\ pc'[u] = pc[u] /\ nth'[u] = nth[u] /\ token'[u] = token[u]
  /\ found'[u] = found[u] /\ answers'[u] = answers[u]
  /\ ever[u] \subseteq ever'[u] /\ always'[u] \subseteq always[u]
  /\ alone'[u] => alone[u]
  /\ Searching(u) =>
       /\ Of(u, executable') \subseteq ever'[u]
       /\ Of(u, always'[u]) \subseteq executable'
       /\ alone'[u] => /\ CopyOf(u) \in whole' /\ saved' = saved
                       /\ \A v \in Threads \ {u} : ~Searching(v)'

LEMMA Frame ==
  ASSUME NEW u \in Threads, ThreadInv(u), Undisturbed(u)
  PROVE  ThreadInv(u)'
<1>1. Counted(u)'
  BY DEF ThreadInv, Undisturbed, Counted
<1>2. Command(u)' = Command(u) /\ Searching(u)' = Searching(u) /\ CopyOf(u)' = CopyOf(u)
  BY DEF Undisturbed, Command, Searching, CopyOf
<1>3. Enclosed(u)'
  <2>1. SUFFICES ASSUME Searching(u)
                 PROVE  /\ alone'[u] => CopyOf(u) \in whole'
                        /\ {p \in executable' : p[2] = Command(u)} \subseteq ever'[u]
                        /\ {p \in always'[u] : p[2] = Command(u)} \subseteq executable'
    BY <1>2 DEF Enclosed, Of
  <2>. QED BY <2>1 DEF Undisturbed, Of
<1>4. NotYet(u)'
  BY DEF ThreadInv, Undisturbed, NotYet
<1>5. \A k : Missed(u, k) => Missed(u, k)'
  BY <1>2 DEF Undisturbed, Missed
<1>6. Position(u)'
  <2>1. SUFFICES ASSUME Searching(u), alone'[u] PROVE Position(u)'
    BY <1>2 DEF Position
  <2>2. alone[u] /\ saved' = saved /\ \A v \in Threads \ {u} : ~Searching(v)'
    BY <2>1 DEF Undisturbed
  <2>. QED
    BY <1>2, <1>5, <2>1, <2>2 DEF ThreadInv, Undisturbed, Position
<1>7. FoundThere(u)'
  BY <1>2 DEF ThreadInv, Undisturbed, FoundThere
<1>8. Answered(u)'
  BY DEF ThreadInv, Undisturbed, Answered, Absent
<1>. QED
  BY <1>1, <1>3, <1>4, <1>6, <1>7, <1>8 DEF ThreadInv

\* A step of t disturbs no other thread: one that is alone in its search is not there
\* when t searches.
LEMMA Others ==
  ASSUME SearchInv, NEW t \in Threads, NEW u \in Threads \ {t},
         role' = role, executable' = executable,
         pc'[u] = pc[u], nth'[u] = nth[u], token'[u] = token[u],
         found'[u] = found[u], answers'[u] = answers[u],
         ever'[u] = ever[u], always'[u] = always[u], alone'[u] => alone[u],
         \A v \in Threads \ {t} : Searching(v)' = Searching(v),
         \/ Searching(t)
         \/ alone'[u] => ~Searching(u)
         \/ saved' = saved /\ whole \subseteq whole' /\ ~Searching(t)'
  PROVE  ThreadInv(u)'
<1>1. ThreadInv(u)
  BY DEF SearchInv
<1>2. Searching(u) => /\ Of(u, executable') \subseteq ever'[u]
                      /\ Of(u, always'[u]) \subseteq executable'
  BY <1>1 DEF ThreadInv, Enclosed
<1>3. Searching(u) /\ alone'[u] => /\ CopyOf(u) \in whole' /\ saved' = saved
                                    /\ \A v \in Threads \ {u} : ~Searching(v)'
  BY <1>1 DEF ThreadInv, Position, Enclosed
<1>4. Undisturbed(u)
  BY <1>2, <1>3 DEF Undisturbed
<1>. QED
  BY <1>1, <1>4, Frame

\* So that remains of an action of t what it does to t.
LEMMA OwnStep ==
  ASSUME SearchInv, NEW t \in Threads, SearchType', ThreadInv(t)',
         \A u \in Threads \ {t} : ThreadInv(u)'
  PROVE  SearchInv'
BY DEF SearchInv

-----------------------------------------------------------------------------
(* The beginning *)

LEMMA SearchInitInv == ASSUME SearchInit PROVE SearchInv
<1>1. Wanted \subseteq Places
  BY DEF Wanted
<1>2. <<>> \in Seq(BOOLEAN) /\ Len(<<>>) = 0
  OBVIOUS
<1>3. SearchType
  BY <1>1, <1>2 DEF SearchInit, SearchType, Labels, Copies
<1>4. ASSUME NEW t \in Threads PROVE ThreadInv(t)
  <2>1. pc[t] = "call" /\ nth[t] = 1 /\ answers[t] = <<>> /\ always[t] = {}
    BY <1>4 DEF SearchInit
  <2>2. Len(Commands(role[t])) \in {1, 2}
    BY <1>3, CommandFacts DEF SearchType
  <2>3. Counted(t)
    <3>1. Len(answers[t]) = 0 /\ nth[t] - 1 = 0
      BY <1>2, <2>1
    <3>2. \A k \in {1, 2} : 1 <= k
      OBVIOUS
    <3>3. nth[t] <= Len(Commands(role[t]))
      BY <2>1, <2>2, <3>2, Zenon
    <3>. QED BY <2>1, <3>1, <3>3 DEF Counted
  <2>4. Answered(t)
    BY <1>2, <2>1 DEF Answered
  <2>. QED
    BY <2>1, <2>3, <2>4 DEF ThreadInv, Enclosed, NotYet, Position, FoundThere, Searching
<1>. QED BY <1>3, <1>4 DEF SearchInv

LEMMA CopyInv == ASSUME SearchInv, NEW t \in Threads, Copy(t) PROVE SearchInv'
<1>0. ThreadInv(t) /\ SearchType
  BY DEF SearchInv
<1>1. /\ pc[t] = "call" /\ pc' = [pc EXCEPT ![t] = "first"]
      /\ whole' = whole \cup {CopyOf(t)} /\ found' = [found EXCEPT ![t] = Unset]
      /\ ever' = [ever EXCEPT ![t] = @ \cup Of(t, executable)]
      /\ always' = [always EXCEPT ![t] = @ \cup Of(t, executable)]
      /\ UNCHANGED <<role, nth, saved, token, answers, executable>>
  BY DEF Copy, Goto
<1>2. /\ alone' \in [Threads -> BOOLEAN]
      /\ alone'[t] => alone[t] /\ \A v \in Threads \ {t} : ~Searching(v)
      /\ \A u \in Threads \ {t} : (alone'[u] => alone[u]) /\ (alone'[u] => ~Searching(u))
  <2>1. alone' = [u \in Threads |->
          alone[u] /\ IF u = t THEN \A v \in Threads \ {t} : ~Searching(v) ELSE ~Searching(u)]
    BY DEF Copy
  <2>. QED BY <2>1, Zenon
<1>3. Of(t, executable) \subseteq Places
  BY <1>0 DEF SearchType, Of
<1>4. SearchType'
  <2>1. CopyOf(t) \in Copies
    BY <1>0 DEF SearchType, CopyOf, Copies
  <2>. QED BY <1>0, <1>1, <1>2, <1>3, <2>1 DEF SearchType, Labels
<1>5. \A v \in Threads \ {t} : Searching(v)' = Searching(v)
  BY <1>0, <1>1 DEF SearchType, Searching
<1>6. ASSUME NEW u \in Threads \ {t} PROVE ThreadInv(u)'
  <2>1. /\ pc'[u] = pc[u] /\ found'[u] = found[u] /\ ever'[u] = ever[u] /\ always'[u] = always[u]
    BY <1>0, <1>1 DEF SearchType
  <2>. QED BY <1>1, <1>2, <1>5, <2>1, Others
<1>7. pc'[t] = "first" /\ found'[t] = Unset /\ Command(t)' = Command(t)
  BY <1>0, <1>1 DEF SearchType, Command
<1>8. always'[t] = always[t] \cup Of(t, executable) /\ ever'[t] = ever[t] \cup Of(t, executable)
  BY <1>0, <1>1 DEF SearchType
<1>9. Counted(t)'
  BY <1>0, <1>1, <1>7 DEF ThreadInv, Counted
<1>10. Enclosed(t)'
  <2>1. nth[t] \in 1 .. Len(Commands(role[t]))
    BY <1>0, NthFacts DEF ThreadInv
  <2>2. \A p \in always[t] : p[2] # Command(t)
    BY <1>0, <1>1, <2>1 DEF ThreadInv, NotYet, Command
  <2>3. CopyOf(t)' = CopyOf(t)
    BY <1>1 DEF CopyOf
  <2>. QED
    BY <1>1, <1>7, <1>8, <2>2, <2>3 DEF Enclosed, Of
<1>11. NotYet(t)'
  <2>1. SUFFICES ASSUME NEW p \in always'[t], NEW i \in 1 .. Len(Commands(role[t])), i > nth[t]
                 PROVE  p[2] # Commands(role[t])[i]
    BY <1>1, <1>7 DEF NotYet
  <2>2. CASE p \in always[t]
    BY <1>0, <2>1, <2>2 DEF ThreadInv, NotYet
  <2>3. CASE p \in Of(t, executable)
    <3>1. p[2] = Commands(role[t])[nth[t]]
      BY <2>3 DEF Of, Command
    <3>2. nth[t] \in 1 .. Len(Commands(role[t])) /\ nth[t] # i
      BY <1>0, <2>1, NthFacts DEF ThreadInv
    <3>. QED
      BY <1>0, <3>1, <3>2, NthFacts DEF ThreadInv
  <2>. QED BY <1>8, <2>2, <2>3
<1>12. Position(t)'
  BY <1>2, <1>5, <1>7 DEF Position
<1>13. FoundThere(t)'
  BY <1>7 DEF FoundThere
<1>14. Answered(t)'
  <2>1. SUFFICES ASSUME NEW i \in 1 .. Len(answers[t])
                 PROVE  /\ answers[t][i] => \E d \in Strings :
                             <<d, Commands(role[t])[i]>> \in ever'[t] /\ (alone'[t] => d \in Dirs)
                        /\ ~answers[t][i] /\ alone'[t] =>
                             \A d \in Dirs \cap Fits : <<d, Commands(role[t])[i]>> \notin always'[t]
    BY <1>1 DEF Answered, Absent
  <2>2. /\ i \in 1 .. Len(Commands(role[t])) /\ nth[t] \in 1 .. Len(Commands(role[t]))
        /\ i # nth[t]
    BY <1>0, <1>1, <2>1, NthFacts DEF ThreadInv, Counted
  <2>3. Commands(role[t])[i] # Command(t)
    BY <1>0, <2>2, NthFacts DEF ThreadInv, Command
  <2>. QED
    BY <1>0, <1>2, <1>8, <2>1, <2>3 DEF ThreadInv, Answered, Absent, Of
<1>15. ThreadInv(t)'
  BY <1>9, <1>10, <1>11, <1>12, <1>13, <1>14 DEF ThreadInv
<1>. QED
  BY <1>4, <1>6, <1>15, OwnStep
-----------------------------------------------------------------------------
(* strtok *)

\* What is between two tokens is empty entries.
LEMMA StrtokOwn ==
  ASSUME SearchType, NEW t \in Threads, NEW copy \in whole, NEW i \in Nat \ {0},
         Strtok(t, copy, i)
  PROVE  /\ whole' = whole /\ token'[t].copy = copy /\ saved'.copy = copy
         /\ \/ /\ token'[t].dir = Unset
               /\ \A k \in DOMAIN PATH : k >= i => PATH[k] = NoDir
            \/ /\ saved'.at - 1 \in DOMAIN PATH
               /\ token'[t].dir = PATH[saved'.at - 1] /\ token'[t].dir \in Dirs
               /\ \A k \in DOMAIN PATH : k >= i /\ k < saved'.at - 1 => PATH[k] = NoDir
<1>0. Len(PATH) \in Nat /\ DOMAIN PATH = 1 .. Len(PATH) /\ whole' = whole
  BY PathFacts DEF Strtok
<1>1. CASE Tokens(i) = {}
  <2>1. token' = [token EXCEPT ![t] = [dir |-> Unset, copy |-> copy]] /\ saved'.copy = copy
    BY <1>1 DEF Strtok
  <2>2. token'[t] = [dir |-> Unset, copy |-> copy]
    BY <2>1 DEF SearchType
  <2>3. \A k \in DOMAIN PATH : k >= i => PATH[k] = NoDir
    BY <1>0, <1>1 DEF Tokens
  <2>. QED BY <1>0, <2>1, <2>2, <2>3
<1>2. CASE Tokens(i) # {}
  <2>1. PICK j \in Tokens(i) :
          /\ \A k \in Tokens(i) : j <= k
          /\ token' = [token EXCEPT ![t] = [dir |-> PATH[j], copy |-> copy]]
          /\ saved' = [copy |-> copy, at |-> j + 1]
    BY <1>2 DEF Strtok
  <2>2. j \in DOMAIN PATH /\ j \in Nat /\ PATH[j] # NoDir
    BY <1>0 DEF Tokens
  <2>3. token'[t] = [dir |-> PATH[j], copy |-> copy]
    BY <2>1 DEF SearchType
  <2>4. saved'.at - 1 = j /\ saved'.copy = copy
    BY <2>1, <2>2
  <2>5. \A k \in DOMAIN PATH : k >= i /\ k < j => PATH[k] = NoDir
    BY <1>0, <2>1, <2>2 DEF Tokens
  <2>. QED
    BY <1>0, <2>2, <2>3, <2>4, <2>5, PathFacts
<1>. QED BY <1>1, <1>2

\* A token of some kind, of copy.
TokenOf(t, copy) ==
  /\ saved' \in [copy : Copies, at : Nat \ {0}] /\ whole' \subseteq Copies
  /\ \E d \in Dirs \cup {NoDir, Unset} : token' = [token EXCEPT ![t] = [dir |-> d, copy |-> copy]]

LEMMA StrtokType ==
  ASSUME SearchType, NEW t \in Threads, NEW copy \in Copies, NEW i \in Nat \ {0},
         Strtok(t, copy, i)
  PROVE  TokenOf(t, copy)
<1>0. Len(PATH) \in Nat /\ DOMAIN PATH = 1 .. Len(PATH) /\ whole' \subseteq Copies
  BY PathFacts DEF SearchType, Strtok
<1>1. CASE copy \in whole /\ Tokens(i) = {}
  <2>1. /\ token' = [token EXCEPT ![t] = [dir |-> Unset, copy |-> copy]]
        /\ saved' = [copy |-> copy, at |-> Len(PATH) + 1]
    BY <1>1 DEF Strtok
  <2>2. Len(PATH) + 1 \in Nat \ {0}
    BY <1>0
  <2>. QED BY <1>0, <2>1, <2>2 DEF TokenOf
<1>2. CASE copy \in whole /\ Tokens(i) # {}
  <2>1. PICK j \in Tokens(i) :
          /\ token' = [token EXCEPT ![t] = [dir |-> PATH[j], copy |-> copy]]
          /\ saved' = [copy |-> copy, at |-> j + 1]
    BY <1>2 DEF Strtok
  <2>2. j + 1 \in Nat \ {0} /\ PATH[j] \in Dirs \cup {NoDir, Unset}
    BY <1>0, PathFacts DEF Tokens
  <2>3. saved' \in [copy : Copies, at : Nat \ {0}]
    BY <2>1, <2>2
  <2>. QED BY <1>0, <2>1, <2>2, <2>3 DEF TokenOf
<1>3. CASE copy \notin whole
  BY <1>0, <1>3 DEF Strtok, Rubbish, TokenOf, SearchType
<1>. QED BY <1>1, <1>2, <1>3

\* A step of strtok in a search whose entries before position i are known to miss.
LEMMA TokenStep ==
  ASSUME SearchInv, NEW t \in Threads, NEW copy \in Copies, NEW i \in Nat \ {0},
         pc[t] \in {"first", "next"}, TokenOf(t, copy),
         alone[t] => copy = CopyOf(t) /\ Missed(t, i) /\ Strtok(t, copy, i),
         pc' = [pc EXCEPT ![t] = IF token'[t].dir = Unset THEN "free" ELSE "check"],
         UNCHANGED <<role, nth, found, answers, executable, ever, always, alone>>
  PROVE  SearchInv'
<1>0. ThreadInv(t) /\ SearchType /\ Searching(t)
  BY DEF SearchInv, Searching
<1>1. PICK d \in Dirs \cup {NoDir, Unset} : token' = [token EXCEPT ![t] = [dir |-> d, copy |-> copy]]
  BY DEF TokenOf
<1>2. SearchType'
  BY <1>0, <1>1 DEF SearchType, Labels, TokenOf
<1>3. pc'[t] \in {"check", "free"} /\ (pc'[t] = "free" <=> token'[t].dir = Unset)
  BY <1>0 DEF SearchType
<1>4. \A v \in Threads \ {t} : pc'[v] = pc[v] /\ token'[v] = token[v]
  BY <1>0, <1>1 DEF SearchType
<1>5. /\ Searching(t)' /\ Command(t)' = Command(t) /\ CopyOf(t)' = CopyOf(t)
      /\ \A v \in Threads \ {t} : Searching(v)' = Searching(v)
  BY <1>3, <1>4 DEF Searching, Command, CopyOf
<1>6. ASSUME NEW u \in Threads \ {t} PROVE ThreadInv(u)'
  BY <1>0, <1>4, <1>5, Others
<1>7. Counted(t)' /\ NotYet(t)' /\ Answered(t)'
  BY <1>0, <1>3 DEF ThreadInv, Counted, NotYet, Answered, Absent
<1>8. Enclosed(t)'
  <2>1. alone[t] => CopyOf(t) \in whole'
    <3>1. alone[t] => CopyOf(t) \in whole /\ Strtok(t, CopyOf(t), i)
      BY <1>0 DEF ThreadInv, Enclosed
    <3>. QED BY <1>0, <3>1, StrtokOwn
  <2>. QED BY <1>0, <1>5, <2>1 DEF ThreadInv, Enclosed, Of
<1>9. found[t] = Unset
  BY <1>0 DEF ThreadInv, FoundThere
<1>10. FoundThere(t)'
  BY <1>9 DEF FoundThere
<1>11. Position(t)'
  <2>1. SUFFICES ASSUME alone[t] PROVE Position(t)'
    BY DEF Position
  <2>2. CopyOf(t) \in whole /\ \A v \in Threads \ {t} : ~Searching(v)'
    BY <1>0, <1>5, <2>1 DEF ThreadInv, Enclosed, Position
  <2>3. copy = CopyOf(t) /\ Missed(t, i) /\ Strtok(t, CopyOf(t), i)
    BY <2>1
  <2>4. \A j \in DOMAIN PATH : PATH[j] = NoDir => <<PATH[j], Command(t)>> \notin always[t]
    BY <1>0, PathFacts DEF SearchType, Places
  <2>5. CASE token'[t].dir = Unset
    <3>1. \A k \in DOMAIN PATH : k >= i => PATH[k] = NoDir
      <4>1. Unset \notin Dirs
        BY PathFacts DEF Strings
      <4>. QED BY <1>0, <2>2, <2>3, <2>5, <4>1, StrtokOwn
    <3>2. Missed(t, Len(PATH) + 1)'
      BY <1>5, <2>3, <2>4, <3>1, PathFacts DEF Missed
    <3>. QED
      BY <1>3, <2>2, <2>5, <3>2 DEF Position
  <2>6. CASE token'[t].dir # Unset
    <3>1. /\ token'[t].copy = CopyOf(t) /\ saved'.copy = CopyOf(t)
          /\ saved'.at - 1 \in DOMAIN PATH
          /\ token'[t].dir = PATH[saved'.at - 1]
          /\ \A k \in DOMAIN PATH : k >= i /\ k < saved'.at - 1 => PATH[k] = NoDir
      BY <1>0, <2>2, <2>3, <2>6, StrtokOwn
    <3>2. PICK n \in DOMAIN PATH : saved'.at - 1 = n
      BY <3>1
    <3>3. \A j \in DOMAIN PATH :
            j < n /\ PATH[j] \in Fits => <<PATH[j], Command(t)>> \notin always[t]
      <4>1. SUFFICES ASSUME NEW j \in DOMAIN PATH, j < n, PATH[j] \in Fits
                     PROVE  <<PATH[j], Command(t)>> \notin always[t]
        OBVIOUS
      <4>2. CASE j < i
        BY <2>3, <4>1, <4>2 DEF Missed
      <4>3. CASE ~(j < i)
        <5>1. j >= i
          BY <4>3, PathFacts
        <5>. QED BY <2>4, <3>1, <3>2, <4>1, <5>1
      <4>. QED BY <4>2, <4>3
    <3>4. Missed(t, saved.at - 1)'
      BY <1>5, <3>2, <3>3 DEF Missed
    <3>5. pc'[t] = "check"
      BY <1>3, <2>6
    <3>. QED
      BY <1>5, <2>2, <3>1, <3>4, <3>5 DEF Position
  <2>. QED BY <2>5, <2>6
<1>12. ThreadInv(t)'
  BY <1>7, <1>8, <1>10, <1>11 DEF ThreadInv
<1>. QED
  BY <1>2, <1>6, <1>12, OwnStep

LEMMA FirstTokenInv == ASSUME SearchInv, NEW t \in Threads, FirstToken(t) PROVE SearchInv'
<1>0. SearchType /\ ThreadInv(t) /\ pc[t] = "first" /\ Searching(t)
  BY DEF SearchInv, FirstToken, Searching
<1>1. CopyOf(t) \in Copies /\ 1 \in Nat \ {0}
  BY <1>0 DEF SearchType, CopyOf, Copies
<1>2. Missed(t, 1)
  BY PathFacts DEF Missed
<1>3. /\ pc' = [pc EXCEPT ![t] = IF token'[t].dir = Unset THEN "free" ELSE "check"]
      /\ UNCHANGED <<role, nth, found, answers, executable, ever, always, alone>>
  BY DEF FirstToken, Goto
<1>4. CopyOf(t) \in whole => Strtok(t, CopyOf(t), 1)
  BY DEF FirstToken
<1>5. CopyOf(t) \notin whole =>
        /\ Rubbish(t, CopyOf(t)) /\ saved' = [copy |-> CopyOf(t), at |-> 1] /\ whole' = whole
  BY DEF FirstToken
<1>6. TokenOf(t, CopyOf(t))
  <2>1. CASE CopyOf(t) \in whole
    BY <1>0, <1>1, <1>4, <2>1, StrtokType
  <2>2. CASE CopyOf(t) \notin whole
    BY <1>0, <1>1, <1>5, <2>2 DEF TokenOf, Rubbish, SearchType
  <2>. QED BY <2>1, <2>2
<1>7. alone[t] => Strtok(t, CopyOf(t), 1)
  BY <1>0, <1>4 DEF ThreadInv, Enclosed
<1>. QED
  BY <1>0, <1>1, <1>2, <1>3, <1>6, <1>7, TokenStep

LEMMA NextTokenInv == ASSUME SearchInv, NEW t \in Threads, NextToken(t) PROVE SearchInv'
<1>1. pc[t] = "next" /\ Strtok(t, saved.copy, saved.at) /\ SearchType
  BY DEF NextToken, SearchInv
<1>2. saved.copy \in Copies /\ saved.at \in Nat \ {0}
  BY DEF SearchInv, SearchType
<1>3. alone[t] => saved.copy = CopyOf(t) /\ Missed(t, saved.at)
  BY <1>1 DEF SearchInv, ThreadInv, Position, Searching
<1>4. /\ pc' = [pc EXCEPT ![t] = IF token'[t].dir = Unset THEN "free" ELSE "check"]
      /\ UNCHANGED <<role, nth, found, answers, executable, ever, always, alone>>
  BY DEF NextToken, Goto
<1>5. TokenOf(t, saved.copy)
  BY <1>1, <1>2, StrtokType
<1>. QED
  BY <1>1, <1>2, <1>3, <1>4, <1>5, TokenStep

-----------------------------------------------------------------------------
(* The other steps of a search *)

LEMMA CheckInv == ASSUME SearchInv, NEW t \in Threads, Check(t) PROVE SearchInv'
<1>0. ThreadInv(t) /\ SearchType /\ Searching(t) /\ pc[t] = "check"
  BY DEF SearchInv, Searching, Check
<1>1. PICK d \in IF token[t].copy \in whole THEN {token[t].dir} ELSE Strings \cup {Unset} :
        LET here == d \in Fits /\ <<d, Command(t)>> \in executable
        IN  /\ found' = [found EXCEPT ![t] = IF here THEN d ELSE Unset]
            /\ pc' = [pc EXCEPT ![t] = IF here THEN "free" ELSE "next"]
  BY DEF Check, Goto
<1>2. UNCHANGED <<role, nth, whole, saved, token, answers, executable, ever, always, alone>>
  BY DEF Check
<1> DEFINE here == d \in Fits /\ <<d, Command(t)>> \in executable
<1>3. /\ found'[t] = IF here THEN d ELSE Unset
      /\ pc'[t] = IF here THEN "free" ELSE "next"
      /\ \A u \in Threads \ {t} : pc'[u] = pc[u] /\ found'[u] = found[u]
  BY <1>0, <1>1 DEF SearchType
<1>4. here => d \in Strings
  BY <1>0 DEF SearchType, Places
<1>5. SearchType'
  BY <1>0, <1>1, <1>2, <1>4 DEF SearchType, Labels
<1>6. /\ Command(t)' = Command(t) /\ CopyOf(t)' = CopyOf(t)
      /\ \A v \in Threads : Searching(v)' = Searching(v)
  BY <1>0, <1>2, <1>3 DEF Searching, Command, CopyOf
<1>7. ASSUME NEW u \in Threads \ {t} PROVE ThreadInv(u)'
  BY <1>0, <1>2, <1>3, <1>6, Others
<1>8. Counted(t)' /\ NotYet(t)' /\ Answered(t)'
  BY <1>0, <1>2, <1>3 DEF ThreadInv, Counted, NotYet, Answered, Absent
<1>9. Enclosed(t)'
  BY <1>0, <1>2, <1>6 DEF ThreadInv, Enclosed, Of
<1>10. FoundThere(t)'
  <2>1. here => <<d, Command(t)>> \in ever[t]
    BY <1>0 DEF ThreadInv, Enclosed, Of
  <2>2. here /\ alone[t] => d \in Dirs
    <3>1. SUFFICES ASSUME here, alone[t] PROVE d \in Dirs
      OBVIOUS
    <3>2. token[t].copy \in whole /\ d = token[t].dir
      BY <1>0, <3>1 DEF ThreadInv, Position, Enclosed
    <3>3. d \in {PATH[j] : j \in DOMAIN PATH}
      BY <1>0, <3>1, <3>2 DEF ThreadInv, Position
    <3>4. d # NoDir
      BY <1>4, <3>1, PathFacts
    <3>. QED BY <3>3, <3>4 DEF Dirs
  <2>. QED BY <1>2, <1>3, <1>6, <2>1, <2>2 DEF FoundThere
<1>11. Position(t)'
  <2>1. SUFFICES ASSUME alone[t] PROVE Position(t)'
    BY <1>2 DEF Position
  <2>2. /\ \A u \in Threads \ {t} : ~Searching(u)
        /\ saved.copy = CopyOf(t) /\ token[t].copy = CopyOf(t)
        /\ saved.at - 1 \in DOMAIN PATH /\ token[t].dir = PATH[saved.at - 1]
        /\ Missed(t, saved.at - 1)
    BY <1>0, <2>1 DEF ThreadInv, Position
  <2>3. CASE here
    <3>1. found'[t] # Unset /\ pc'[t] = "free"
      BY <1>3, <1>4, <2>3, PathFacts
    <3>. QED BY <1>6, <2>2, <3>1 DEF Position
  <2>4. CASE ~here
    <3>1. d = PATH[saved.at - 1]
      BY <1>0, <2>1, <2>2 DEF ThreadInv, Enclosed
    <3>2. d \in Fits => <<d, Command(t)>> \notin always[t]
      BY <1>0, <2>4 DEF ThreadInv, Enclosed, Of
    <3>3. ASSUME NEW j \in DOMAIN PATH, j < saved.at, PATH[j] \in Fits
          PROVE  <<PATH[j], Command(t)>> \notin always[t]
      <4>1. j < saved.at - 1 \/ j = saved.at - 1
        <5>1. saved.at \in Nat /\ j \in Nat
          BY <1>0, PathFacts DEF SearchType
        <5>. QED BY <3>3, <5>1
      <4>. QED BY <2>2, <3>1, <3>2, <3>3, <4>1 DEF Missed
    <3>4. Missed(t, saved.at)'
      BY <1>2, <1>6, <3>3 DEF Missed
    <3>5. pc'[t] = "next"
      BY <1>3, <2>4
    <3>. QED BY <1>2, <1>6, <2>2, <3>4, <3>5 DEF Position
  <2>. QED BY <2>3, <2>4
<1>12. ThreadInv(t)'
  BY <1>8, <1>9, <1>10, <1>11 DEF ThreadInv
<1>. QED
  BY <1>5, <1>7, <1>12, OwnStep

LEMMA FreeInv == ASSUME SearchInv, NEW t \in Threads, Free(t) PROVE SearchInv'
<1>0. ThreadInv(t) /\ SearchType /\ Searching(t) /\ pc[t] = "free"
  BY DEF SearchInv, Searching, Free
<1>1. /\ whole' = whole \ {CopyOf(t)}
      /\ answers' = [answers EXCEPT ![t] = Append(@, command_exists(t))]
      /\ UNCHANGED <<role, saved, token, found, executable, ever, always, alone>>
  BY DEF Free
<1> DEFINE n == Len(Commands(role[t]))
<1>2. n \in {1, 2} /\ nth[t] \in 1 .. n /\ Len(answers[t]) = nth[t] - 1
  BY <1>0, NthFacts, CommandFacts DEF ThreadInv, Counted
<1>3. /\ nth[t] < n => nth' = [nth EXCEPT ![t] = @ + 1] /\ pc' = [pc EXCEPT ![t] = "call"]
      /\ ~(nth[t] < n) => /\ nth' = nth
                          /\ pc' = [pc EXCEPT ![t] = IF role[t] = "elevator" THEN "done" ELSE "read"]
  BY DEF Free, Goto
<1>4. /\ nth[t] < n => nth'[t] = nth[t] + 1 /\ pc'[t] = "call"
      /\ ~(nth[t] < n) => nth'[t] = nth[t] /\ pc'[t] \in {"done", "read"} /\ nth[t] = n
  BY <1>0, <1>2, <1>3 DEF SearchType
<1>5. /\ answers'[t] = Append(answers[t], command_exists(t))
      /\ Len(answers'[t]) = nth[t]
      /\ \A i \in 1 .. nth[t] - 1 : answers'[t][i] = answers[t][i]
      /\ answers'[t][nth[t]] = command_exists(t)
  <2>1. answers[t] \in Seq(BOOLEAN) /\ command_exists(t) \in BOOLEAN
    BY <1>0 DEF SearchType, command_exists
  <2>2. answers'[t] = Append(answers[t], command_exists(t))
    BY <1>0, <1>1 DEF SearchType
  <2>3. Len(answers'[t]) = Len(answers[t]) + 1 /\ nth[t] \in Nat
    BY <1>2, <2>1, <2>2
  <2>4. \A i \in 1 .. Len(answers[t]) : answers'[t][i] = answers[t][i]
    BY <2>1, <2>2
  <2>5. answers'[t][Len(answers[t]) + 1] = command_exists(t)
    BY <2>1, <2>2
  <2>6. Len(answers[t]) + 1 = nth[t]
    BY <1>2, <2>3
  <2>. QED BY <1>2, <2>2, <2>3, <2>4, <2>5, <2>6
<1>6. SearchType'
  <2>1. answers' \in [Threads -> Seq(BOOLEAN)]
    <3>1. command_exists(t) \in BOOLEAN
      BY DEF command_exists
    <3>2. Append(answers[t], command_exists(t)) \in Seq(BOOLEAN)
      BY <1>0, <3>1 DEF SearchType
    <3>. QED BY <1>0, <1>1, <3>2 DEF SearchType
  <2>2. nth' \in [Threads -> {1, 2}]
    <3>1. nth[t] < n => nth[t] + 1 \in {1, 2}
      <4>1. \A a, b \in {1, 2} : a < b => a + 1 \in {1, 2}
        OBVIOUS
      <4>2. nth[t] \in {1, 2} /\ n \in {1, 2}
        BY <1>0, <1>2 DEF SearchType
      <4>. QED BY <4>1, <4>2, Zenon
    <3>. QED BY <1>0, <1>3, <3>1 DEF SearchType
  <2>3. pc' \in [Threads -> Labels]
    <3>1. \A l \in {"call", "done", "read"} : [pc EXCEPT ![t] = l] \in [Threads -> Labels]
      BY <1>0 DEF SearchType, Labels
    <3>2. \E l \in {"call", "done", "read"} : pc' = [pc EXCEPT ![t] = l]
      BY <1>3
    <3>. QED BY <3>1, <3>2
  <2>. QED BY <1>0, <1>1, <2>1, <2>2, <2>3 DEF SearchType
<1>7. ~Searching(t)' /\ \A v \in Threads \ {t} : Searching(v)' = Searching(v)
  BY <1>0, <1>3, <1>4 DEF SearchType, Searching
<1>8. ASSUME NEW u \in Threads \ {t} PROVE ThreadInv(u)'
  <2>1. pc'[u] = pc[u] /\ nth'[u] = nth[u] /\ answers'[u] = answers[u]
    BY <1>0, <1>1, <1>3 DEF SearchType
  <2>. QED BY <1>0, <1>1, <1>7, <2>1, Others
<1>9. Counted(t)'
  <2>1. nth'[t] <= n /\ Commands(role'[t]) = Commands(role[t])
    BY <1>1, <1>2, <1>4
  <2>2. pc'[t] = "call" => Len(answers'[t]) = nth'[t] - 1
    BY <1>2, <1>4, <1>5
  <2>3. pc'[t] \in {"done", "read"} => Len(answers'[t]) = n
    BY <1>2, <1>4, <1>5
  <2>. QED BY <1>4, <2>1, <2>2, <2>3 DEF Counted
<1>10. Enclosed(t)' /\ Position(t)'
  BY <1>7 DEF Enclosed, Position
<1>11. FoundThere(t)'
  BY <1>4 DEF FoundThere
<1>12. NotYet(t)'
  <2>1. SUFFICES ASSUME NEW p \in always[t], NEW i \in 1 .. n,
                        i > nth'[t] \/ (i = nth'[t] /\ pc'[t] = "call")
                 PROVE  p[2] # Commands(role[t])[i]
    BY <1>1 DEF NotYet
  <2>2. i > nth[t]
    BY <1>2, <1>4, <2>1
  <2>. QED BY <1>0, <2>2 DEF ThreadInv, NotYet
<1>13. Answered(t)'
  <2>1. SUFFICES ASSUME NEW i \in 1 .. nth[t]
                 PROVE  /\ answers'[t][i] => \E d \in Strings :
                             <<d, Commands(role[t])[i]>> \in ever[t] /\ (alone[t] => d \in Dirs)
                        /\ ~answers'[t][i] /\ alone[t] =>
                             \A d \in Dirs \cap Fits : <<d, Commands(role[t])[i]>> \notin always[t]
    BY <1>1, <1>5 DEF Answered, Absent
  <2>2. CASE i = nth[t]
    <3>1. answers'[t][i] = command_exists(t) /\ Commands(role[t])[i] = Command(t)
      BY <1>5, <2>2 DEF Command
    <3>2. command_exists(t) => /\ found[t] \in Strings /\ (alone[t] => found[t] \in Dirs)
                               /\ <<found[t], Command(t)>> \in ever[t]
      BY <1>0 DEF ThreadInv, FoundThere, command_exists, SearchType
    <3>3. ASSUME ~command_exists(t), alone[t], NEW d \in Dirs \cap Fits
          PROVE  <<d, Command(t)>> \notin always[t]
      <4>1. Missed(t, Len(PATH) + 1)
        BY <1>0, <3>3 DEF ThreadInv, Position, command_exists
      <4>2. PICK j \in DOMAIN PATH : d = PATH[j]
        BY PathFacts
      <4>3. j < Len(PATH) + 1
        BY PathFacts
      <4>. QED BY <4>1, <4>2, <4>3 DEF Missed
    <3>. QED BY <3>1, <3>2, <3>3
  <2>3. CASE i # nth[t]
    <3>1. i \in 1 .. Len(answers[t]) /\ answers'[t][i] = answers[t][i]
      BY <1>2, <1>5, <2>3
    <3>. QED BY <1>0, <3>1 DEF ThreadInv, Answered, Absent
  <2>. QED BY <2>2, <2>3
<1>14. ThreadInv(t)'
  BY <1>9, <1>10, <1>11, <1>12, <1>13 DEF ThreadInv
<1>. QED
  BY <1>6, <1>8, <1>14, OwnStep

-----------------------------------------------------------------------------
(* Outside of the search *)

LEMMA DistroCallInv ==
  ASSUME SearchInv, NEW t \in Threads, ReadName(t) \/ TestOs(t) \/ DefaultOs(t) \/ ReturnOs(t)
  PROVE  SearchInv'
<1>0. ThreadInv(t) /\ SearchType
  BY DEF SearchInv
<1>1. /\ pc[t] \in {"read", "test", "default", "return"}
      /\ \E l \in {"test", "default", "return", "done"} : pc' = [pc EXCEPT ![t] = l]
      /\ UNCHANGED <<role, nth, whole, saved, token, found, answers, executable, ever, always, alone>>
  BY DEF ReadName, TestOs, DefaultOs, ReturnOs, Goto
<1>2. SearchType'
  BY <1>0, <1>1 DEF SearchType, Labels
<1>3. /\ pc'[t] \in {"test", "default", "return", "done"}
      /\ \A u \in Threads \ {t} : pc'[u] = pc[u]
  BY <1>0, <1>1 DEF SearchType
<1>4. ~Searching(t)' /\ \A v \in Threads \ {t} : Searching(v)' = Searching(v)
  BY <1>3 DEF Searching
<1>5. ASSUME NEW u \in Threads \ {t} PROVE ThreadInv(u)'
  BY <1>1, <1>3, <1>4, Others
<1>6. ThreadInv(t)'
  BY <1>0, <1>1, <1>3, <1>4
     DEF ThreadInv, Counted, Enclosed, NotYet, Position, FoundThere, Answered, Absent
<1>. QED
  BY <1>2, <1>5, <1>6, OwnStep

LEMMA CrashInv == ASSUME SearchInv, NEW t \in Threads, Crash(t) PROVE SearchInv'
<1>0. SearchType
  BY DEF SearchInv
<1>1. /\ pc' = [u \in Threads |-> "crashed"]
      /\ UNCHANGED <<role, nth, whole, saved, token, found, answers, executable, ever, always, alone>>
  BY DEF Crash
<1>2. SearchType'
  BY <1>0, <1>1 DEF SearchType, Labels
<1>3. ASSUME NEW u \in Threads PROVE ThreadInv(u)'
  <2>1. ThreadInv(u) /\ pc'[u] = "crashed"
    BY <1>1 DEF SearchInv
  <2>2. ~Searching(u)'
    BY <2>1 DEF Searching
  <2>. QED
    BY <1>1, <2>1, <2>2
       DEF ThreadInv, Counted, Enclosed, NotYet, Position, FoundThere, Answered, Absent
<1>. QED BY <1>2, <1>3 DEF SearchInv

LEMMA ChangeInv == ASSUME SearchInv, Change PROVE SearchInv'
<1>0. SearchType
  BY DEF SearchInv
<1>1. UNCHANGED <<role, pc, nth, whole, saved, token, found, answers, alone>>
  BY DEF Change
<1>2. executable' \subseteq Places
  <2>1. PICK f \in Wanted :
          executable' = IF f \in executable THEN executable \ {f} ELSE executable \cup {f}
    BY DEF Change
  <2>2. f \in Places
    BY DEF Wanted
  <2>. QED BY <1>0, <2>1, <2>2 DEF SearchType
<1>3. ASSUME NEW t \in Threads
      PROVE  /\ ever'[t] = IF Searching(t) THEN ever[t] \cup Of(t, executable') ELSE ever[t]
             /\ always'[t] = IF Searching(t) THEN always[t] \ Of(t, Places \ executable') ELSE always[t]
  BY DEF Change
<1>4. SearchType'
  <2>1. ever' \in [Threads -> SUBSET Places]
    <3>1. ever' = [t \in Threads |->
            IF Searching(t) THEN ever[t] \cup Of(t, executable') ELSE ever[t]]
      BY DEF Change
    <3>2. \A t \in Threads : ever[t] \subseteq Places /\ Of(t, executable') \subseteq Places
      BY <1>0, <1>2 DEF SearchType, Of
    <3>. QED BY <3>1, <3>2
  <2>2. always' \in [Threads -> SUBSET Places]
    <3>1. always' = [t \in Threads |->
            IF Searching(t) THEN always[t] \ Of(t, Places \ executable') ELSE always[t]]
      BY DEF Change
    <3>2. \A t \in Threads : always[t] \subseteq Places
      BY <1>0 DEF SearchType
    <3>. QED BY <3>1, <3>2
  <2>. QED BY <1>0, <1>1, <1>2, <2>1, <2>2 DEF SearchType
<1>5. ASSUME NEW u \in Threads PROVE ThreadInv(u)'
  <2>1. ThreadInv(u) /\ always[u] \subseteq Places
    BY <1>0 DEF SearchInv, SearchType
  <2>2. ever[u] \subseteq ever'[u] /\ always'[u] \subseteq always[u]
    BY <1>3
  <2>3. Searching(u) => Of(u, executable') \subseteq ever'[u]
    BY <1>3
  <2>4. Searching(u) => Of(u, always'[u]) \subseteq executable'
    BY <1>3, <2>1 DEF Of
  <2>5. CopyOf(u)' = CopyOf(u) /\ \A v \in Threads : Searching(v)' = Searching(v)
    BY <1>1 DEF Searching, CopyOf
  <2>6. Searching(u) /\ alone'[u] =>
          CopyOf(u) \in whole' /\ \A v \in Threads \ {u} : ~Searching(v)'
    BY <1>1, <2>1, <2>5 DEF ThreadInv, Enclosed, Position
  <2>7. Undisturbed(u)
    BY <1>1, <2>2, <2>3, <2>4, <2>6 DEF Undisturbed
  <2>. QED BY <2>1, <2>7, Frame
<1>. QED BY <1>4, <1>5 DEF SearchInv

LEMMA SearchStutter == ASSUME SearchInv, UNCHANGED searchVars PROVE SearchInv'
<1>1. UNCHANGED <<role, pc, nth, whole, saved, token, found, answers, executable, ever, always,
                  alone>>
  BY DEF searchVars
<1>2. SearchType'
  BY <1>1 DEF SearchInv, SearchType
<1>3. ASSUME NEW u \in Threads PROVE ThreadInv(u)'
  <2>1. ThreadInv(u) /\ \A v \in Threads : Searching(v)' = Searching(v)
    BY <1>1 DEF SearchInv, Searching
  <2>2. Undisturbed(u)
    BY <1>1, <2>1 DEF Undisturbed, ThreadInv, Enclosed, Position
  <2>. QED BY <2>1, <2>2, Frame
<1>. QED BY <1>2, <1>3 DEF SearchInv

LEMMA SearchStep == ASSUME SearchInv, [SearchNext]_searchVars PROVE SearchInv'
<1>1. ASSUME NEW t \in Threads,
             \/ Copy(t) \/ FirstToken(t) \/ NextToken(t) \/ Check(t) \/ Free(t)
             \/ Crash(t) \/ ReadName(t) \/ TestOs(t) \/ DefaultOs(t) \/ ReturnOs(t)
      PROVE  SearchInv'
  BY <1>1, CopyInv, FirstTokenInv, NextTokenInv, CheckInv, FreeInv, CrashInv, DistroCallInv
<1>. QED
  BY <1>1, ChangeInv, SearchStutter DEF SearchNext

-----------------------------------------------------------------------------
(* Theorems *)

\* The searches of any threads keep the invariant.
THEOREM SearchInvariant == SearchSpec => []SearchInv
<1>1. SearchInit => SearchInv
  BY SearchInitInv
<1>2. SearchInv /\ [SearchNext]_searchVars => SearchInv'
  BY SearchStep
<1>. QED
  BY <1>1, <1>2, PTL DEF SearchSpec

\* What is said of a thread's searches.
LEMMA FoundTruly ==
  ASSUME SearchInv, NEW t \in Threads, pc[t] = "free"
  PROVE  /\ command_exists(t) => which(t) \in ever[t] /\ (alone[t] => found[t] \in Dirs)
         /\ ~command_exists(t) /\ alone[t] => Absent(t, Command(t))
<1>1. ThreadInv(t) /\ SearchType
  BY DEF SearchInv
<1>2. ASSUME command_exists(t) PROVE which(t) \in ever[t] /\ (alone[t] => found[t] \in Dirs)
  BY <1>1, <1>2 DEF ThreadInv, FoundThere, command_exists, which
<1>3. ASSUME ~command_exists(t), alone[t], NEW d \in Dirs \cap Fits
      PROVE  <<d, Command(t)>> \notin always[t]
  <2>1. Missed(t, Len(PATH) + 1)
    BY <1>1, <1>3 DEF ThreadInv, Position, command_exists, Searching
  <2>2. PICK j \in DOMAIN PATH : d = PATH[j]
    BY PathFacts
  <2>3. j < Len(PATH) + 1
    BY PathFacts
  <2>. QED BY <2>1, <2>2, <2>3 DEF Missed
<1>. QED BY <1>2, <1>3 DEF Absent

LEMMA ElevatorTruly ==
  ASSUME SearchInv, NEW t \in Threads, pc[t] = "done", role[t] = "elevator"
  PROVE  /\ determine_elevator(t) # "neither" =>
              \E d \in Strings : /\ <<d, determine_elevator(t)>> \in ever[t]
                                 /\ alone[t] => d \in Dirs
         /\ determine_elevator(t) # "doas" /\ alone[t] => Absent(t, "doas")
         /\ determine_elevator(t) = "neither" /\ alone[t] => Absent(t, "sudo")
<1>1. ThreadInv(t) /\ SearchType
  BY DEF SearchInv
<1>2. Len(answers[t]) = 2 /\ Commands(role[t])[1] = "sudo" /\ Commands(role[t])[2] = "doas"
  BY <1>1, CommandFacts DEF ThreadInv, Counted
<1>3. 1 \in 1 .. Len(answers[t]) /\ 2 \in 1 .. Len(answers[t])
  BY <1>2
<1>4. /\ answers[t][1] => \E d \in Strings : <<d, "sudo">> \in ever[t] /\ (alone[t] => d \in Dirs)
      /\ answers[t][2] => \E d \in Strings : <<d, "doas">> \in ever[t] /\ (alone[t] => d \in Dirs)
      /\ ~answers[t][1] /\ alone[t] => Absent(t, "sudo")
      /\ ~answers[t][2] /\ alone[t] => Absent(t, "doas")
  BY <1>1, <1>2, <1>3 DEF ThreadInv, Answered
<1>5. CASE answers[t][2]
  BY <1>4, <1>5 DEF determine_elevator
<1>6. CASE ~answers[t][2]
  <2>1. determine_elevator(t) = IF answers[t][1] THEN "sudo" ELSE "neither"
    BY <1>6 DEF determine_elevator
  <2>. QED BY <1>4, <1>6, <2>1
<1>. QED BY <1>5, <1>6

-----------------------------------------------------------------------------
(* The name of the system *)

Determining(t) == role[t] = "distro" /\ pc[t] \notin {"call", "done", "crashed"}

\* Without a race one thread determines the name at a time, and from when it has read one
\* until it returns that is what os is.
NameInv ==
  /\ role \in [Threads -> {"elevator", "distro"}]
  /\ pc \in [Threads -> Labels]
  /\ answer \in [Threads -> Threads \cup {Unset, "linux"}]
  /\ \A t \in Threads : pc[t] \in {"read", "test", "default", "return"} => role[t] = "distro"
  /\ ~raced => \A t, u \in Threads : Determining(t) /\ Determining(u) => t = u
  /\ os \in Threads \cup {Unset, "linux"} /\ named \subseteq Threads
  /\ \A t \in named : pc[t] \in {"test", "default", "return", "done", "crashed"}
  /\ ~raced => \A t \in named :
       /\ pc[t] \in {"test", "return"} => os = t
       /\ pc[t] # "default"
       /\ pc[t] = "done" => answer[t] = t

\* A step that takes t on to l.
LEMMA DistroMoves ==
  ASSUME NameInv, NEW t \in Threads, NEW l \in Labels,
         pc[t] \notin {"call", "done", "crashed"}, pc' = [pc EXCEPT ![t] = l],
         role' = role, raced' = raced,
         l \in {"read", "test", "default", "return"} => role[t] = "distro",
         os' = os \/ (role[t] = "distro" /\ os' \in {t, "linux"}),
         answer' \in [Threads -> Threads \cup {Unset, "linux"}],
         \A u \in Threads \ {t} : answer'[u] = answer[u],
         named' \in {named, named \cup {t}},
         t \in named' => l \in {"test", "default", "return", "done"},
         ~raced /\ t \in named' => /\ l \in {"test", "return"} => os' = t
                                   /\ l # "default"
                                   /\ l = "done" => answer'[t] = t
  PROVE  NameInv'
<1>1. /\ pc' \in [Threads -> Labels] /\ pc'[t] = l
      /\ \A u \in Threads \ {t} : pc'[u] = pc[u]
  BY DEF NameInv
<1>2. \A u \in Threads : pc'[u] \in {"read", "test", "default", "return"} => role[u] = "distro"
  BY <1>1 DEF NameInv
<1>3. \A u \in named' : pc'[u] \in {"test", "default", "return", "done", "crashed"}
  BY <1>1 DEF NameInv
<1>4. ASSUME ~raced
      PROVE  \A u, v \in Threads : Determining(u)' /\ Determining(v)' => u = v
  <2>1. \A u \in Threads : Determining(u)' => Determining(u)
    BY <1>1 DEF Determining
  <2>. QED BY <1>4, <2>1 DEF NameInv
<1>5. ASSUME ~raced, NEW u \in named'
      PROVE  /\ pc'[u] \in {"test", "return"} => os' = u
             /\ pc'[u] # "default"
             /\ pc'[u] = "done" => answer'[u] = u
  <2>1. CASE u = t
    BY <1>1, <1>5, <2>1
  <2>2. CASE u # t
    <3>1. u \in named /\ u \in Threads
      <4>1. u \in named
        BY <1>5, <2>2
      <4>2. pc'[u] \in {"test", "default", "return", "done", "crashed"}
        BY <1>3, <1>5
      <4>. QED BY <4>1 DEF NameInv
    <3>2. pc'[u] = pc[u] /\ answer'[u] = answer[u]
      BY <1>1, <2>2, <3>1
    <3>3. pc[u] \in {"test", "return"} => os' = os
      <4>1. SUFFICES ASSUME pc[u] \in {"test", "return"} PROVE os' = os
        OBVIOUS
      <4>2. Determining(u)
        BY <3>1, <4>1 DEF NameInv, Determining
      <4>3. ~Determining(t)
        BY <1>5, <2>2, <3>1, <4>2 DEF NameInv
      <4>. QED BY <4>3 DEF Determining
    <3>. QED BY <1>5, <3>1, <3>2, <3>3 DEF NameInv
  <2>. QED BY <2>1, <2>2
<1>. QED BY <1>1, <1>2, <1>3, <1>4, <1>5 DEF NameInv

LEMMA CopyName == ASSUME NameInv, NEW t \in Threads, Copy(t) PROVE NameInv'
<1>1. /\ pc[t] = "call" /\ pc' = [pc EXCEPT ![t] = "first"]
      /\ UNCHANGED <<role, os, named, answer>>
      /\ raced' = (raced \/ (/\ role[t] = "distro"
                             /\ \E u \in Threads \ {t} : /\ role[u] = "distro"
                                                       /\ pc[u] \notin {"call", "done"}))
  BY DEF Copy, Goto, distroVars
<1>2. pc' \in [Threads -> Labels] /\ pc'[t] = "first" /\ \A u \in Threads \ {t} : pc'[u] = pc[u]
  BY <1>1 DEF NameInv, Labels
<1>3. t \notin named
  BY <1>1 DEF NameInv
<1>4. CASE raced'
  BY <1>1, <1>2, <1>3, <1>4 DEF NameInv
<1>5. CASE ~raced'
  <2>1. ~raced /\ (Determining(t)' => \A u \in Threads \ {t} : ~Determining(u))
    BY <1>1, <1>5 DEF Determining
  <2>2. \A u \in Threads \ {t} : Determining(u)' = Determining(u)
    BY <1>1, <1>2 DEF Determining
  <2>3. \A u, v \in Threads : Determining(u)' /\ Determining(v)' => u = v
    BY <2>1, <2>2 DEF NameInv
  <2>. QED BY <1>1, <1>2, <1>3, <2>1, <2>3 DEF NameInv
<1>. QED BY <1>4, <1>5

LEMMA DistroStep == ASSUME NameInv, [SearchNext]_searchVars PROVE NameInv'
<1>0. answer \in [Threads -> Threads \cup {Unset, "linux"}]
  BY DEF NameInv
<1>1. ASSUME NEW t \in Threads, FirstToken(t) \/ NextToken(t) \/ Check(t) PROVE NameInv'
  <2>1. PICK l \in {"check", "free", "next"} : pc' = [pc EXCEPT ![t] = l]
    BY <1>1, Zenon DEF FirstToken, NextToken, Check, Goto
  <2>2. pc[t] \in {"first", "next", "check"} /\ UNCHANGED <<role, os, named, answer, raced>>
    BY <1>1 DEF FirstToken, NextToken, Check, distroVars
  <2>3. t \notin named
    BY <2>2 DEF NameInv
  <2>. QED BY <1>0, <2>1, <2>2, <2>3, DistroMoves DEF Labels
<1>2. ASSUME NEW t \in Threads, Free(t) PROVE NameInv'
  <2>1. PICK l \in {"call", "done", "read"} :
          pc' = [pc EXCEPT ![t] = l] /\ (l = "read" => role[t] # "elevator")
    BY <1>2 DEF Free, Goto
  <2>2. pc[t] = "free" /\ UNCHANGED <<role, os, named, answer, raced>>
    BY <1>2 DEF Free, distroVars
  <2>3. (l = "read" => role[t] = "distro") /\ t \notin named
    BY <2>1, <2>2 DEF NameInv
  <2>. QED BY <1>0, <2>1, <2>2, <2>3, DistroMoves DEF Labels
<1>3. ASSUME NEW t \in Threads, ReadName(t) PROVE NameInv'
  <2>1. pc[t] = "read" /\ role[t] = "distro" /\ pc' = [pc EXCEPT ![t] = "test"]
        /\ UNCHANGED <<role, answer, raced>>
    BY <1>3 DEF ReadName, Goto, NameInv
  <2>2. t \notin named
    BY <2>1 DEF NameInv
  <2>3. (os' = t /\ named' = named \cup {t}) \/ (os' = os /\ named' = named)
    BY <1>3 DEF ReadName
  <2>. QED BY <1>0, <2>1, <2>2, <2>3, DistroMoves DEF Labels
<1>4. ASSUME NEW t \in Threads, TestOs(t) PROVE NameInv'
  <2>1. pc[t] = "test" /\ role[t] = "distro" /\ UNCHANGED <<role, os, named, answer, raced>>
    BY <1>4 DEF TestOs, NameInv, distroVars
  <2>2. PICK l \in {"default", "return"} :
          pc' = [pc EXCEPT ![t] = l] /\ (l = "default" => os = Unset)
    BY <1>4 DEF TestOs, Goto
  <2>3. ~raced /\ t \in named => os = t /\ os # Unset
    BY <2>1, PathLookupAssumption DEF NameInv
  <2>4. ~raced /\ t \in named' => /\ l \in {"test", "return"} => os' = t
                                  /\ l # "default"
                                  /\ l = "done" => answer'[t] = t
    BY <2>1, <2>2, <2>3
  <2>5. /\ l \in Labels /\ l \in {"test", "default", "return", "done"}
        /\ named' \in {named, named \cup {t}} /\ answer' = answer /\ os' = os
        /\ pc[t] \notin {"call", "done", "crashed"}
    BY <2>1, <2>2 DEF Labels
  <2>. QED BY <1>0, <2>1, <2>2, <2>4, <2>5, DistroMoves
<1>5. ASSUME NEW t \in Threads, DefaultOs(t) PROVE NameInv'
  <2>1. pc[t] = "default" /\ role[t] = "distro" /\ pc' = [pc EXCEPT ![t] = "return"]
        /\ UNCHANGED <<role, named, answer, raced>> /\ os' = "linux"
    BY <1>5 DEF DefaultOs, Goto, NameInv
  <2>2. ~raced => t \notin named
    BY <2>1 DEF NameInv
  <2>3. "return" \in Labels /\ "return" \in {"test", "default", "return", "done"}
    BY DEF Labels
  <2>4. named' \in {named, named \cup {t}} /\ os' \in {t, "linux"}
    BY <2>1
  <2>. QED BY <1>0, <2>1, <2>2, <2>3, <2>4, DistroMoves
<1>6. ASSUME NEW t \in Threads, ReturnOs(t) PROVE NameInv'
  <2>1. pc[t] = "return" /\ role[t] = "distro" /\ pc' = [pc EXCEPT ![t] = "done"]
        /\ UNCHANGED <<role, os, named, raced>> /\ answer' = [answer EXCEPT ![t] = os]
    BY <1>6 DEF ReturnOs, Goto, NameInv
  <2>2. os \in Threads \cup {Unset, "linux"}
    BY DEF NameInv
  <2>3. ~raced /\ t \in named => os = t
    BY <2>1 DEF NameInv
  <2>4. answer' \in [Threads -> Threads \cup {Unset, "linux"}] /\ answer'[t] = os
        /\ \A u \in Threads \ {t} : answer'[u] = answer[u]
    BY <1>0, <2>1, <2>2
  <2>. QED BY <2>1, <2>3, <2>4, DistroMoves DEF Labels
<1>7. ASSUME NEW t \in Threads, Crash(t) PROVE NameInv'
  <2>1. pc' = [u \in Threads |-> "crashed"] /\ UNCHANGED <<role, os, named, answer, raced>>
    BY <1>7 DEF Crash, distroVars
  <2>2. pc' \in [Threads -> Labels] /\ \A u \in Threads : pc'[u] = "crashed" /\ ~Determining(u)'
    BY <2>1 DEF Labels, Determining
  <2>3. named \subseteq Threads
    BY DEF NameInv
  <2>. QED BY <2>1, <2>2, <2>3 DEF NameInv
<1>8. CASE Change \/ UNCHANGED searchVars
  <2>1. UNCHANGED <<role, pc, os, named, answer, raced>>
    BY <1>8 DEF Change, searchVars, distroVars
  <2>. QED BY <2>1 DEF NameInv, Determining
<1>. QED BY <1>1, <1>2, <1>3, <1>4, <1>5, <1>6, <1>7, <1>8, CopyName DEF SearchNext

\* have.c with threads: what a search finds was there, a search that no other one overlaps
\* finds it in PATH and misses nothing, and calls of try_to_determine_linux_distro that do
\* not overlap return what they have read, for any PATH and any number of threads and changes.
THEOREM SearchedPath == SearchSpec => []SearchTruthful
<1>1. SearchInit => NameInv
  BY DEF SearchInit, NameInv, Determining, Labels
<1>2. NameInv /\ [SearchNext]_searchVars => NameInv'
  BY DistroStep
<1>3. SearchInv /\ NameInv => SearchTruthful
  <2>1. SUFFICES ASSUME SearchInv, NameInv PROVE SearchTruthful
    OBVIOUS
  <2>2. ASSUME NEW t \in Threads, pc[t] = "done", t \in named, ~raced PROVE answer[t] = t
    BY <2>1, <2>2 DEF NameInv
  <2>. QED
    BY <2>1, <2>2, FoundTruly, ElevatorTruly DEF SearchTruthful
<1>. QED
  BY <1>1, <1>2, <1>3, SearchInvariant, PTL DEF SearchSpec
-----------------------------------------------------------------------------
(* elevate.c: quotes *)

Quotings == [mode : {"none", "single", "double"}, escaped : BOOLEAN]

\* The shell's view of what the loops say of quotes: between single quotes it knows of no
\* escapes.
ShOf(q) == IF q.mode = "single" THEN [mode |-> "single", escaped |-> FALSE] ELSE q

LEMMA QuotingForm ==
  ASSUME NEW q \in Quotings
  PROVE  /\ q = [mode |-> q.mode, escaped |-> q.escaped]
         /\ q.mode \in {"none", "single", "double"} /\ q.escaped \in BOOLEAN
BY DEF Quotings

LEMMA SomeQuoting ==
  ASSUME NEW m \in {"none", "single", "double"}, NEW e \in BOOLEAN
  PROVE  [mode |-> m, escaped |-> e] \in Quotings
BY DEF Quotings

LEMMA ShOfForm ==
  ASSUME NEW m, NEW e
  PROVE  ShOf([mode |-> m, escaped |-> e])
           = IF m = "single" THEN [mode |-> "single", escaped |-> FALSE]
             ELSE [mode |-> m, escaped |-> e]
BY DEF ShOf

LEMMA ShOfPlain == ASSUME NEW q PROVE (ShOf(q) = Plain) <=> (q = Plain)
<1>1. CASE q.mode = "single"
  <2>1. ShOf(q).mode = "single" /\ Plain.mode = "none"
    BY <1>1 DEF ShOf, Plain
  <2>. QED BY <1>1, <2>1
<1>2. CASE q.mode # "single"
  BY <1>2, Zenon DEF ShOf
<1>. QED BY <1>1, <1>2

\* What both make of a quote or backslash at which they agree.
SameMark(q, ch, m, e) ==
  /\ Quoting(q, ch) = [mode |-> m, escaped |-> e] /\ ShQuoting(q, ch) = [mode |-> m, escaped |-> e]
  /\ m = "single" => ~e

LEMMA MarkSame ==
  ASSUME NEW q, NEW ch, NEW m \in {"none", "single", "double"}, NEW e \in BOOLEAN,
         SameMark(q, ch, m, e)
  PROVE  ShQuoting(q, ch) = ShOf(Quoting(q, ch)) /\ Quoting(q, ch) \in Quotings
<1>1. CASE m = "single"
  <2>1. e = FALSE
    BY <1>1 DEF SameMark
  <2>. QED BY <1>1, <2>1, ShOfForm, SomeQuoting DEF SameMark
<1>2. CASE m # "single"
  BY <1>2, ShOfForm, SomeQuoting DEF SameMark
<1>. QED BY <1>1, <1>2

\* The loops read quotes as the shell does, until a single quote follows a backslash in a
\* single-quoted part.
LEMMA SameQuoting ==
  ASSUME NEW q \in Quotings, NEW ch \in Chars, ~(q.mode = "single" /\ q.escaped /\ ch = "'")
  PROVE  /\ ShQuoting(ShOf(q), ch) = ShOf(Quoting(q, ch))
         /\ Quoting(q, ch) \in Quotings
         /\ ~IsQuoting(q, ch) => Quoting(q, ch) = q
<1>1. PICK m, e : q = [mode |-> m, escaped |-> e]
  BY QuotingForm
<1>2. m \in {"none", "single", "double"} /\ e \in BOOLEAN
  BY <1>1, QuotingForm
<1>3. CASE e
  <2>1. e = TRUE
    BY <1>2, <1>3
  <2>2. /\ Quoting(q, ch) = [mode |-> m, escaped |-> FALSE] /\ IsQuoting(q, ch)
        /\ Quoting(q, ch) \in Quotings
    BY <1>1, <1>2, <2>1, SomeQuoting DEF Quoting, IsQuoting
  <2>3. CASE m = "single"
    <3>1. ch # "'"
      BY <1>1, <2>1, <2>3
    <3>2. ShOf(q) = [mode |-> "single", escaped |-> FALSE] /\ ShOf(Quoting(q, ch)) = ShOf(q)
      BY <1>1, <2>2, <2>3, ShOfForm
    <3>3. ShQuoting(ShOf(q), ch) = ShOf(q)
      BY <3>1, <3>2 DEF ShQuoting
    <3>. QED BY <2>2, <3>2, <3>3
  <2>4. CASE m # "single"
    <3>1. ShOf(q) = q /\ ShOf(Quoting(q, ch)) = [mode |-> m, escaped |-> FALSE]
      BY <1>1, <2>2, <2>4, ShOfForm
    <3>2. ShQuoting(q, ch) = [mode |-> m, escaped |-> FALSE]
      BY <1>1, <1>2, <2>1, <2>4 DEF ShQuoting, Plain
    <3>. QED BY <2>2, <3>1, <3>2
  <2>. QED BY <2>3, <2>4
<1>4. CASE ~e
  <2>1. e = FALSE /\ ShOf(q) = q
    BY <1>1, <1>2, <1>4, ShOfForm
  <2>2. CASE m = "none"
    <3>1. CASE ch \in {"'", "\"", "\\"}
      <4>1. IsQuoting(q, ch)
        BY <1>1, <2>1, <2>2, <3>1 DEF IsQuoting
      <4>2. ch = "'" => SameMark(q, ch, "single", FALSE)
        BY <1>1, <2>1, <2>2 DEF SameMark, Quoting, ShQuoting, Toggle
      <4>3. ch = "\"" => SameMark(q, ch, "double", FALSE)
        BY <1>1, <2>1, <2>2 DEF SameMark, Quoting, ShQuoting, Toggle
      <4>4. ch = "\\" => SameMark(q, ch, "none", TRUE)
        BY <1>1, <2>1, <2>2 DEF SameMark, Quoting, ShQuoting
      <4>. QED BY <2>1, <3>1, <4>1, <4>2, <4>3, <4>4, MarkSame
    <3>2. CASE ch \notin {"'", "\"", "\\"}
      <4>1. Quoting(q, ch) = q
        BY <1>1, <2>1, <2>2, <3>2 DEF Quoting
      <4>2. (ch = "\\") = FALSE
        BY <3>2
      <4>3. ShQuoting(q, ch) = [q EXCEPT !.escaped = ch = "\\"]
        BY <1>1, <2>1, <2>2, <3>2 DEF ShQuoting
      <4>4. ShQuoting(q, ch) = [q EXCEPT !.escaped = FALSE]
        BY <4>2, <4>3, Zenon
      <4>5. ShQuoting(q, ch) = q
        BY <1>1, <2>1, <4>4
      <4>. QED BY <2>1, <4>1, <4>5
    <3>. QED BY <3>1, <3>2
  <2>3. CASE m = "single"
    <3>1. CASE ch = "'"
      <4>1. IsQuoting(q, ch) /\ SameMark(q, ch, "none", FALSE)
        BY <1>1, <2>1, <2>3, <3>1 DEF SameMark, Quoting, ShQuoting, Toggle, IsQuoting, Plain
      <4>. QED BY <2>1, <4>1, MarkSame
    <3>2. CASE ch # "'"
      <4>1. ShQuoting(q, ch) = q
        BY <1>1, <2>3, <3>2 DEF ShQuoting
      <4>2. /\ Quoting(q, ch) \in {q, [mode |-> "single", escaped |-> TRUE]}
            /\ ~IsQuoting(q, ch) => Quoting(q, ch) = q
        BY <1>1, <2>1, <2>3, <3>2 DEF Quoting, IsQuoting
      <4>3. q = [mode |-> "single", escaped |-> FALSE]
        BY <1>1, <2>1, <2>3
      <4>4. ShOf(Quoting(q, ch)) = q /\ Quoting(q, ch) \in Quotings
        BY <4>2, <4>3, SomeQuoting, ShOfForm
      <4>. QED BY <2>1, <4>1, <4>2, <4>4
    <3>. QED BY <3>1, <3>2
  <2>4. CASE m = "double"
    <3>1. CASE ch \in {"\"", "\\"}
      <4>1. IsQuoting(q, ch)
        BY <1>1, <2>1, <2>4, <3>1 DEF IsQuoting
      <4>2. ch = "\"" => SameMark(q, ch, "none", FALSE)
        BY <1>1, <2>1, <2>4 DEF SameMark, Quoting, ShQuoting, Toggle, Plain
      <4>3. ch = "\\" => SameMark(q, ch, "double", TRUE)
        BY <1>1, <2>1, <2>4 DEF SameMark, Quoting, ShQuoting
      <4>. QED BY <2>1, <3>1, <4>1, <4>2, <4>3, MarkSame
    <3>2. CASE ch \notin {"\"", "\\"}
      <4>1. Quoting(q, ch) = q
        BY <1>1, <2>1, <2>4, <3>2 DEF Quoting
      <4>2. (ch = "\\") = FALSE
        BY <3>2
      <4>3. ShQuoting(q, ch) = [q EXCEPT !.escaped = ch = "\\"]
        BY <1>1, <2>1, <2>4, <3>2 DEF ShQuoting
      <4>4. ShQuoting(q, ch) = [q EXCEPT !.escaped = FALSE]
        BY <4>2, <4>3, Zenon
      <4>5. ShQuoting(q, ch) = q
        BY <1>1, <2>1, <4>4
      <4>. QED BY <2>1, <4>1, <4>5
    <3>. QED BY <3>1, <3>2
  <2>. QED BY <1>2, <2>2, <2>3, <2>4
<1>. QED BY <1>2, <1>3, <1>4

-----------------------------------------------------------------------------
(* The two loops and the shell *)

\* All three are in the same state, and the elevator stands right unless the shell refuses
\* the line.
Agree ==
  \E q, k, n, b :
    /\ q \in Quotings /\ k \in BOOLEAN /\ n \in BOOLEAN /\ b \in BOOLEAN
    /\ n => q = Plain
    /\ simple = [q |-> q, skip |-> k, no |-> FALSE]
    /\ insert = [q |-> q, skip |-> k, need |-> n]
    /\ sh = [q |-> ShOf(q), skip |-> k, fresh |-> n, bad |-> b, reserved |-> FALSE]
    /\ b \/ placed

\* An elevator stands before a reserved word.
Misplaced ==
  /\ ~placed
  /\ \E q, k, n, b : sh = [q |-> q, skip |-> k, fresh |-> n, bad |-> b, reserved |-> TRUE]

\* The first loop has refused the line.
GivenUp == \E q, k : simple = [q |-> q, skip |-> k, no |-> TRUE]

ElevateInv == c \in Chars \cup {End} /\ (odd \/ GivenUp \/ Misplaced \/ Agree)

LEMMA ElevateInitInv == ASSUME Init PROVE ElevateInv
<1>1. Plain \in Quotings /\ Plain = ShOf(Plain)
  BY SomeQuoting DEF Plain, ShOf
<1>. QED BY <1>1, Zenon DEF Init, ElevateInv, Agree

\* A character that is no part of an operator, and no reserved word.
LEMMA WordStep ==
  ASSUME NEW q \in Quotings, NEW n \in BOOLEAN, NEW b \in BOOLEAN, b \/ placed,
         NEW r \in Quotings, NEW ch, NEW next,
         n /\ ch = " " => r = Plain,
         simple' = [q |-> r, skip |-> FALSE, no |-> FALSE],
         insert = [q |-> q, skip |-> FALSE, need |-> n],
         sh = [q |-> ShOf(q), skip |-> FALSE, fresh |-> n, bad |-> b, reserved |-> FALSE],
         insert' = [q |-> r, skip |-> FALSE, need |-> n /\ ch = " "],
         sh' = [q |-> ShOf(r), skip |-> FALSE, fresh |-> n /\ ch = " ", bad |-> b,
                reserved |-> FALSE],
         ~IsOperator(sh, ch), ~IsReserved(sh, ch, next),
         placed' = (placed /\ (Inserts(insert, ch) <=> Begins(sh, ch, next)))
  PROVE  Agree'
<1>1. Inserts(insert, ch) <=> n /\ ch # " "
  BY DEF Inserts
<1>2. Begins(sh, ch, next) <=> n /\ ch # " "
  BY DEF Begins
<1>3. b \/ placed'
  BY <1>1, <1>2
<1>4. PICK m \in BOOLEAN : m = (n /\ ch = " ")
  BY Zenon
<1>5. /\ insert' = [q |-> r, skip |-> FALSE, need |-> m] /\ (m => r = Plain)
      /\ sh' = [q |-> ShOf(r), skip |-> FALSE, fresh |-> m, bad |-> b, reserved |-> FALSE]
  BY <1>4, Zenon
<1>. QED BY <1>3, <1>4, <1>5, Zenon DEF Agree

LEMMA AgreeRead ==
  ASSUME ElevateInv, Agree, Read, ~odd'
  PROVE  GivenUp' \/ Misplaced' \/ Agree'
<1>1. PICK q, k, n, b :
        /\ q \in Quotings /\ k \in BOOLEAN /\ n \in BOOLEAN /\ b \in BOOLEAN
        /\ n => q = Plain
        /\ simple = [q |-> q, skip |-> k, no |-> FALSE]
        /\ insert = [q |-> q, skip |-> k, need |-> n]
        /\ sh = [q |-> ShOf(q), skip |-> k, fresh |-> n, bad |-> b, reserved |-> FALSE]
        /\ b \/ placed
  BY Zenon DEF Agree
<1>2. PICK next :
        /\ simple' = is_simple_command_list(simple, c, next)
        /\ insert' = examine_command_and_insert_elevator(insert, c, next)
        /\ sh' = ShRead(sh, c, next)
        /\ placed' = (placed /\ (Inserts(insert, c) <=> Begins(sh, c, next)))
  BY Zenon DEF Read
<1>4. c \in Chars /\ ~(q.mode = "single" /\ q.escaped /\ c = "'")
  <2>1. ~Overlooked(c) /\ c # End
    BY DEF Read
  <2>2. ~(c = "'" /\ sh.q.mode = "single" /\ insert.q.escaped)
    BY <2>1 DEF Overlooked
  <2>3. q.mode = "single" => sh.q.mode = "single"
    BY <1>1 DEF ShOf
  <2>. QED BY <1>1, <2>1, <2>2, <2>3 DEF ElevateInv
<1>5. CASE k
  <2>1. k = TRUE
    BY <1>1, <1>5
  <2>2. /\ simple' = [q |-> q, skip |-> FALSE, no |-> FALSE]
        /\ insert' = [q |-> q, skip |-> FALSE, need |-> n]
        /\ sh' = [q |-> ShOf(q), skip |-> FALSE, fresh |-> n, bad |-> b, reserved |-> FALSE]
    BY <1>1, <1>2, <2>1 DEF is_simple_command_list, examine_command_and_insert_elevator, ShRead
  <2>3. ~Inserts(insert, c) /\ ~Begins(sh, c, next)
    BY <1>1, <2>1 DEF Inserts, Begins
  <2>4. b \/ placed'
    BY <1>1, <1>2, <2>3
  <2>. QED BY <1>1, <2>2, <2>4, Zenon DEF Agree
<1>6. CASE ~k /\ (IsQuoting(q, c) \/ Quoted(q))
  <2>1. k = FALSE
    BY <1>1, <1>6
  <2>2. /\ ShQuoting(ShOf(q), c) = ShOf(Quoting(q, c)) /\ Quoting(q, c) \in Quotings
        /\ ~IsQuoting(q, c) => Quoting(q, c) = q
    BY <1>1, <1>4, SameQuoting
  <2>3. q = Plain => c \in {"\\", "'", "\""}
    <3>1. SUFFICES ASSUME q = Plain PROVE c \in {"\\", "'", "\""}
      OBVIOUS
    <3>2. q.mode = "none" /\ ~q.escaped
      BY <3>1 DEF Plain
    <3>. QED BY <1>6, <3>2 DEF IsQuoting, Quoted
  <2>4. ~IsOperator(sh, c) /\ ~IsReserved(sh, c, next) /\ (n => c # " ")
    <3>1. sh.q = Plain <=> q = Plain
      BY <1>1, ShOfPlain
    <3>2. sh.fresh = n
      BY <1>1
    <3>. QED BY <1>1, <2>3, <3>1, <3>2 DEF IsOperator, IsReserved
  <2>5. simple' = [q |-> Quoting(q, c), skip |-> FALSE, no |-> FALSE]
    BY <1>1, <1>2, <1>6, <2>1, <2>2 DEF is_simple_command_list
  <2>6. insert' = [q |-> Quoting(q, c), skip |-> FALSE, need |-> n /\ c = " "]
    BY <1>1, <1>2, <1>6, <2>1, <2>2 DEF examine_command_and_insert_elevator
  <2>7. sh' = [q |-> ShOf(Quoting(q, c)), skip |-> FALSE, fresh |-> n /\ c = " ", bad |-> b,
               reserved |-> FALSE]
    BY <1>1, <1>2, <2>1, <2>2, <2>4 DEF ShRead
  <2>. QED BY <1>1, <1>2, <2>1, <2>2, <2>4, <2>5, <2>6, <2>7, WordStep
<1>7. CASE ~k /\ ~IsQuoting(q, c) /\ ~Quoted(q)
  <2>1. k = FALSE
    BY <1>1, <1>7
  <2>2. q = Plain /\ ShOf(q) = Plain
    BY <1>1, <1>7, QuotingForm DEF IsQuoting, Quoted, Plain, ShOf
  <2>3. CASE c \notin {";", "&", "|", "(", "$"}
    <3>1. ~IsOperator(sh, c) /\ ~IsPair(c, next) /\ c \notin {"(", "$"} /\ c # ";"
      BY <2>3 DEF IsOperator, IsPair
    <3>2. ShQuoting(ShOf(q), c) = ShOf(q)
      BY <1>1, <1>4, <1>7, SameQuoting
    <3>3. simple' = [q |-> q, skip |-> FALSE, no |-> FALSE]
      <4>1. simple' = [simple EXCEPT !.skip = IsPair(c, next),
                                     !.no   = c \in {"(", "$"} \/ (c \in {"&", "|"} /\ ~IsPair(c, next))]
        BY <1>1, <1>2, <1>7, <2>1 DEF is_simple_command_list
      <4>2. IsPair(c, next) = FALSE
        BY <2>3, Zenon DEF IsPair
      <4>3. (c \in {"(", "$"} \/ (c \in {"&", "|"} /\ ~IsPair(c, next))) = FALSE
        BY <2>3
      <4>4. simple' = [simple EXCEPT !.skip = FALSE, !.no = FALSE]
        BY <4>1, <4>2, <4>3, Zenon
      <4>. QED BY <1>1, <4>4
    <3>4. insert' = [q |-> q, skip |-> FALSE, need |-> n /\ c = " "]
      BY <1>1, <1>2, <1>7, <2>1, <3>1 DEF examine_command_and_insert_elevator
    <3>5. CASE IsReserved(sh, c, next)
      <4>1. n = TRUE /\ c = "!"
        BY <1>1, <3>5 DEF IsReserved
      <4>2. Inserts(insert, c) /\ ~Begins(sh, c, next)
        BY <1>1, <2>1, <3>5, <4>1 DEF Inserts, Begins
      <4>3. sh' = [q |-> ShOf(q), skip |-> FALSE, fresh |-> n, bad |-> b, reserved |-> TRUE]
        BY <1>1, <1>2, <2>1, <3>1, <3>5 DEF ShRead
      <4>4. ~placed'
        BY <1>2, <4>2
      <4>. QED BY <4>3, <4>4, Zenon DEF Misplaced
    <3>6. CASE ~IsReserved(sh, c, next)
      <4>1. sh' = [q |-> ShOf(q), skip |-> FALSE, fresh |-> n /\ c = " ", bad |-> b,
                   reserved |-> FALSE]
        BY <1>1, <1>2, <2>1, <3>1, <3>2, <3>6 DEF ShRead
      <4>. QED BY <1>1, <1>2, <2>1, <2>2, <3>1, <3>3, <3>4, <3>6, <4>1, WordStep
    <3>. QED BY <3>5, <3>6
  <2>4. CASE c \in {"(", "$"} \/ (c \in {"&", "|"} /\ ~IsPair(c, next))
    <3>1. simple' = [simple EXCEPT !.skip = IsPair(c, next), !.no = TRUE]
      BY <1>1, <1>2, <1>7, <2>1, <2>4 DEF is_simple_command_list
    <3>2. simple' = [q |-> q, skip |-> IsPair(c, next), no |-> TRUE]
      BY <1>1, <3>1
    <3>. QED BY <3>2, Zenon DEF GivenUp
  <2>5. CASE c = ";" \/ (c \in {"&", "|"} /\ IsPair(c, next))
    <3>1. PICK p \in BOOLEAN : p = IsPair(c, next)
      BY Zenon DEF IsPair
    <3>2. simple' = [q |-> q, skip |-> p, no |-> FALSE]
      <4>1. simple' = [simple EXCEPT !.skip = IsPair(c, next),
                                     !.no   = c \in {"(", "$"} \/ (c \in {"&", "|"} /\ ~IsPair(c, next))]
        BY <1>1, <1>2, <1>7, <2>1 DEF is_simple_command_list
      <4>2. (c \in {"(", "$"} \/ (c \in {"&", "|"} /\ ~IsPair(c, next))) = FALSE
        BY <2>5
      <4>3. simple' = [simple EXCEPT !.skip = p, !.no = FALSE]
        BY <3>1, <4>1, <4>2, Zenon
      <4>. QED BY <1>1, <4>3
    <3>3. insert' = [q |-> q, skip |-> p, need |-> TRUE]
      BY <1>1, <1>2, <1>7, <2>1, <2>5, <3>1 DEF examine_command_and_insert_elevator
    <3>4. IsOperator(sh, c)
      BY <1>1, <2>2, <2>5 DEF IsOperator
    <3>5. sh' = [q |-> ShOf(q), skip |-> p, fresh |-> TRUE, bad |-> b \/ n, reserved |-> FALSE]
      BY <1>1, <1>2, <2>1, <3>1, <3>4 DEF ShRead
    <3>6. ~Begins(sh, c, next) /\ (Inserts(insert, c) => n)
      BY <1>1, <3>4 DEF Begins, Inserts
    <3>7. PICK d \in BOOLEAN : d = (b \/ n)
      BY Zenon
    <3>8. d \/ placed'
      BY <1>1, <1>2, <3>6, <3>7
    <3>9. sh' = [q |-> ShOf(q), skip |-> p, fresh |-> TRUE, bad |-> d, reserved |-> FALSE]
      BY <3>5, <3>7, Zenon
    <3>. QED BY <1>1, <2>2, <3>1, <3>2, <3>3, <3>7, <3>8, <3>9, Zenon DEF Agree
  <2>. QED BY <1>4, <2>3, <2>4, <2>5
<1>. QED BY <1>5, <1>6, <1>7

LEMMA GivenUpRead == ASSUME GivenUp, Read PROVE GivenUp'
<1>1. PICK q, k : simple = [q |-> q, skip |-> k, no |-> TRUE]
  BY Zenon DEF GivenUp
<1>2. PICK next : simple' = is_simple_command_list(simple, c, next)
  BY Zenon DEF Read
<1>3. simple' = [q |-> q, skip |-> FALSE, no |-> TRUE]
  BY <1>1, <1>2 DEF is_simple_command_list
<1>. QED BY <1>3, Zenon DEF GivenUp

LEMMA MisplacedRead == ASSUME Misplaced, Read PROVE Misplaced'
<1>1. PICK q, k, n, b : sh = [q |-> q, skip |-> k, fresh |-> n, bad |-> b, reserved |-> TRUE]
  BY Zenon DEF Misplaced
<1>2. PICK next :
        /\ sh' = ShRead(sh, c, next)
        /\ placed' = (placed /\ (Inserts(insert, c) <=> Begins(sh, c, next)))
  BY Zenon DEF Read
<1>3. ~placed'
  BY <1>2 DEF Misplaced
<1>4. CASE sh.skip
  BY <1>1, <1>2, <1>3, <1>4, Zenon DEF ShRead, Misplaced
<1>5. CASE ~sh.skip /\ IsOperator(sh, c)
  BY <1>1, <1>2, <1>3, <1>5, Zenon DEF ShRead, Misplaced
<1>6. CASE ~sh.skip /\ ~IsOperator(sh, c) /\ IsReserved(sh, c, next)
  BY <1>1, <1>2, <1>3, <1>6, Zenon DEF ShRead, Misplaced
<1>7. CASE ~sh.skip /\ ~IsOperator(sh, c) /\ ~IsReserved(sh, c, next)
  BY <1>1, <1>2, <1>3, <1>7, Zenon DEF ShRead, Misplaced
<1>. QED BY <1>4, <1>5, <1>6, <1>7

LEMMA ElevateStepInv == ASSUME ElevateInv, [Next]_vars PROVE ElevateInv'
<1>1. CASE Read
  <2>1. c' \in Chars \cup {End}
    BY <1>1, Zenon DEF Read
  <2>2. odd => odd'
    BY <1>1, Zenon DEF Read
  <2>3. odd' \/ GivenUp' \/ Misplaced' \/ Agree'
    BY <1>1, <2>2, AgreeRead, GivenUpRead, MisplacedRead DEF ElevateInv
  <2>. QED BY <2>1, <2>3 DEF ElevateInv
<1>2. CASE Confirm \/ UNCHANGED vars
  <2>1. UNCHANGED <<c, simple, insert, sh, placed, odd>>
    BY <1>2 DEF Confirm, vars
  <2>. QED BY <2>1 DEF ElevateInv, GivenUp, Misplaced, Agree
<1>. QED BY <1>1, <1>2 DEF Next

\* At every character of any line the two loops and the shell agree on what is quoted and
\* on where a command begins, unless the first loop has refused the line, an elevator stands
\* before a reserved word, or the shell has met what the loops overlook (elevate.c).
THEOREM LoopsAgree == Spec => []ElevateInv
<1>1. Init => ElevateInv
  BY ElevateInitInv
<1>2. ElevateInv /\ [Next]_vars => ElevateInv'
  BY ElevateStepInv
<1>. QED BY <1>1, <1>2, PTL DEF Spec

-----------------------------------------------------------------------------
(* The wrapped line *)

Empty(q) == [q |-> q, word |-> <<>>]

ReadChar(a, ch) == [q |-> ShQuoting(a.q, ch), word |-> a.word \o Literal(a.q, ch)]

LEMMA ReadsChar ==
  ASSUME NEW q, NEW w, NEW ch
  PROVE  ReadChar([q |-> q, word |-> w], ch) = [q |-> ShQuoting(q, ch), word |-> w \o Literal(q, ch)]
BY DEF ReadChar

\* The function that ReadWord computes, from a function that satisfies its equation.
LEMMA ReadsBy ==
  ASSUME NEW q, NEW chars, NEW w,
         w = [i \in 0 .. Len(chars) |-> IF i = 0 THEN Empty(q) ELSE ReadChar(w[i - 1], chars[i])]
  PROVE  \E after :
           /\ after = [i \in 0 .. Len(chars) |-> IF i = 0 THEN Empty(q)
                                                ELSE ReadChar(after[i - 1], chars[i])]
           /\ ReadWord(q, chars) = after[Len(chars)]
<1>1. w = [i \in 0 .. Len(chars) |->
             IF i = 0 THEN [q |-> q, word |-> <<>>]
             ELSE [q    |-> ShQuoting(w[i - 1].q, chars[i]),
                   word |-> w[i - 1].word \o Literal(w[i - 1].q, chars[i])]]
  BY Zenon DEF Empty, ReadChar
<1>. DEFINE after == CHOOSE f :
             f = [i \in 0 .. Len(chars) |->
             IF i = 0 THEN [q |-> q, word |-> <<>>]
             ELSE [q    |-> ShQuoting(f[i - 1].q, chars[i]),
                   word |-> f[i - 1].word \o Literal(f[i - 1].q, chars[i])]]
<1>2. after = [i \in 0 .. Len(chars) |->
             IF i = 0 THEN [q |-> q, word |-> <<>>]
             ELSE [q    |-> ShQuoting(after[i - 1].q, chars[i]),
                   word |-> after[i - 1].word \o Literal(after[i - 1].q, chars[i])]]
  BY <1>1, Zenon
<1>3. ReadWord(q, chars) = after[Len(chars)]
  BY Zenon DEF ReadWord
<1>. HIDE DEF after
<1>4. after = [i \in 0 .. Len(chars) |-> IF i = 0 THEN Empty(q)
                                         ELSE ReadChar(after[i - 1], chars[i])]
  BY <1>2, Zenon DEF Empty, ReadChar
<1>. QED BY <1>3, <1>4, Zenon

LEMMA ReadOne ==
  ASSUME NEW q, NEW x
  PROVE  ReadWord(q, <<x>>) = ReadChar(Empty(q), x)
<1>. DEFINE chars == <<x>>
            w == [i \in 0 .. Len(chars) |-> IF i = 0 THEN Empty(q) ELSE ReadChar(Empty(q), x)]
<1>1. Len(chars) = 1 /\ chars[1] = x
  OBVIOUS
<1>. HIDE DEF chars
<1>2. w = [i \in 0 .. Len(chars) |-> IF i = 0 THEN Empty(q) ELSE ReadChar(w[i - 1], chars[i])]
  BY <1>1
<1>3. PICK after :
        /\ after = [i \in 0 .. Len(chars) |-> IF i = 0 THEN Empty(q)
                                             ELSE ReadChar(after[i - 1], chars[i])]
        /\ ReadWord(q, chars) = after[Len(chars)]
  BY <1>2, ReadsBy, Zenon
<1>4. after[0] = Empty(q) /\ after[1] = ReadChar(after[0], x)
  BY <1>1, <1>3
<1>. QED BY <1>1, <1>3, <1>4, Zenon DEF chars

LEMMA ReadFour ==
  ASSUME NEW q, NEW x, NEW y, NEW z, NEW t
  PROVE  ReadWord(q, <<x, y, z, t>>)
           = ReadChar(ReadChar(ReadChar(ReadChar(Empty(q), x), y), z), t)
<1>. DEFINE chars == <<x, y, z, t>>
            a1 == ReadChar(Empty(q), x)
            a2 == ReadChar(a1, y)
            a3 == ReadChar(a2, z)
            a4 == ReadChar(a3, t)
            w == [i \in 0 .. Len(chars) |-> IF i = 0 THEN Empty(q)
                                           ELSE IF i = 1 THEN a1
                                           ELSE IF i = 2 THEN a2
                                           ELSE IF i = 3 THEN a3 ELSE a4]
<1>1. Len(chars) = 4 /\ chars[1] = x /\ chars[2] = y /\ chars[3] = z /\ chars[4] = t
  OBVIOUS
<1>. HIDE DEF chars
<1>2. w = [i \in 0 .. Len(chars) |-> IF i = 0 THEN Empty(q) ELSE ReadChar(w[i - 1], chars[i])]
  BY <1>1
<1>3. PICK after :
        /\ after = [i \in 0 .. Len(chars) |-> IF i = 0 THEN Empty(q)
                                             ELSE ReadChar(after[i - 1], chars[i])]
        /\ ReadWord(q, chars) = after[Len(chars)]
  BY <1>2, ReadsBy, Zenon
<1>4. /\ after[0] = Empty(q)
      /\ after[1] = ReadChar(after[0], x)
      /\ after[2] = ReadChar(after[1], y)
      /\ after[3] = ReadChar(after[2], z)
      /\ after[4] = ReadChar(after[3], t)
  BY <1>1, <1>3
<1>. QED BY <1>1, <1>3, <1>4, Zenon DEF chars

\* Whatever quotes a line has, the word after sh -c is the line (shell_single_quote,
\* elevate.c).
THEOREM Wrapped == WrapsWhole
<1>. DEFINE inside == [mode |-> "single", escaped |-> FALSE]
<1>1. SUFFICES ASSUME NEW ch \in Chars
               PROVE  ReadWord(inside, shell_single_quote(ch)) = [q |-> inside, word |-> <<ch>>]
  BY Zenon DEF WrapsWhole
<1>2. CASE ch = "'"
  <2>. DEFINE mid == [mode |-> "none", escaped |-> TRUE]
  <2>0. /\ <<>> \o <<>> = <<>> /\ <<>> \o <<"'">> = <<"'">> /\ <<"'">> \o <<>> = <<"'">>
    OBVIOUS
  <2>1. ReadChar(Empty(inside), "'") = Empty(Plain)
    <3>1. ShQuoting(inside, "'") = Plain
      BY DEF ShQuoting
    <3>2. Literal(inside, "'") = <<>>
      BY Zenon DEF Literal
    <3>. QED BY <2>0, <3>1, <3>2, ReadsChar, Zenon DEF Empty
  <2>2. ReadChar(Empty(Plain), "\\") = Empty(mid)
    <3>1. ShQuoting(Plain, "\\") = mid
      BY DEF ShQuoting, Plain
    <3>2. Literal(Plain, "\\") = <<>>
      BY DEF Literal, Plain
    <3>. QED BY <2>0, <3>1, <3>2, ReadsChar, Zenon DEF Empty
  <2>3. ReadChar(Empty(mid), "'") = [q |-> Plain, word |-> <<"'">>]
    <3>1. ShQuoting(mid, "'") = Plain
      BY DEF ShQuoting
    <3>2. Literal(mid, "'") = <<"'">>
      BY DEF Literal
    <3>. QED BY <2>0, <3>1, <3>2, ReadsChar, Zenon DEF Empty
  <2>4. ReadChar([q |-> Plain, word |-> <<"'">>], "'") = [q |-> inside, word |-> <<"'">>]
    <3>1. ShQuoting(Plain, "'") = inside
      BY DEF ShQuoting, Plain, Toggle
    <3>2. Literal(Plain, "'") = <<>>
      BY DEF Literal, Plain
    <3>. QED BY <2>0, <3>1, <3>2, ReadsChar, Zenon
  <2>5. ReadWord(inside, <<"'", "\\", "'", "'">>)
          = ReadChar(ReadChar(ReadChar(ReadChar(Empty(inside), "'"), "\\"), "'"), "'")
    BY ReadFour
  <2>6. shell_single_quote(ch) = <<"'", "\\", "'", "'">>
    BY <1>2, Zenon DEF shell_single_quote
  <2>. QED BY <1>2, <2>1, <2>2, <2>3, <2>4, <2>5, <2>6, Zenon
<1>3. CASE ch # "'"
  <2>1. ReadWord(inside, <<ch>>) = ReadChar(Empty(inside), ch)
    BY ReadOne, Zenon
  <2>2. ReadChar(Empty(inside), ch) = [q |-> inside, word |-> <<ch>>]
    <3>1. ShQuoting(inside, ch) = inside
      BY <1>3 DEF ShQuoting
    <3>2. Literal(inside, ch) = <<ch>>
      BY <1>3 DEF Literal
    <3>3. <<>> \o <<ch>> = <<ch>>
      OBVIOUS
    <3>4. ReadChar(Empty(inside), ch) = [q |-> ShQuoting(inside, ch), word |-> <<>> \o Literal(inside, ch)]
      BY ReadsChar, Zenon DEF Empty
    <3>. QED BY <3>1, <3>2, <3>3, <3>4
  <2>3. shell_single_quote(ch) = <<ch>>
    BY <1>3, Zenon DEF shell_single_quote
  <2>. QED BY <2>1, <2>2, <2>3, Zenon
<1>. QED BY <1>2, <1>3

\* A line that the shell accepts gets the elevator before every command and nowhere
\* else, if it is not wrapped; and otherwise it is wrapped whole (elevate.h:9-13): but for
\* lines with what the loops overlook, and those with a reserved word, where it stands wrong.
THEOREM Elevated == Spec => []ElevatesEachCommand
<1>1. ElevateInv => ElevatesEachCommand
  <2>1. SUFFICES ASSUME ElevateInv, IsSimple, ~odd
                 PROVE  /\ ~sh.bad /\ ~sh.reserved => placed
                        /\ sh.reserved => ~placed
    BY Wrapped DEF ElevatesEachCommand
  <2>2. ~GivenUp
    BY <2>1 DEF IsSimple, GivenUp
  <2>3. CASE Misplaced
    BY <2>3 DEF Misplaced
  <2>4. CASE Agree
    BY <2>4 DEF Agree
  <2>. QED BY <2>1, <2>2, <2>3, <2>4 DEF ElevateInv
<1>. QED BY <1>1, LoopsAgree, PTL

-----------------------------------------------------------------------------
(* pidof.c, process_utils.c: any process ids, any names, any number of processes *)

Processes == [state : {"free", "running", "zombie"}, name : Names, ours : BOOLEAN]

PidsType ==
  /\ proc \in [Pids -> Processes]
  /\ doing \in {"idle", "readdir", "open", "found", "none"}
  /\ child \in Pids \cup {0}
  /\ entry \in Nat
  /\ hadName \subseteq Pids /\ keptName \subseteq Pids

\* The number of the child is taken from fork to wait.
ChildThere == child # 0 => Taken(child)

Scanning == doing \in {"readdir", "open"}

\* What Observe keeps up: the two sets enclose the processes that have the name now.
NamesEnclosed == Scanning => Named \subseteq hadName /\ keptName \subseteq Named

\* A process that had the name all along is still to come in the directory.
ToCome ==
  /\ doing = "open" => entry \in Pids
  /\ doing = "readdir" => \A p \in keptName : p > entry
  /\ doing = "open" => \A p \in keptName : p >= entry

PidofVerdict ==
  /\ doing = "found" => entry \in hadName
  /\ doing = "none" => keptName = {}

PidsInv == PidsType /\ ChildThere /\ NamesEnclosed /\ ToCome /\ PidofVerdict

LEMMA NamedPids == Named \subseteq Pids
BY DEF Named

LEMMA PidsInitInv == ASSUME PidsInit PROVE PidsInv
<1>1. NoProcess \in Processes
  BY PidsAssumption DEF NoProcess, Processes
<1>2. proc \in [Pids -> Processes]
  BY <1>1 DEF PidsInit, Processes
<1>. QED
  BY <1>2 DEF PidsInit, PidsInv, PidsType, ChildThere, NamesEnclosed, Scanning, ToCome, PidofVerdict

-----------------------------------------------------------------------------
(* Processes that begin and end *)

\* Whatever happens to the processes, Observe keeps the sets right, as long as the
\* program goes on where it was.
LEMMA ObserveKeeps ==
  ASSUME PidsType, NamesEnclosed, ToCome, PidofVerdict, Observe, UNCHANGED <<doing, entry>>
  PROVE  /\ hadName' \subseteq Pids /\ keptName' \subseteq Pids
         /\ NamesEnclosed' /\ ToCome' /\ PidofVerdict'
<1>0. Named' \subseteq Pids
  BY DEF Named
<1>1. CASE Scanning
  <2>1. hadName' = hadName \cup Named' /\ keptName' = keptName \cap Named'
    BY <1>1 DEF Observe, Scanning
  <2>2. keptName' \subseteq keptName /\ doing \notin {"found", "none"}
    BY <2>1, <1>1 DEF Scanning
  <2>. QED
    BY <1>0, <2>1, <2>2 DEF PidsType, NamesEnclosed, Scanning, ToCome, PidofVerdict
<1>2. CASE ~Scanning
  <2>1. UNCHANGED <<hadName, keptName>>
    BY <1>2 DEF Observe, Scanning
  <2>. QED
    BY <1>2, <2>1 DEF PidsType, NamesEnclosed, Scanning, ToCome, PidofVerdict
<1>. QED BY <1>1, <1>2

\* A change of the processes that leaves the child's number taken keeps the invariant.
LEMMA ProcessesKeep ==
  ASSUME PidsInv, Observe, UNCHANGED <<doing, child, entry>>,
         proc' \in [Pids -> Processes],
         child # 0 => proc'[child].state # "free"
  PROVE  PidsInv'
<1>1. ChildThere'
  BY DEF PidsInv, ChildThere, Taken
<1>. QED
  BY <1>1, ObserveKeeps DEF PidsInv, PidsType

LEMMA AppearInv == ASSUME PidsInv, Appear PROVE PidsInv'
<1>1. PICK p \in Pids, n \in Names, o \in BOOLEAN :
        /\ ~Taken(p)
        /\ proc' = [proc EXCEPT ![p] = [state |-> "running", name |-> n, ours |-> o]]
  BY DEF Appear
<1>2. proc' \in [Pids -> Processes]
  BY <1>1 DEF PidsInv, PidsType, Processes
<1>3. child # 0 => child # p
  BY <1>1 DEF PidsInv, ChildThere
<1>4. child # 0 => proc'[child].state # "free"
  BY <1>1, <1>3 DEF PidsInv, PidsType, ChildThere, Taken
<1>. QED
  BY <1>2, <1>4, ProcessesKeep DEF Appear

LEMMA DisappearInv == ASSUME PidsInv, Disappear PROVE PidsInv'
<1>1. PICK p \in Pids \ {child} : proc' = [proc EXCEPT ![p] = NoProcess]
  BY DEF Disappear
<1>2. proc' \in [Pids -> Processes]
  BY <1>1, PidsAssumption DEF PidsInv, PidsType, Processes, NoProcess
<1>3. child # 0 => proc'[child].state # "free"
  BY <1>1 DEF PidsInv, PidsType, ChildThere, Taken
<1>. QED
  BY <1>2, <1>3, ProcessesKeep DEF Disappear

LEMMA BecomeInv == ASSUME PidsInv, Become PROVE PidsInv'
<1>0. child \in Pids /\ proc[child] \in Processes
  BY DEF PidsInv, PidsType, Become
<1>1. PICK n \in Names, o \in BOOLEAN :
        proc' = [proc EXCEPT ![child].name = n, ![child].ours = o]
  BY DEF Become
<1>2. proc' \in [Pids -> Processes]
  BY <1>0, <1>1 DEF PidsInv, PidsType, Processes
<1>3. proc'[child].state # "free"
  BY <1>0, <1>1 DEF PidsInv, PidsType, Become, Processes
<1>. QED
  BY <1>2, <1>3, ProcessesKeep DEF Become

LEMMA ExitInv == ASSUME PidsInv, Exit PROVE PidsInv'
<1>0. child \in Pids /\ proc[child] \in Processes
  BY DEF PidsInv, PidsType, Exit
<1>1. proc' = [proc EXCEPT ![child].state = "zombie"]
  BY DEF Exit
<1>2. proc' \in [Pids -> Processes]
  BY <1>0, <1>1 DEF PidsInv, PidsType, Processes
<1>3. proc'[child].state # "free"
  BY <1>0, <1>1 DEF PidsInv, PidsType, Processes
<1>. QED
  BY <1>2, <1>3, ProcessesKeep DEF Exit

-----------------------------------------------------------------------------
(* The program *)

LEMMA SpawnInv == ASSUME PidsInv, process_spawn PROVE PidsInv'
<1>0. doing = "idle" /\ UNCHANGED <<doing, entry, hadName, keptName>>
  BY DEF process_spawn
<1>1. CASE UNCHANGED <<proc, child>>
  BY <1>0, <1>1 DEF PidsInv, PidsType, ChildThere, Taken, NamesEnclosed, Scanning, ToCome, PidofVerdict
<1>2. ASSUME NEW p \in Pids,
             proc' = [proc EXCEPT ![p] = [state |-> "running", name |-> Own, ours |-> TRUE]],
             child' = p
      PROVE  PidsInv'
  <2>1. proc' \in [Pids -> Processes]
    BY <1>2, PidsAssumption DEF PidsInv, PidsType, Processes
  <2>2. ChildThere'
    BY <1>2 DEF PidsInv, PidsType, ChildThere, Taken
  <2>. QED
    BY <1>0, <1>2, <2>1, <2>2 DEF PidsInv, PidsType, NamesEnclosed, Scanning, ToCome, PidofVerdict
<1>. QED
  BY <1>1, <1>2 DEF process_spawn

LEMMA WaitInv == ASSUME PidsInv, process_wait PROVE PidsInv'
<1>1. proc' \in [Pids -> Processes]
  BY PidsAssumption DEF process_wait, PidsInv, PidsType, Processes, NoProcess
<1>. QED
  BY <1>1 DEF process_wait, PidsInv, PidsType, ChildThere, NamesEnclosed, Scanning, ToCome, PidofVerdict

LEMMA PidofInv == ASSUME PidsInv, pidof PROVE PidsInv'
<1>1. /\ doing' = "readdir" /\ entry' = 0 /\ hadName' = Named /\ keptName' = Named
      /\ UNCHANGED <<proc, child>>
  BY DEF pidof
<1>2. \A p \in Named : p > 0
  BY NamedPids, PidsAssumption
<1>3. Named' = Named
  BY <1>1 DEF Named, Taken
<1>4. PidsType' /\ ChildThere'
  BY <1>1, NamedPids DEF PidsInv, PidsType, ChildThere, Taken
<1>. QED
  BY <1>1, <1>2, <1>3, <1>4 DEF PidsInv, NamesEnclosed, Scanning, ToCome, PidofVerdict

LEMMA ReadDirInv == ASSUME PidsInv, ReadDir PROVE PidsInv'
<1>. DEFINE rest == {p \in Pids : p > entry /\ Taken(p)}
<1>1. doing = "readdir" /\ UNCHANGED <<proc, child, hadName, keptName>>
  BY DEF ReadDir
<1>2. keptName \subseteq rest
  BY <1>1 DEF PidsInv, PidsType, NamesEnclosed, Scanning, ToCome, Named
<1>3. Named' = Named
  BY <1>1 DEF Named, Taken
<1>4. ChildThere'
  BY <1>1 DEF PidsInv, ChildThere, Taken
<1>5. CASE rest = {}
  <2>1. doing' = "none" /\ entry' = entry
    BY <1>5 DEF ReadDir
  <2>. QED
    BY <1>1, <1>2, <1>4, <1>5, <2>1 DEF PidsInv, PidsType, NamesEnclosed, Scanning, ToCome, PidofVerdict
<1>6. CASE rest # {}
  <2>1. doing' = "open" /\ entry' \in rest /\ \A q \in rest : entry' <= q
    BY <1>6 DEF ReadDir
  <2>2. entry' \in Pids /\ entry' \in Nat
    BY <2>1, PidsAssumption
  <2>3. \A p \in keptName : p >= entry'
    BY <1>2, <2>1, <2>2, PidsAssumption
  <2>4. PidsType'
    BY <1>1, <2>1, <2>2 DEF PidsInv, PidsType
  <2>5. NamesEnclosed'
    BY <1>1, <1>3 DEF PidsInv, NamesEnclosed, Scanning
  <2>. QED
    BY <1>1, <1>4, <2>1, <2>2, <2>3, <2>4, <2>5 DEF PidsInv, ToCome, PidofVerdict
<1>. QED BY <1>5, <1>6

LEMMA ReadCommInv == ASSUME PidsInv, ReadComm PROVE PidsInv'
<1>1. doing = "open" /\ UNCHANGED <<proc, child, entry, hadName, keptName>>
  BY DEF ReadComm
<1>2. Named' = Named
  BY <1>1 DEF Named, Taken
<1>3. ChildThere'
  BY <1>1 DEF PidsInv, ChildThere, Taken
<1>4. CASE entry \in Named
  <2>1. doing' = "found" /\ entry \in hadName
    BY <1>1, <1>4 DEF ReadComm, PidsInv, NamesEnclosed, Scanning
  <2>. QED
    BY <1>1, <1>3, <2>1 DEF PidsInv, PidsType, NamesEnclosed, Scanning, ToCome, PidofVerdict
<1>5. CASE entry \notin Named
  <2>1. doing' = "readdir"
    BY <1>5 DEF ReadComm
  <2>2. entry \notin keptName
    BY <1>1, <1>5 DEF PidsInv, NamesEnclosed, Scanning
  <2>3. \A p \in keptName : p > entry
    BY <1>1, <2>2, PidsAssumption DEF PidsInv, PidsType, ToCome
  <2>4. NamesEnclosed'
    BY <1>1, <1>2 DEF PidsInv, NamesEnclosed, Scanning
  <2>. QED
    BY <1>1, <1>3, <2>1, <2>3, <2>4 DEF PidsInv, PidsType, ToCome, PidofVerdict
<1>. QED BY <1>4, <1>5

LEMMA ReturnInv == ASSUME PidsInv, PidofReturn PROVE PidsInv'
BY DEF PidofReturn, PidsInv, PidsType, ChildThere, Taken, NamesEnclosed, Scanning, ToCome, PidofVerdict

-----------------------------------------------------------------------------

LEMMA PidsStutter == ASSUME PidsInv, UNCHANGED pidVars PROVE PidsInv'
BY DEF pidVars, PidsInv, PidsType, ChildThere, Taken, NamesEnclosed, Scanning, Named, ToCome, PidofVerdict

LEMMA PidsStep == ASSUME PidsInv, [PidsNext]_pidVars PROVE PidsInv'
BY AppearInv, DisappearInv, BecomeInv, ExitInv, SpawnInv, WaitInv, PidofInv, ReadDirInv,
   ReadCommInv, ReturnInv, PidsStutter DEF PidsNext

\* The states of pidof, of the child's number and of what has the name belong together.
THEOREM PidsInvariant == PidsSpec => []PidsInv
<1>1. PidsInit => PidsInv
  BY PidsInitInv
<1>2. PidsInv /\ [PidsNext]_pidVars => PidsInv'
  BY PidsStep
<1>. QED BY <1>1, <1>2, PTL DEF PidsSpec

\* A process id that pidof returns had the name at some time of the search, it returns
\* one if some process had it all along, and a child counts as running until it was
\* waited for, or becomes another user's: whatever processes begin and end meanwhile.
THEOREM PidsTruth == PidsSpec => []PidsTruthful
<1>1. PidsInv => PidsTruthful
  BY DEF PidsInv, PidofVerdict, ChildThere, PidsTruthful, is_process_running, PidsType
<1>. QED BY <1>1, PidsInvariant, PTL

-----------------------------------------------------------------------------
(* process_utils.c: a child's descriptors, whichever the caller has and wants *)

(* The table of descriptors *)

LEMMA Things ==
  /\ Null # Closed
  /\ \A fd : Caller(fd) # Closed /\ WriteEnd(fd) # Closed /\ ReadEnd(fd) # Closed
BY DEF Null, Closed, Caller, WriteEnd, ReadEnd

\* Of a table with a free number among the first eight there is a lowest.
LEMMA LowestFree ==
  ASSUME NEW t, NEW n \in 0 .. 7, t[n] = Closed
  PROVE  /\ Lowest(t) \in Fds /\ t[Lowest(t)] = Closed
         /\ \A e \in 0 .. Lowest(t) - 1 : t[e] # Closed
         /\ Lowest(t) \in Nat /\ Lowest(t) <= n
<1>. DEFINE Unused(d)  == t[d] = Closed
            Least(d) == Unused(d) /\ \A e \in 0 .. d - 1 : ~Unused(e)
<1>1. \E d \in 0 .. 7 : Least(d)
  <2>1. /\ 0 .. 0 - 1 = {} /\ 0 .. 1 - 1 = {0} /\ 0 .. 2 - 1 = {0, 1} /\ 0 .. 3 - 1 = {0, 1, 2}
        /\ 0 .. 4 - 1 = {0, 1, 2, 3} /\ 0 .. 5 - 1 = {0, 1, 2, 3, 4}
        /\ 0 .. 6 - 1 = {0, 1, 2, 3, 4, 5} /\ 0 .. 7 - 1 = {0, 1, 2, 3, 4, 5, 6}
        /\ 0 .. 7 = {0, 1, 2, 3, 4, 5, 6, 7}
    OBVIOUS
  <2>2. Unused(0) => Least(0)
    BY <2>1, Zenon
  <2>3. ~Unused(0) /\ Unused(1) => Least(1)
    BY <2>1, Zenon
  <2>4. ~Unused(0) /\ ~Unused(1) /\ Unused(2) => Least(2)
    BY <2>1, Zenon
  <2>5. ~Unused(0) /\ ~Unused(1) /\ ~Unused(2) /\ Unused(3) => Least(3)
    BY <2>1, Zenon
  <2>6. ~Unused(0) /\ ~Unused(1) /\ ~Unused(2) /\ ~Unused(3) /\ Unused(4) => Least(4)
    BY <2>1, Zenon
  <2>7. ~Unused(0) /\ ~Unused(1) /\ ~Unused(2) /\ ~Unused(3) /\ ~Unused(4) /\ Unused(5) => Least(5)
    BY <2>1, Zenon
  <2>8. ~Unused(0) /\ ~Unused(1) /\ ~Unused(2) /\ ~Unused(3) /\ ~Unused(4) /\ ~Unused(5) /\ Unused(6) => Least(6)
    BY <2>1, Zenon
  <2>9. /\ ~Unused(0) /\ ~Unused(1) /\ ~Unused(2) /\ ~Unused(3) /\ ~Unused(4) /\ ~Unused(5) /\ ~Unused(6)
        /\ Unused(7)
        => Least(7)
    BY <2>1, Zenon
  <2>10. Unused(n)
    OBVIOUS
  <2>. HIDE DEF Unused, Least
  <2>. QED BY <2>1, <2>2, <2>3, <2>4, <2>5, <2>6, <2>7, <2>8, <2>9, <2>10
<1>2. 0 .. 7 \subseteq Fds /\ Fds \subseteq Nat
  BY StreamsAssumption DEF Fds
<1>3. \E d \in Fds : t[d] = Closed /\ \A e \in 0 .. d - 1 : t[e] # Closed
  BY <1>1, <1>2
<1>4. Lowest(t) \in Fds /\ t[Lowest(t)] = Closed /\ \A e \in 0 .. Lowest(t) - 1 : t[e] # Closed
  BY <1>3, Zenon DEF Lowest
<1>5. Lowest(t) <= n
  <2>1. PICK d \in Nat : d = Lowest(t)
    BY <1>2, <1>4
  <2>2. SUFFICES ASSUME ~(d <= n) PROVE FALSE
    BY <2>1
  <2>3. n \in 0 .. d - 1
    BY <2>2
  <2>. QED BY <1>4, <2>1, <2>3
<1>. QED BY <1>2, <1>4, <1>5

-----------------------------------------------------------------------------
(* The invariant *)

IsTable(t) == t = [d \in Fds |-> t[d]]

Original(d) == IF d \in open THEN Caller(d) ELSE Closed

PipeEnds == [fd : {1, 2}, r : Nat, w : Nat]

Ends(i) == {pipes[i].r, pipes[i].w}

\* Both functions connect the streams in an order of their own.
Orders == {<<1, 2, 0>>, <<2, 0>>, <<0>>, <<>>, <<0, 1, 2>>, <<1, 2>>, <<2>>}

Todo == {left[k] : k \in DOMAIN left}

Options ==
  /\ fn \in {"process_spawn", "process_exec"}
  /\ inherit \subseteq Std /\ open \subseteq Std /\ capture \subseteq {1, 2}
  /\ fn = "process_spawn" => capture = {}
  /\ IsTable(fds)
  /\ at \in {"pipe", "wire", "run", "failed"}
  /\ left \in Orders

\* The ends of the pipes are above one another, and none of the caller's streams.
Pipes ==
  /\ pipes \in Seq(PipeEnds)
  /\ Len(pipes) <= Cardinality(capture)
  /\ \A i \in DOMAIN pipes :
       /\ pipes[i].fd \in capture /\ (pipes[i].fd = 1 <=> i = 1 /\ 1 \in capture)
       /\ pipes[i].r < pipes[i].w /\ pipes[i].w <= 2 * i + 2
       /\ pipes[i].r \notin open /\ pipes[i].w \notin open
  /\ \A i \in DOMAIN pipes, j \in DOMAIN pipes : i < j => pipes[i].w < pipes[j].r

\* Before the fork, what is no end of a pipe is as the caller left it.
Making ==
  at = "pipe" =>
    /\ left = IF fn = "process_exec" THEN <<1, 2, 0>> ELSE <<0, 1, 2>>
    /\ \A d \in Fds : (\A i \in DOMAIN pipes : d \notin Ends(i)) => fds[d] = Original(d)
    /\ \A i \in DOMAIN pipes : fds[pipes[i].w] = WriteEnd(pipes[i].fd)
    /\ \A i \in DOMAIN pipes : \A d \in 0 .. pipes[i].w : fds[d] # Closed

\* A pipe of a stream that is still to be connected.
Waits(i) == pipes[i].fd \in Todo

Unused(d) == \A i \in DOMAIN pipes : Waits(i) => d \notin Ends(i)

Settled(fd) == /\ fds[fd] \in {Expected(fd), Null, Closed}
               /\ open = Std => fds[fd] = Expected(fd)

\* In the child, the numbers that no waiting pipe has are as they should be.
Wiring ==
  at \in {"wire", "run"} =>
    /\ \A d \in Fds : Unused(d) =>
         /\ d \notin Std => fds[d] = Closed
         /\ d \in Todo => fds[d] = Original(d)
         /\ d \in Std \ Todo => Settled(d)
    /\ \A i \in DOMAIN pipes : Waits(i) =>
         /\ fds[pipes[i].w] \in {WriteEnd(pipes[i].fd), Null, Closed}
         /\ open = Std => fds[pipes[i].w] = WriteEnd(pipes[i].fd)
    /\ at = "run" => left = <<>>

StreamsInv == Options /\ Pipes /\ Making /\ Wiring

LEMMA CaptureSize ==
  ASSUME Options
  PROVE  /\ Cardinality(capture) \in 0 .. 2
         /\ Cardinality(capture) > 0 => capture # {}
         /\ Cardinality(capture) > 1 => capture = {1, 2}
<1>1. capture \in {{}, {1}, {2}, {1, 2}}
  BY DEF Options
<1>2. Cardinality({}) = 0 /\ \A x : IsFiniteSet({x}) /\ Cardinality({x}) = 1
  BY FS_EmptySet, FS_Singleton
<1>3. Cardinality({1} \cup {2}) = 2
  <2>0. 2 \notin {1}
    OBVIOUS
  <2>1. 2 \notin {1} /\ IsFiniteSet({1}) /\ Cardinality({1}) = 1
    BY <1>2, <2>0, Zenon
  <2>2. Cardinality({1} \cup {2}) = IF 2 \in {1} THEN Cardinality({1}) ELSE Cardinality({1}) + 1
    BY <2>1, FS_AddElement
  <2>. QED BY <2>1, <2>2
<1>4. {1} \cup {2} = {1, 2}
  OBVIOUS
<1>5. \A n \in {0, 1, 2} : n \in 0 .. 2
  OBVIOUS
<1>6. CASE capture \in {{}, {1}, {2}}
  <2>1. capture # {} => Cardinality(capture) = 1
    <3>1. Cardinality({1}) = 1 /\ Cardinality({2}) = 1
      BY <1>2, Zenon
    <3>. QED BY <1>6, <3>1, Zenon
  <2>2. capture = {} => Cardinality(capture) = 0
    BY <1>2
  <2>3. ~(0 > 0) /\ ~(0 > 1) /\ ~(1 > 1)
    OBVIOUS
  <2>. QED BY <1>5, <2>1, <2>2, <2>3, Zenon
<1>7. CASE capture = {1, 2}
  <2>1. Cardinality(capture) = 2 /\ capture # {}
    BY <1>3, <1>4, <1>7
  <2>. QED BY <1>5, <1>7, <2>1, Zenon
<1>. QED BY <1>1, <1>6, <1>7

LEMMA PipesForm ==
  ASSUME Options, Pipes
  PROVE  /\ Len(pipes) \in 0 .. 2 /\ DOMAIN pipes = 1 .. Len(pipes)
         /\ \A i \in DOMAIN pipes : /\ pipes[i].fd \in {1, 2}
                                   /\ pipes[i].r \in 0 .. 6 /\ pipes[i].w \in 0 .. 6
                                   /\ pipes[i].r < pipes[i].w
<1>1. PICK n : n = Len(pipes)
  OBVIOUS
<1>2. n \in Nat /\ DOMAIN pipes = 1 .. n /\ \A i \in 1 .. n : pipes[i] \in PipeEnds
  BY <1>1 DEF Pipes
<1>3. n \in 0 .. 2
  BY <1>1, <1>2, CaptureSize DEF Pipes
<1>4. ASSUME NEW i \in 1 .. n
      PROVE  /\ pipes[i].fd \in {1, 2} /\ pipes[i].r \in 0 .. 6 /\ pipes[i].w \in 0 .. 6
             /\ pipes[i].r < pipes[i].w
  <2>1. pipes[i].fd \in {1, 2} /\ pipes[i].r \in Nat /\ pipes[i].w \in Nat
    BY <1>2 DEF PipeEnds
  <2>2. pipes[i].r < pipes[i].w /\ pipes[i].w <= 2 * i + 2
    BY <1>2 DEF Pipes
  <2>3. 2 * i + 2 <= 6
    BY <1>3
  <2>. QED BY <2>1, <2>2, <2>3
<1>. QED BY <1>1, <1>2, <1>3, <1>4

LEMMA StreamsInitInv == ASSUME StreamsInit PROVE StreamsInv
<1>1. Options
  BY DEF StreamsInit, Options, IsTable, Orders
<1>2. pipes = <<>> /\ at = "pipe"
  BY DEF StreamsInit
<1>3. Pipes
  BY <1>1, <1>2, CaptureSize DEF Pipes
<1>4. \A d \in Fds : fds[d] = Original(d)
  BY DEF StreamsInit, Original
<1>5. Making
  BY <1>2, <1>4 DEF StreamsInit, Making
<1>. QED BY <1>1, <1>2, <1>3, <1>5 DEF StreamsInv, Wiring

-----------------------------------------------------------------------------
(* The caller *)

\* MakePipe, when pipe succeeds.
NewPipe ==
  /\ at = "pipe" /\ Len(pipes) < Cardinality(capture)
  /\ LET fd == IF pipes = <<>> /\ 1 \in capture THEN 1 ELSE 2
         r  == Lowest(fds)
         t  == [fds EXCEPT ![r] = ReadEnd(fd)]
         w  == Lowest(t)
     IN  /\ pipes' = Append(pipes, [fd |-> fd, r |-> r, w |-> w])
         /\ fds' = [t EXCEPT ![w] = WriteEnd(fd)]
  /\ UNCHANGED <<fn, inherit, capture, open, at, left>>

\* Making a pipe takes two numbers above those of the pipes before it.
LEMMA NewPipeInv == ASSUME StreamsInv, NewPipe PROVE StreamsInv'
<1>1. PICK fd : fd = IF pipes = <<>> /\ 1 \in capture THEN 1 ELSE 2
  OBVIOUS
<1>2. PICK r : r = Lowest(fds)
  OBVIOUS
<1>3. PICK t : t = [fds EXCEPT ![r] = ReadEnd(fd)]
  OBVIOUS
<1>4. PICK w : w = Lowest(t)
  OBVIOUS
<1>5. /\ at = "pipe" /\ Len(pipes) < Cardinality(capture)
       /\ pipes' = Append(pipes, [fd |-> fd, r |-> r, w |-> w])
       /\ fds' = [t EXCEPT ![w] = WriteEnd(fd)]
       /\ UNCHANGED <<fn, inherit, capture, open, at, left>>
  BY <1>1, <1>2, <1>3, <1>4, Zenon DEF NewPipe
<1>6. Options /\ Pipes /\ Making
  BY DEF StreamsInv
<1>7. PICK n : n = Len(pipes)
  OBVIOUS
<1>8. n \in {0, 1} /\ DOMAIN pipes = 1 .. n
  <2>1. Cardinality(capture) \in 0 .. 2 /\ Len(pipes) \in 0 .. 2 /\ DOMAIN pipes = 1 .. n
    BY <1>6, <1>7, CaptureSize, PipesForm
  <2>. QED BY <1>7, <1>5, <2>1
<1>9. /\ fd \in capture /\ fd \in {1, 2} /\ (fd = 1 <=> n + 1 = 1 /\ 1 \in capture)
  <2>1. pipes = <<>> <=> n = 0
    BY <1>6, <1>7 DEF Pipes
  <2>2. Cardinality(capture) > n
    BY <1>6, <1>7, <1>8, <1>5, CaptureSize
  <2>3. capture # {} /\ capture \subseteq {1, 2} /\ (n = 1 => capture = {1, 2})
    BY <1>6, <1>8, <2>2, CaptureSize DEF Options
  <2>4. CASE n = 0
    <3>1. fd = IF 1 \in capture THEN 1 ELSE 2
      BY <1>1, <2>1, <2>4
    <3>2. n + 1 = 1
      BY <2>4
    <3>3. fd \in capture /\ (fd = 1 <=> 1 \in capture)
      BY <2>3, <3>1
    <3>. QED BY <3>1, <3>2, <3>3
  <2>5. CASE n = 1
    <3>1. fd = 2 /\ 2 \in capture /\ n + 1 # 1
      BY <1>1, <2>1, <2>3, <2>5
    <3>. QED BY <3>1
  <2>. QED BY <1>8, <2>4, <2>5
<1>10. \A d \in Fds : (\A i \in 1 .. n : d \notin Ends(i)) => fds[d] = Original(d)
  BY <1>6, <1>8, <1>5 DEF Making
<1>11. \A i \in 1 .. n : /\ fds[pipes[i].w] = WriteEnd(pipes[i].fd)
                        /\ \A d \in 0 .. pipes[i].w : fds[d] # Closed
  BY <1>6, <1>8, <1>5 DEF Making
<1>12. ASSUME NEW i \in 1 .. n
      PROVE  \E x, y \in Nat : /\ pipes[i].r = x /\ pipes[i].w = y /\ x < y /\ y <= 2 * n + 2
                             /\ Ends(i) = {x, y}
  <2>1. PICK x, y : x = pipes[i].r /\ y = pipes[i].w
    OBVIOUS
  <2>2. x \in 0 .. 6 /\ y \in 0 .. 6 /\ x < y
    BY <1>6, <1>8, <2>1, PipesForm
  <2>3. y <= 2 * i + 2
    BY <1>6, <1>8, <2>1 DEF Pipes
  <2>4. 2 * i + 2 <= 2 * n + 2
    BY <1>8
  <2>5. x \in Nat /\ y \in Nat /\ y <= 2 * n + 2
    BY <1>8, <2>2, <2>3, <2>4
  <2>. QED BY <2>1, <2>2, <2>5, Zenon DEF Ends
<1>13. ASSUME NEW d \in 2 * n + 3 .. 7
      PROVE  d \in Fds /\ fds[d] = Closed
  <2>1. d \in Fds /\ d \notin open
    BY <1>6, <1>8, StreamsAssumption DEF Fds, Options, Std
  <2>2. \A i \in 1 .. n : d \notin Ends(i)
    <3>1. TAKE i \in 1 .. n
    <3>2. PICK x, y \in Nat : x < y /\ y <= 2 * n + 2 /\ Ends(i) = {x, y}
      BY <1>12
    <3>3. d # x /\ d # y
      BY <1>8, <3>2
    <3>. QED BY <3>2, <3>3
  <2>. QED BY <1>10, <2>1, <2>2 DEF Original
<1>14. /\ r \in Fds /\ r \in Nat /\ fds[r] = Closed /\ r <= 2 * n + 3
      /\ \A e \in 0 .. r - 1 : fds[e] # Closed
  <2>1. 2 * n + 3 \in 0 .. 7 /\ 2 * n + 3 \in 2 * n + 3 .. 7
    BY <1>8
  <2>2. fds[2 * n + 3] = Closed
    BY <1>13, <2>1
  <2>. QED BY <1>2, <2>1, <2>2, LowestFree
<1>15. t[r] = ReadEnd(fd) /\ \A d \in Fds \ {r} : t[d] = fds[d]
  BY <1>6, <1>14, <1>3 DEF Options, IsTable
<1>16. /\ w \in Fds /\ w \in Nat /\ t[w] = Closed /\ w <= 2 * n + 4
      /\ \A e \in 0 .. w - 1 : t[e] # Closed
  <2>1. 2 * n + 4 \in 0 .. 7 /\ 2 * n + 4 \in 2 * n + 3 .. 7 /\ 2 * n + 4 # r
    BY <1>8, <1>14
  <2>2. t[2 * n + 4] = Closed
    BY <1>13, <1>15, <2>1
  <2>. QED BY <1>4, <2>1, <2>2, LowestFree
<1>17. r < w /\ fds[w] = Closed
  <2>1. w # r
    BY <1>15, <1>16, Things
  <2>2. fds[w] = Closed
    BY <1>15, <1>16, <2>1
  <2>3. w \notin 0 .. r - 1
    BY <1>14, <2>2
  <2>. QED BY <1>14, <1>16, <2>1, <2>2, <2>3
<1>18. \A i \in 1 .. n : pipes[i].w < r
  <2>1. TAKE i \in 1 .. n
  <2>2. PICK y \in Nat : y = pipes[i].w
    BY <1>12
  <2>3. r \notin 0 .. y
    BY <1>14, <1>11, <2>2
  <2>4. y < r
    BY <1>14, <2>3
  <2>. QED BY <2>2, <2>4
<1>19. r \notin open /\ w \notin open
  <2>1. \A i \in 1 .. n : r \notin Ends(i) /\ w \notin Ends(i)
    <3>1. TAKE i \in 1 .. n
    <3>2. PICK x, y \in Nat : pipes[i].w = y /\ x < y /\ Ends(i) = {x, y}
      BY <1>12
    <3>3. y < r
      BY <1>18, <3>2
    <3>4. r # x /\ r # y /\ w # x /\ w # y
      BY <1>14, <1>16, <1>17, <3>2, <3>3
    <3>. QED BY <3>2, <3>4
  <2>2. fds[r] = Original(r) /\ fds[w] = Original(w)
    BY <1>10, <1>14, <1>16, <2>1
  <2>. QED BY <1>14, <1>17, <2>2, Things DEF Original
<1>20. /\ IsTable(fds)'
       /\ fds'[r] = ReadEnd(fd) /\ fds'[w] = WriteEnd(fd)
       /\ \A d \in Fds \ {r, w} : fds'[d] = fds[d]
  <2>1. IsTable(t)
    BY <1>6, <1>3 DEF Options, IsTable
  <2>2. fds' = [t EXCEPT ![w] = WriteEnd(fd)] /\ r # w
    BY <1>14, <1>16, <1>17, <1>5
  <2>3. IsTable(fds')
    BY <2>1, <2>2 DEF IsTable
  <2>4. \A d \in Fds : fds'[d] = IF d = w THEN WriteEnd(fd) ELSE t[d]
    BY <2>1, <2>2 DEF IsTable
  <2>. QED BY <1>14, <1>15, <1>16, <2>2, <2>3, <2>4 DEF IsTable
<1>21. /\ DOMAIN pipes' = 1 .. n + 1 /\ Len(pipes') = n + 1
       /\ pipes'[n + 1] = [fd |-> fd, r |-> r, w |-> w]
       /\ \A i \in 1 .. n : pipes'[i] = pipes[i]
       /\ pipes' \in Seq(PipeEnds)
  BY <1>6, <1>7, <1>8, <1>9, <1>14, <1>16, <1>5 DEF Pipes, PipeEnds
<1>22. Options'
  BY <1>6, <1>20, <1>5 DEF Options
<1>23. Pipes'
  <2>1. n + 1 <= Cardinality(capture)
    BY <1>6, <1>7, <1>8, <1>5, CaptureSize
  <2>2. ASSUME NEW i \in 1 .. n + 1
        PROVE  /\ pipes'[i].fd \in capture /\ (pipes'[i].fd = 1 <=> i = 1 /\ 1 \in capture)
               /\ pipes'[i].r < pipes'[i].w /\ pipes'[i].w <= 2 * i + 2
               /\ pipes'[i].r \notin open /\ pipes'[i].w \notin open
    <3>1. CASE i \in 1 .. n
      BY <1>6, <1>8, <1>21, <3>1 DEF Pipes
    <3>2. CASE i = n + 1
      BY <1>8, <1>9, <1>16, <1>17, <1>19, <1>21, <3>2
    <3>. QED BY <1>8, <3>1, <3>2
  <2>3. ASSUME NEW i \in 1 .. n + 1, NEW j \in 1 .. n + 1, i < j
        PROVE  pipes'[i].w < pipes'[j].r
    <3>1. i \in 1 .. n
      BY <1>8, <2>3
    <3>2. CASE j \in 1 .. n
      BY <1>6, <1>8, <1>21, <2>3, <3>1, <3>2 DEF Pipes
    <3>3. CASE j = n + 1
      BY <1>18, <1>21, <3>1, <3>3
    <3>. QED BY <1>8, <3>2, <3>3
  <2>. QED BY <1>21, <1>5, <2>1, <2>2, <2>3 DEF Pipes
<1>24. Making'
  <2>1. ASSUME NEW d \in Fds, \A i \in 1 .. n + 1 : d \notin Ends(i)'
        PROVE  fds'[d] = Original(d)
    <3>1. n + 1 \in 1 .. n + 1 /\ \A i \in 1 .. n : i \in 1 .. n + 1
      BY <1>8
    <3>2. d \notin {r, w}
      BY <1>21, <2>1, <3>1 DEF Ends
    <3>3. \A i \in 1 .. n : d \notin Ends(i)
      BY <1>21, <2>1, <3>1 DEF Ends
    <3>. QED BY <1>10, <1>20, <3>2, <3>3
  <2>2. ASSUME NEW i \in 1 .. n + 1
        PROVE  /\ fds'[pipes'[i].w] = WriteEnd(pipes'[i].fd)
               /\ \A d \in 0 .. pipes'[i].w : fds'[d] # Closed
    <3>0. \A d \in 0 .. w : d \in Fds
      BY <1>16, StreamsAssumption DEF Fds
    <3>1. CASE i \in 1 .. n
      <4>1. pipes'[i] = pipes[i] /\ pipes[i].w < r /\ pipes[i].w \in 0 .. w
        <5>1. PICK y \in Nat : y = pipes[i].w
          BY <1>12, <3>1
        <5>2. y < r /\ y \in 0 .. w
          BY <1>14, <1>16, <1>17, <1>18, <3>1, <5>1
        <5>. QED BY <1>21, <3>1, <5>1, <5>2
      <4>2. \A d \in 0 .. pipes[i].w : d \in Fds \ {r, w}
        BY <1>14, <1>16, <1>17, <3>0, <4>1
      <4>3. pipes[i].w \in 0 .. pipes[i].w
        BY <4>1
      <4>. QED BY <1>11, <1>20, <3>1, <4>1, <4>2, <4>3
    <3>2. CASE i = n + 1
      <4>1. pipes'[i].w = w /\ pipes'[i].fd = fd
        BY <1>21, <3>2
      <4>2. ASSUME NEW d \in 0 .. w PROVE fds'[d] # Closed
        <5>1. CASE d = w
          BY <1>20, <5>1, Things
        <5>2. CASE d = r
          BY <1>20, <5>2, Things
        <5>3. CASE d # w /\ d # r
          <6>1. d \in 0 .. w - 1 /\ d \in Fds
            BY <1>16, <3>0, <5>3
          <6>2. t[d] # Closed /\ t[d] = fds[d] /\ fds'[d] = fds[d]
            BY <1>15, <1>16, <1>20, <5>3, <6>1
          <6>. QED BY <6>2
        <5>. QED BY <5>1, <5>2, <5>3
      <4>. QED BY <1>20, <4>1, <4>2
    <3>. QED BY <1>8, <3>1, <3>2
  <2>3. left' = IF fn' = "process_exec" THEN <<1, 2, 0>> ELSE <<0, 1, 2>>
    BY <1>6, <1>5 DEF Making
  <2>4. \A d \in Fds : Original(d)' = Original(d)
    BY <1>5 DEF Original
  <2>. QED BY <1>21, <2>1, <2>2, <2>3, <2>4 DEF Making
<1>. QED BY <1>22, <1>23, <1>24, <1>5 DEF StreamsInv, Wiring

\* On a failure nothing is promised.
LEMMA FailedInv ==
  ASSUME StreamsInv, at' = "failed", IsTable(fds)',
         UNCHANGED <<fn, inherit, capture, open, pipes, left>>
  PROVE  StreamsInv'
BY DEF StreamsInv, Options, Pipes, Making, Wiring

LEMMA MakePipeInv == ASSUME StreamsInv, MakePipe PROVE StreamsInv'
<1>1. CASE NewPipe
  BY <1>1, NewPipeInv
<1>2. CASE ~NewPipe
  <2>1. /\ at' = "failed" /\ UNCHANGED <<fn, inherit, capture, open, pipes, left>>
        /\ fds' = [d \in Fds |-> IF \E i \in DOMAIN pipes : d \in {pipes[i].r, pipes[i].w}
                                  THEN Closed ELSE fds[d]]
    BY <1>2, Zenon DEF MakePipe, NewPipe
  <2>2. IsTable(fds')
    BY <2>1 DEF IsTable
  <2>. QED BY <2>1, <2>2, FailedInv DEF IsTable
<1>. QED BY <1>1, <1>2

LEMMA TodoAtFirst ==
  ASSUME left \in {<<1, 2, 0>>, <<0, 1, 2>>}
  PROVE  Todo = {0, 1, 2}
<1>1. CASE left = <<1, 2, 0>>
  BY <1>1 DEF Todo
<1>2. CASE left = <<0, 1, 2>>
  BY <1>2 DEF Todo
<1>. QED BY <1>1, <1>2

LEMMA ForkInv == ASSUME StreamsInv, Fork PROVE StreamsInv'
<1>0. /\ at = "pipe" /\ UNCHANGED <<fn, inherit, capture, open, pipes, left>>
      /\ Options /\ Pipes /\ Making
  BY DEF Fork, StreamsInv
<1>1. CASE at' = "wire" /\ UNCHANGED fds
  <2>1. Options' /\ Pipes'
    BY <1>0, <1>1 DEF Options, Pipes
  <2>2. Todo = {0, 1, 2}
    BY <1>0, TodoAtFirst DEF Making
  <2>3. ASSUME NEW i \in DOMAIN pipes PROVE Waits(i)
    BY <1>0, <2>2, PipesForm DEF Waits
  <2>4. ASSUME NEW d \in Fds, Unused(d) PROVE fds[d] = Original(d)
    BY <1>0, <2>3, <2>4 DEF Making, Unused
  <2>5. Todo' = Todo /\ (\A i : Waits(i)' = Waits(i)) /\ (\A d : Unused(d)' = Unused(d) /\ Original(d)' = Original(d))
    BY <1>0 DEF Todo, Waits, Unused, Ends, Original
  <2>6. \A d \in Fds \ Std : Original(d) = Closed
    BY <1>0 DEF Original, Options
  <2>7. Wiring'
    <3>1. ASSUME NEW d \in Fds, Unused(d)'
          PROVE  /\ d \notin Std => fds'[d] = Closed
                 /\ d \in Todo' => fds'[d] = Original(d)'
                 /\ d \in Std \ Todo' => Settled(d)'
      <4>1. fds'[d] = Original(d)
        BY <1>1, <2>4, <2>5, <3>1
      <4>2. Std \ Todo' = {}
        BY <2>2, <2>5 DEF Std
      <4>. QED BY <2>5, <2>6, <4>1, <4>2
    <3>2. ASSUME NEW i \in DOMAIN pipes
          PROVE  fds'[pipes'[i].w] = WriteEnd(pipes'[i].fd)
      BY <1>0, <1>1 DEF Making
    <3>. QED BY <1>0, <1>1, <3>1, <3>2 DEF Wiring
  <2>. QED BY <1>1, <2>1, <2>7 DEF StreamsInv, Making
<1>2. CASE at' = "failed"
  <2>1. IsTable(fds)'
    BY <1>0, <1>2 DEF Fork, Options, IsTable
  <2>. QED BY <1>0, <1>2, <2>1, FailedInv
<1>. QED BY <1>1, <1>2 DEF Fork

-----------------------------------------------------------------------------
(* The child *)

LEMMA NextStream ==
  ASSUME left \in Orders, left # <<>>, left' = Tail(left)
  PROVE  /\ left' \in Orders /\ Head(left) \in Std /\ Head(left) \in Todo
         /\ Todo' = Todo \ {Head(left)}
         /\ Head(left) = 2 => 1 \notin Todo'
<1>1. CASE left = <<1, 2, 0>>
  <2>1. left' = <<2, 0>> /\ Head(left) = 1
    BY <1>1
  <2>2. Todo = {0, 1, 2} /\ Todo' = {0, 2}
    BY <1>1, <2>1 DEF Todo
  <2>3. left' \in Orders
    BY <2>1, Zenon DEF Orders
  <2>4. Head(left) \in Std /\ Head(left) \in Todo
    BY <2>1, <2>2 DEF Std
  <2>5. Todo' = Todo \ {Head(left)} /\ (Head(left) = 2 => 1 \notin Todo')
    BY <2>1, <2>2
  <2>. QED BY <2>3, <2>4, <2>5
<1>2. CASE left = <<2, 0>>
  <2>1. left' = <<0>> /\ Head(left) = 2
    BY <1>2
  <2>2. Todo = {0, 2} /\ Todo' = {0}
    BY <1>2, <2>1 DEF Todo
  <2>3. left' \in Orders
    BY <2>1, Zenon DEF Orders
  <2>4. Head(left) \in Std /\ Head(left) \in Todo
    BY <2>1, <2>2 DEF Std
  <2>5. Todo' = Todo \ {Head(left)} /\ (Head(left) = 2 => 1 \notin Todo')
    BY <2>1, <2>2
  <2>. QED BY <2>3, <2>4, <2>5
<1>3. CASE left = <<0>>
  <2>1. left' = <<>> /\ Head(left) = 0
    BY <1>3
  <2>2. Todo = {0} /\ Todo' = {}
    BY <1>3, <2>1 DEF Todo
  <2>3. left' \in Orders
    BY <2>1, Zenon DEF Orders
  <2>4. Head(left) \in Std /\ Head(left) \in Todo
    BY <2>1, <2>2 DEF Std
  <2>5. Todo' = Todo \ {Head(left)} /\ (Head(left) = 2 => 1 \notin Todo')
    BY <2>1, <2>2
  <2>. QED BY <2>3, <2>4, <2>5
<1>4. CASE left = <<0, 1, 2>>
  <2>1. left' = <<1, 2>> /\ Head(left) = 0
    BY <1>4
  <2>2. Todo = {0, 1, 2} /\ Todo' = {1, 2}
    BY <1>4, <2>1 DEF Todo
  <2>3. left' \in Orders
    BY <2>1, Zenon DEF Orders
  <2>4. Head(left) \in Std /\ Head(left) \in Todo
    BY <2>1, <2>2 DEF Std
  <2>5. Todo' = Todo \ {Head(left)} /\ (Head(left) = 2 => 1 \notin Todo')
    BY <2>1, <2>2
  <2>. QED BY <2>3, <2>4, <2>5
<1>5. CASE left = <<1, 2>>
  <2>1. left' = <<2>> /\ Head(left) = 1
    BY <1>5
  <2>2. Todo = {1, 2} /\ Todo' = {2}
    BY <1>5, <2>1 DEF Todo
  <2>3. left' \in Orders
    BY <2>1, Zenon DEF Orders
  <2>4. Head(left) \in Std /\ Head(left) \in Todo
    BY <2>1, <2>2 DEF Std
  <2>5. Todo' = Todo \ {Head(left)} /\ (Head(left) = 2 => 1 \notin Todo')
    BY <2>1, <2>2
  <2>. QED BY <2>3, <2>4, <2>5
<1>6. CASE left = <<2>>
  <2>1. left' = <<>> /\ Head(left) = 2
    BY <1>6
  <2>2. Todo = {2} /\ Todo' = {}
    BY <1>6, <2>1 DEF Todo
  <2>3. left' \in Orders
    BY <2>1, Zenon DEF Orders
  <2>4. Head(left) \in Std /\ Head(left) \in Todo
    BY <2>1, <2>2 DEF Std
  <2>5. Todo' = Todo \ {Head(left)} /\ (Head(left) = 2 => 1 \notin Todo')
    BY <2>1, <2>2
  <2>. QED BY <2>3, <2>4, <2>5
<1>. QED BY <1>1, <1>2, <1>3, <1>4, <1>5, <1>6 DEF Orders

\* Two pipes belong to two streams, and the second has higher numbers than a stream.
LEMMA TwoPipes ==
  ASSUME Options, Pipes, NEW i \in DOMAIN pipes, NEW j \in DOMAIN pipes, i # j
  PROVE  /\ pipes[i].fd # pipes[j].fd
         /\ pipes[j].w \notin Ends(i)
         /\ pipes[i].fd = 1 => pipes[j].w \notin {0, 1, 2}
<1>1. PICK n : n = Len(pipes)
  OBVIOUS
<1>2. n \in 0 .. 2 /\ DOMAIN pipes = 1 .. n
  BY <1>1, PipesForm
<1>3. n = 2 /\ {i, j} = {1, 2}
  BY <1>2
<1>4. PICK a, b, e, d : a = pipes[1].r /\ b = pipes[1].w /\ e = pipes[2].r /\ d = pipes[2].w
  OBVIOUS
<1>5. 1 \in DOMAIN pipes /\ 2 \in DOMAIN pipes
  BY <1>2, <1>3
<1>6. a \in 0 .. 6 /\ b \in 0 .. 6 /\ e \in 0 .. 6 /\ d \in 0 .. 6 /\ a < b /\ e < d
  BY <1>4, <1>5, PipesForm
<1>7. b < e
  BY <1>4, <1>5 DEF Pipes
<1>8. /\ Ends(1) = {a, b} /\ Ends(2) = {e, d}
      /\ d \notin {a, b} /\ b \notin {e, d} /\ d \notin {0, 1, 2}
  BY <1>4, <1>6, <1>7 DEF Ends
<1>9. capture = {1, 2}
  <2>1. Len(pipes) = 2 /\ Len(pipes) <= Cardinality(capture) /\ Cardinality(capture) \in 0 .. 2
    BY <1>1, <1>3, CaptureSize DEF Pipes
  <2>2. Cardinality(capture) > 1
    BY <2>1
  <2>. QED BY <2>2, CaptureSize
<1>10. pipes[1].fd = 1 /\ pipes[2].fd # 1
  BY <1>5, <1>9 DEF Pipes
<1>11. CASE i = 1 /\ j = 2
  BY <1>4, <1>8, <1>10, <1>11
<1>12. CASE i = 2 /\ j = 1
  BY <1>4, <1>8, <1>10, <1>12
<1>. QED BY <1>3, <1>11, <1>12

\* A stream that is captured: its pipe is duplicated, then both ends are closed.
LEMMA CapturedInv ==
  ASSUME StreamsInv, at = "wire", left # <<>>, left' = Tail(left),
         UNCHANGED <<fn, inherit, capture, open, pipes, at>>,
         Head(left) \in capture,
         NEW i \in DOMAIN pipes, pipes[i].fd = Head(left),
         fds' = Piped(fds, pipes[i], Head(left))
  PROVE  StreamsInv'
<1>0. Options /\ Pipes /\ Wiring
  BY DEF StreamsInv
<1>1. PICK fd : fd = Head(left)
  OBVIOUS
<1>2. PICK x, y : x = pipes[i].r /\ y = pipes[i].w
  OBVIOUS
<1>3. /\ left' \in Orders /\ fd \in Std /\ fd \in Todo /\ Todo' = Todo \ {fd}
      /\ fd = 2 => 1 \notin Todo'
  BY <1>0, <1>1, NextStream DEF Options
<1>4. x \in 0 .. 6 /\ y \in 0 .. 6 /\ Ends(i) = {x, y}
  BY <1>0, <1>2, PipesForm DEF Ends
<1>5. x \in Fds /\ y \in Fds /\ fd \in Fds
  BY <1>3, <1>4, StreamsAssumption DEF Fds, Std
<1>6. fds' = [[[fds EXCEPT ![fd] = fds[y]] EXCEPT ![x] = Closed] EXCEPT ![y] = Closed]
  BY <1>1, <1>2, Zenon DEF Piped, Close, Dup2
<1>7. /\ IsTable(fds')
      /\ \A d \in Fds : fds'[d] = IF d \in {x, y} THEN Closed ELSE IF d = fd THEN fds[y] ELSE fds[d]
  <2>1. IsTable(fds)
    BY <1>0 DEF Options
  <2>. QED BY <1>5, <1>6, <2>1 DEF IsTable
<1>8. \A j \in DOMAIN pipes : Waits(j)' <=> Waits(j) /\ j # i
  BY <1>0, <1>1, <1>3, TwoPipes DEF Waits
<1>9. x \notin open /\ y \notin open /\ Waits(i)
  BY <1>0, <1>1, <1>2, <1>3 DEF Pipes, Waits
<1>10. \A d : Original(d)' = Original(d) /\ Expected(d)' = Expected(d) /\ \A j : Ends(j)' = Ends(j)
  BY DEF Original, Expected, Ends
<1>11. Expected(fd) = WriteEnd(fd)
  BY <1>1 DEF Expected
<1>12. fds[y] \in {WriteEnd(fd), Null, Closed} /\ (open = Std => fds[y] = WriteEnd(fd))
  BY <1>0, <1>1, <1>2, <1>9 DEF Wiring
<1>13. ASSUME NEW d \in Fds, Unused(d)'
       PROVE  /\ d \notin Std => fds'[d] = Closed
              /\ d \in Todo' => fds'[d] = Original(d)
              /\ d \in Std \ Todo' => Settled(d)'
  <2>1. CASE d \in {x, y}
    <3>1. fds'[d] = Closed /\ d \notin open
      BY <1>7, <1>9, <2>1
    <3>. QED BY <3>1, <1>10 DEF Original, Settled
  <2>2. CASE d \notin {x, y} /\ d # fd
    <3>1. Unused(d)
      BY <1>4, <1>8, <1>10, <1>13, <2>2 DEF Unused
    <3>2. fds'[d] = fds[d] /\ (d \in Todo' <=> d \in Todo)
      BY <1>3, <1>7, <2>2
    <3>3. Settled(d)' <=> Settled(d)
      BY <1>10, <3>2 DEF Settled
    <3>4. /\ d \notin Std => fds[d] = Closed
          /\ d \in Todo => fds[d] = Original(d)
          /\ d \in Std \ Todo => Settled(d)
      BY <1>0, <3>1 DEF Wiring
    <3>. QED BY <3>2, <3>3, <3>4
  <2>3. CASE d \notin {x, y} /\ d = fd
    <3>1. fds'[fd] = fds[y] /\ fd \notin Todo'
      BY <1>3, <1>5, <1>7, <2>3
    <3>2. Settled(fd)'
      BY <1>10, <1>11, <1>12, <3>1 DEF Settled
    <3>. QED BY <1>3, <2>3, <3>1, <3>2
  <2>. QED BY <2>1, <2>2, <2>3
<1>14. ASSUME NEW j \in DOMAIN pipes, Waits(j)'
       PROVE  /\ fds'[pipes[j].w] \in {WriteEnd(pipes[j].fd), Null, Closed}
              /\ open = Std => fds'[pipes[j].w] = WriteEnd(pipes[j].fd)
  <2>1. j # i /\ Waits(j)
    BY <1>8, <1>14
  <2>2. fd = 1
    <3>1. fd \in {1, 2} /\ pipes[j].fd \in {1, 2} /\ pipes[j].fd # fd
      BY <1>0, <1>1, <2>1, TwoPipes, PipesForm
    <3>2. pipes[j].fd \in Todo'
      BY <1>14 DEF Waits
    <3>. QED BY <1>3, <3>1, <3>2
  <2>3. pipes[j].w \notin {x, y} /\ pipes[j].w # fd
    BY <1>0, <1>1, <1>4, <2>1, <2>2, TwoPipes
  <2>4. pipes[j].w \in Fds
    BY <1>0, PipesForm, StreamsAssumption DEF Fds
  <2>5. fds'[pipes[j].w] = fds[pipes[j].w]
    BY <1>7, <2>3, <2>4
  <2>. QED BY <1>0, <2>1, <2>5 DEF Wiring
<1>15. Wiring'
  BY <1>10, <1>13, <1>14 DEF Wiring
<1>16. Options' /\ Pipes'
  BY <1>0, <1>3, <1>7 DEF Options, Pipes, IsTable
<1>. QED BY <1>15, <1>16 DEF StreamsInv, Making

\* A stream that is inherited stays as it is.
LEMMA InheritedInv ==
  ASSUME StreamsInv, at = "wire", left # <<>>, left' = Tail(left),
         UNCHANGED <<fn, inherit, capture, open, pipes, at, fds>>,
         Head(left) \notin capture, Head(left) \in inherit
  PROVE  StreamsInv'
<1>0. Options /\ Pipes /\ Wiring
  BY DEF StreamsInv
<1>1. PICK fd : fd = Head(left)
  OBVIOUS
<1>2. /\ left' \in Orders /\ fd \in Std /\ fd \in Todo /\ Todo' = Todo \ {fd}
  BY <1>0, <1>1, NextStream DEF Options
<1>3. \A j \in DOMAIN pipes : Waits(j)' <=> Waits(j)
  BY <1>0, <1>1, <1>2 DEF Waits, Pipes
<1>4. \A d : Original(d)' = Original(d) /\ (Settled(d)' <=> Settled(d)) /\ \A j : Ends(j)' = Ends(j)
  BY DEF Original, Expected, Settled, Ends
<1>5. \A d : Unused(d)' <=> Unused(d)
  BY <1>3, <1>4 DEF Unused
<1>6. fds[fd] = Original(fd) => Settled(fd)
  <2>1. Expected(fd) = Original(fd)
    BY <1>1 DEF Expected, Original
  <2>. QED BY <2>1 DEF Settled
<1>7. Wiring'
  BY <1>0, <1>2, <1>3, <1>4, <1>5, <1>6 DEF Wiring
<1>8. Options' /\ Pipes'
  BY <1>0, <1>2 DEF Options, Pipes, IsTable
<1>. QED BY <1>7, <1>8 DEF StreamsInv, Making

\* A stream that is silent: /dev/null gets the lowest free number and is duplicated,
\* unless that number is the stream's own, which is closed again.
LEMMA SilencedInv ==
  ASSUME StreamsInv, at = "wire", left # <<>>, left' = Tail(left),
         UNCHANGED <<fn, inherit, capture, open, pipes, at>>,
         Head(left) \notin capture, Head(left) \notin inherit,
         fds' = DevNull(fds, Head(left))
  PROVE  StreamsInv'
<1>0. Options /\ Pipes /\ Wiring
  BY DEF StreamsInv
<1>1. PICK fd : fd = Head(left)
  OBVIOUS
<1>2. /\ left' \in Orders /\ fd \in Std /\ fd \in Todo /\ Todo' = Todo \ {fd}
  BY <1>0, <1>1, NextStream DEF Options
<1>3. \A j \in DOMAIN pipes : Waits(j)' <=> Waits(j)
  BY <1>0, <1>1, <1>2 DEF Waits, Pipes
<1>4. \A d : Original(d)' = Original(d) /\ Expected(d)' = Expected(d) /\ \A j : Ends(j)' = Ends(j)
  BY DEF Original, Expected, Ends
<1>5. \A d : Unused(d)' <=> Unused(d)
  BY <1>3, <1>4 DEF Unused
<1>6. fds[7] = Closed
  <2>1. \A i \in DOMAIN pipes : 7 \notin Ends(i)
    <3>1. TAKE i \in DOMAIN pipes
    <3>2. pipes[i].r \in 0 .. 6 /\ pipes[i].w \in 0 .. 6
      BY <1>0, PipesForm
    <3>3. \A x \in 0 .. 6 : x # 7
      OBVIOUS
    <3>. QED BY <3>2, <3>3, Zenon DEF Ends
  <2>2. 7 \in Fds /\ 7 \notin Std
    BY StreamsAssumption DEF Fds, Std
  <2>. QED BY <1>0, <2>1, <2>2 DEF Wiring, Unused
<1>7. PICK n : n = Lowest(fds)
  OBVIOUS
<1>8. n \in Fds /\ fds[n] = Closed
  BY <1>6, <1>7, LowestFree
<1>9. fds' = [[[fds EXCEPT ![n] = Null] EXCEPT ![fd] = [fds EXCEPT ![n] = Null][n]] EXCEPT ![n] = Closed]
  BY <1>1, <1>7, Zenon DEF DevNull, Close, Dup2
<1>10. fd \in Fds
  BY <1>2, StreamsAssumption DEF Fds, Std
<1>11. /\ IsTable(fds')
       /\ \A d \in Fds : fds'[d] = IF d = n THEN Closed ELSE IF d = fd THEN Null ELSE fds[d]
  <2>1. IsTable(fds)
    BY <1>0 DEF Options
  <2>. QED BY <1>8, <1>9, <1>10, <2>1 DEF IsTable
<1>12. Expected(fd) = Null
  BY <1>1 DEF Expected
<1>13. ASSUME NEW d \in Fds, Unused(d)'
       PROVE  /\ d \notin Std => fds'[d] = Closed
              /\ d \in Todo' => fds'[d] = Original(d)
              /\ d \in Std \ Todo' => Settled(d)'
  <2>1. /\ d \notin Std => fds[d] = Closed
        /\ d \in Todo => fds[d] = Original(d)
        /\ d \in Std \ Todo => Settled(d)
    BY <1>0, <1>5, <1>13 DEF Wiring
  <2>2. CASE d # fd
    <3>1. fds'[d] = fds[d] /\ (d \in Todo' <=> d \in Todo)
      BY <1>2, <1>8, <1>11, <2>2
    <3>2. Settled(d)' <=> Settled(d)
      BY <1>4, <3>1 DEF Settled
    <3>. QED BY <2>1, <3>1, <3>2
  <2>3. CASE d = fd
    <3>1. fds[fd] = Original(fd)
      BY <1>2, <2>1, <2>3
    <3>2. open = Std => n # fd
      BY <1>2, <1>8, <3>1, Things DEF Original
    <3>3. fds'[fd] \in {Null, Closed} /\ (open = Std => fds'[fd] = Null)
      BY <1>10, <1>11, <3>2
    <3>4. Settled(fd)'
      BY <1>4, <1>12, <3>3 DEF Settled
    <3>. QED BY <1>2, <2>3, <3>4
  <2>. QED BY <2>2, <2>3
<1>14. ASSUME NEW j \in DOMAIN pipes, Waits(j)'
       PROVE  /\ fds'[pipes[j].w] \in {WriteEnd(pipes[j].fd), Null, Closed}
              /\ open = Std => fds'[pipes[j].w] = WriteEnd(pipes[j].fd)
  <2>1. PICK w : w = pipes[j].w
    OBVIOUS
  <2>2. /\ fds[w] \in {WriteEnd(pipes[j].fd), Null, Closed}
        /\ open = Std => fds[w] = WriteEnd(pipes[j].fd)
    BY <1>0, <1>3, <1>14, <2>1 DEF Wiring
  <2>3. w \in Fds
    BY <1>0, <2>1, PipesForm, StreamsAssumption DEF Fds
  <2>4. fds'[w] \in {Closed, Null, fds[w]}
    BY <1>11, <2>3
  <2>5. open = Std => w # fd /\ w # n
    BY <1>0, <1>2, <1>8, <2>1, <2>2, Things DEF Pipes
  <2>6. open = Std => fds'[w] = fds[w]
    BY <1>11, <2>3, <2>5
  <2>. QED BY <2>1, <2>2, <2>4, <2>6
<1>15. Wiring'
  BY <1>4, <1>13, <1>14 DEF Wiring
<1>16. Options' /\ Pipes'
  BY <1>0, <1>2, <1>11 DEF Options, Pipes, IsTable
<1>. QED BY <1>15, <1>16 DEF StreamsInv, Making

LEMMA WireInv == ASSUME StreamsInv, Wire PROVE StreamsInv'
<1>1. /\ at = "wire" /\ left # <<>> /\ left' = Tail(left)
      /\ UNCHANGED <<fn, inherit, capture, open, pipes, at>>
  BY DEF Wire
<1>2. \/ /\ Head(left) \in capture
         /\ \E i \in DOMAIN pipes : pipes[i].fd = Head(left) /\ fds' = Piped(fds, pipes[i], Head(left))
      \/ /\ Head(left) \notin capture
         /\ fds' = IF Head(left) \in inherit THEN fds ELSE DevNull(fds, Head(left))
  BY Zenon DEF Wire
<1>3. CASE Head(left) \in capture
  BY <1>1, <1>2, <1>3, CapturedInv
<1>4. CASE Head(left) \notin capture /\ Head(left) \in inherit
  BY <1>1, <1>2, <1>4, InheritedInv
<1>5. CASE Head(left) \notin capture /\ Head(left) \notin inherit
  BY <1>1, <1>2, <1>5, SilencedInv
<1>. QED BY <1>3, <1>4, <1>5

LEMMA StartInv == ASSUME StreamsInv, Start PROVE StreamsInv'
<1>1. /\ at = "wire" /\ left = <<>> /\ at' \in {"run", "failed"}
      /\ UNCHANGED <<fn, inherit, capture, open, fds, pipes, left>>
  BY DEF Start
<1>2. Options' /\ Pipes' /\ Making'
  BY <1>1 DEF StreamsInv, Options, Pipes, Making, IsTable
<1>3. \A d : /\ Original(d)' = Original(d) /\ (Settled(d)' <=> Settled(d)) /\ (Unused(d)' <=> Unused(d))
             /\ (Waits(d)' <=> Waits(d)) /\ Todo' = Todo
  BY <1>1 DEF Original, Settled, Expected, Unused, Waits, Ends, Todo
<1>4. Wiring'
  BY <1>1, <1>3 DEF StreamsInv, Wiring
<1>. QED BY <1>2, <1>4 DEF StreamsInv

LEMMA StreamsStutter == ASSUME StreamsInv, UNCHANGED streamVars PROVE StreamsInv'
<1>1. UNCHANGED <<fn, inherit, capture, open, fds, pipes, at, left>>
  BY DEF streamVars
<1>2. Options' /\ Pipes'
  BY <1>1 DEF StreamsInv, Options, Pipes, IsTable
<1>3. \A d : /\ Original(d)' = Original(d) /\ (Settled(d)' <=> Settled(d)) /\ (Unused(d)' <=> Unused(d))
             /\ (Waits(d)' <=> Waits(d)) /\ Todo' = Todo /\ Ends(d)' = Ends(d)
  BY <1>1 DEF Original, Settled, Expected, Unused, Waits, Ends, Todo
<1>4. Making' /\ Wiring'
  BY <1>1, <1>3 DEF StreamsInv, Making, Wiring
<1>. QED BY <1>2, <1>4 DEF StreamsInv

\* The table of descriptors, from the first pipe to the start of the program.
THEOREM StreamsInvariant == StreamsSpec => []StreamsInv
<1>1. StreamsInit => StreamsInv
  BY StreamsInitInv
<1>2. StreamsInv /\ [StreamsNext]_streamVars => StreamsInv'
  BY MakePipeInv, ForkInv, WireInv, StartInv, StreamsStutter DEF StreamsNext
<1>. QED BY <1>1, <1>2, PTL DEF StreamsSpec

\* The program that is started has its three streams where the options say and no other
\* descriptor, for any options, any streams that the caller has closed and a table of any
\* size from eight.
THEOREM Wired == StreamsSpec => []StreamsWired
<1>1. ASSUME StreamsInv PROVE StreamsWired
  <2>1. SUFFICES ASSUME at = "run"
                 PROVE  /\ \A fd \in Std : Settled(fd)
                        /\ \A d \in Fds \ Std : fds[d] = Closed
    BY DEF StreamsWired, Settled
  <2>2. Todo = {}
    BY <1>1, <2>1 DEF StreamsInv, Wiring, Todo
  <2>3. \A d \in Fds : Unused(d)
    BY <2>2 DEF Unused, Waits
  <2>4. Std \subseteq Fds
    BY StreamsAssumption DEF Std, Fds
  <2>. QED BY <1>1, <2>1, <2>2, <2>3, <2>4 DEF StreamsInv, Wiring
<1>. QED BY <1>1, StreamsInvariant, PTL
=============================================================================
