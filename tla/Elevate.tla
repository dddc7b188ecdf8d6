------------------------------ MODULE Elevate ------------------------------
(***************************************************************************)
(* elevate.c: where sudo or doas is inserted in a command line.  Two loops *)
(* scan the line one after the other: the first decides whether it is      *)
(* simple enough, the second copies it and inserts the elevator.  The      *)
(* shell that runs the result reads it in its own way (external: the rules *)
(* of POSIX sh for quoting and for lists).                                 *)
(*                                                                         *)
(* The three look at the same characters, so the model runs them side by   *)
(* side on a line of any length, of which only the next character is kept. *)
(* A line without comments and without escaped line ends.                  *)
(***************************************************************************)
EXTENDS Integers, Sequences

\* "w" is a character of a word; "!" a reserved word (`if', `then', `!'), if a command begins
\* with it; "(" one that makes a line complicated at once, as `)', braces, `<', `>' and the
\* line end do; so does "$", which is `$(' or a backquote, and begins a command between double
\* quotes, too.
Chars == {"w", "!", " ", "'", "\"", "\\", ";", "&", "|", "(", "$"}
End   == "\\0"

VARIABLES
  stage,    \* of elevate_command: "confirm", "scan" or "exited"
  c,        \* *s, *p: the next character, or End
  simple,   \* the loop of is_simple_command_list
  insert,   \* the loop of examine_command_and_insert_elevator
  sh,       \* the shell
  placed,   \* so far the elevator stands where commands begin, and nowhere else
  odd       \* the shell has met what the loops do not see

vars == <<stage, c, simple, insert, sh, placed, odd>>

-----------------------------------------------------------------------------
(* The two loops *)

\* in_single, in_double and escaped.
Plain   == [mode |-> "none", escaped |-> FALSE]
Quoted(q) == q.mode # "none"

\* What both loops do with escapes and quotes, in this order; the rest of their bodies
\* is for characters that this leaves alone.
IsQuoting(q, ch) ==
  \/ q.escaped
  \/ ch = "\\"
  \/ ch = "'" /\ q.mode # "double"
  \/ ch = "\"" /\ q.mode # "single"

Toggle(q, m) == [q EXCEPT !.mode = IF @ = m THEN "none" ELSE m]

\* Mutant of Quoting: an escaped quote still toggles.
QuotingNoEscape(q, ch) ==
  CASE ch = "'" /\ q.mode # "double"  -> Toggle(q, "single")
    [] ch = "\"" /\ q.mode # "single" -> Toggle(q, "double")
    [] OTHER                          -> q

Quoting(q, ch) ==
  IF q.escaped THEN [q EXCEPT !.escaped = FALSE]
  ELSE CASE ch = "\\"                        -> [q EXCEPT !.escaped = TRUE]
         [] ch = "'" /\ q.mode # "double"  -> Toggle(q, "single")
         [] ch = "\"" /\ q.mode # "single" -> Toggle(q, "double")
         [] OTHER                          -> q

\* && and ||, the operators that take two characters.
IsPair(ch, next) == ch \in {"&", "|"} /\ next = ch

\* One round of is_simple_command_list: its quoting, whether it has passed over the
\* next character, and whether it has returned false.
is_simple_command_list(s, ch, next) ==
  IF s.no \/ s.skip THEN [s EXCEPT !.skip = FALSE]
  ELSE IF IsQuoting(s.q, ch) THEN [s EXCEPT !.q = Quoting(s.q, ch)]
  ELSE IF Quoted(s.q) THEN s
  ELSE [s EXCEPT !.skip = IsPair(ch, next),
                 !.no   = ch \in {"(", "$"} \/ (ch \in {"&", "|"} /\ ~IsPair(ch, next))]

\* Its result at the end of the line.
IsSimple == ~simple.no /\ ~Quoted(simple.q)

\* The elevator goes before the first character of a command that is no space.
Inserts(s, ch) == ~s.skip /\ s.need /\ ch # " "

\* Mutant of examine_command_and_insert_elevator: no elevator after ||.
NoElevatorAfterOr(s, ch, next) ==
  LET t == [s EXCEPT !.need = @ /\ ch = " "]
  IN  IF s.skip THEN [s EXCEPT !.skip = FALSE]
      ELSE IF IsQuoting(s.q, ch) THEN [t EXCEPT !.q = Quoting(s.q, ch)]
      ELSE IF ~Quoted(s.q) /\ (ch = ";" \/ IsPair(ch, next))
      THEN [t EXCEPT !.skip = IsPair(ch, next), !.need = ch # "|"]
      ELSE t

\* One round of the second loop, for a line that the first accepted: its quoting, the
\* second character of a pair, and need_elevator.
examine_command_and_insert_elevator(s, ch, next) ==
  LET t == [s EXCEPT !.need = @ /\ ch = " "]
  IN  IF s.skip THEN [s EXCEPT !.skip = FALSE]
      ELSE IF IsQuoting(s.q, ch) THEN [t EXCEPT !.q = Quoting(s.q, ch)]
      ELSE IF ~Quoted(s.q) /\ (ch = ";" \/ IsPair(ch, next))
      THEN [t EXCEPT !.skip = IsPair(ch, next), !.need = TRUE]
      ELSE t

\* Mutant of shell_single_quote: the quote is escaped where it stands.
EscapeInPlace(ch) == IF ch = "'" THEN <<"\\", "'">> ELSE <<ch>>

\* What stands for a character of the line between the quotes of sh -c '...'.
shell_single_quote(ch) == IF ch = "'" THEN <<"'", "\\", "'", "'">> ELSE <<ch>>

-----------------------------------------------------------------------------
(* The shell *)

\* Between single quotes a backslash is a backslash.
ShQuoting(q, ch) ==
  CASE q.mode = "single" -> IF ch = "'" THEN Plain ELSE q
    [] q.mode = "double" -> IF q.escaped THEN [q EXCEPT !.escaped = FALSE]
                            ELSE IF ch = "\"" THEN Plain
                            ELSE [q EXCEPT !.escaped = ch = "\\"]
    [] q.mode = "none"   -> IF q.escaped THEN Plain
                            ELSE IF ch = "'" THEN Toggle(q, "single")
                            ELSE IF ch = "\"" THEN Toggle(q, "double")
                            ELSE [q EXCEPT !.escaped = ch = "\\"]

\* What remains of a character outside of double quotes when quoting is removed.
Literal(q, ch) ==
  IF q.escaped \/ ch \notin (IF q.mode = "single" THEN {"'"} ELSE {"'", "\"", "\\"})
  THEN <<ch>> ELSE <<>>

ReadWord(q, chars) ==
  LET after[i \in 0 .. Len(chars)] ==
        IF i = 0 THEN [q |-> q, word |-> <<>>]
        ELSE [q    |-> ShQuoting(after[i - 1].q, chars[i]),
              word |-> after[i - 1].word \o Literal(after[i - 1].q, chars[i])]
  IN  after[Len(chars)]

IsOperator(s, ch) == s.q = Plain /\ ch \in {";", "&", "|", "("}

\* A reserved word is a word of its own, where a command may begin.
IsReserved(s, ch, next) == s.fresh /\ ch = "!" /\ next \in {" ", ";", "&", "|", "(", End}

\* A command begins with the first character of its first word.
Begins(s, ch, next) ==
  ~s.skip /\ s.fresh /\ ch # " " /\ ~IsOperator(s, ch) /\ ~IsReserved(s, ch, next)

\* fresh: no word of the next command was read; bad: an operator stands where a command
\* should, which the shell refuses; reserved: the line has a reserved word.
ShRead(s, ch, next) ==
  IF s.skip THEN [s EXCEPT !.skip = FALSE]
  ELSE IF IsOperator(s, ch)
  THEN [s EXCEPT !.skip = IsPair(ch, next), !.fresh = TRUE, !.bad = @ \/ s.fresh]
  ELSE IF IsReserved(s, ch, next) THEN [s EXCEPT !.reserved = TRUE]
  ELSE [s EXCEPT !.q = ShQuoting(s.q, ch), !.fresh = @ /\ ch = " "]

\* The loops do not see a quote that ends a single-quoted part after a backslash, as in '\',
\* nor that a command begins between double quotes.
Overlooked(ch) ==
  \/ ch = "'" /\ sh.q.mode = "single" /\ insert.q.escaped
  \/ ch = "$" /\ sh.q = [mode |-> "double", escaped |-> FALSE]

-----------------------------------------------------------------------------

\* elevate_command asks first when the line begins with "rm " or "mv ".
Init ==
  /\ stage \in {"confirm", "scan"}
  /\ c \in Chars \cup {End}
  /\ simple = [q |-> Plain, skip |-> FALSE, no |-> FALSE]
  /\ insert = [q |-> Plain, skip |-> FALSE, need |-> TRUE]
  /\ sh = [q |-> Plain, skip |-> FALSE, fresh |-> TRUE, bad |-> FALSE, reserved |-> FALSE]
  /\ placed = TRUE /\ odd = FALSE

\* The rest of the answer's line is read too; without a y the process exits.
Confirm ==
  /\ stage = "confirm"
  /\ \E answer \in {"y", "n"} : stage' = IF answer = "y" THEN "scan" ELSE "exited"
  /\ UNCHANGED <<c, simple, insert, sh, placed, odd>>

\* One character further, in all three.
Read ==
  /\ stage = "scan" /\ c # End
  /\ \E next \in Chars \cup {End} :
       /\ c' = next
       /\ simple' = is_simple_command_list(simple, c, next)
       /\ insert' = examine_command_and_insert_elevator(insert, c, next)
       /\ sh' = ShRead(sh, c, next)
       /\ placed' = (placed /\ (Inserts(insert, c) <=> Begins(sh, c, next)))
  /\ odd' = (odd \/ Overlooked(c))
  /\ UNCHANGED stage

Next == Confirm \/ Read

Spec == Init /\ [][Next]_vars

-----------------------------------------------------------------------------
(* Properties *)

\* A line that is wrapped reaches the second shell as it was written: the word after
\* sh -c is the line, whatever its quotes are.
WrapsWhole ==
  LET inside == [mode |-> "single", escaped |-> FALSE]
  IN  \A ch \in Chars : ReadWord(inside, shell_single_quote(ch)) = [q |-> inside, word |-> <<ch>>]

\* A line that the shell accepts gets the elevator before every command, and nowhere
\* else, if it is not wrapped (elevate.h:9-13); and otherwise it is wrapped whole.  Two kinds
\* of simple lines are exceptions: with a reserved word the elevator stands wrong, for sure,
\* as before `if'; and with what the loops overlook it may ('\' && id '\' gets one only).
ElevatesEachCommand ==
  c = End =>
    IF ~IsSimple THEN WrapsWhole
    ELSE ~odd => /\ sh.q = Plain /\ ~sh.bad /\ ~sh.reserved => placed
                 /\ sh.reserved => ~placed
=============================================================================
