------------------------------ MODULE MCTools ------------------------------
(***************************************************************************)
(* The functions on files, command lines, paths and strings that do not    *)
(* depend on one another, in one run: a behaviour either reads and writes  *)
(* a file or types a line.                                                 *)
(***************************************************************************)
EXTENDS FileUtils, Args, Paths, Parsing, TLC

FileDone == /\ disk = [kind |-> "missing", data |-> <<>>] /\ unflushed = <<>>
            /\ wpc = "done" /\ rpc = "done" /\ size = 0 /\ result = <<>> /\ seen = <<>> /\ quiet = TRUE

ToolsInit == \/ Init /\ NoLine
             \/ FileDone /\ EmptyLine

ToolsNext == \/ Next /\ UNCHANGED lineVars
             \/ Type /\ UNCHANGED vars

ToolsSpec == ToolsInit /\ [][ToolsNext]_<<vars, lineVars>>

-----------------------------------------------------------------------------
(* Files: a character, a space, CR and NL; longer files to write than to read. *)

Letters      == {"a", " ", "cr", "nl"}
SomeFiles    == UNION {[1 .. n -> Letters] : n \in 0 .. 4}
SomeWritten  == {<<>>, <<"a">>, <<"a", "nl", "a">>}
SomeCounts   == -1 .. 3

\* Lines
TypedChars ==
  [args   |-> {"a", "-", "/", "=", ",", " "},
   path   |-> {"a", ".", "/", "~"},
   number |-> {"0", "1", "9", "-", "+", " ", "x"},
   word   |-> {"Yes", "YES", "yes", "no... ACTUALLY, YES", "NOO", "oN", "True", "1", "maybe", ""}]
LineLengths == [args |-> 5, path |-> 6, number |-> 4, word |-> 1]

\* A working directory with a file, a directory and a link to it that looks hidden.
Work         == << <<"a">> >>
Sub          == << <<"a">>, <<"a", "a">> >>
SomeHome     == <<"/", "a", "/">>
SomeDirs     == {<<>>, Work, Sub}
SomeRegular  == {<< <<"a">>, <<"a">> >>, << <<".", "a">> >>}
SomeLinks    == << <<"a">>, <<".", "a">> >> :> Sub

SomeDigits   == "0" :> 0 @@ "1" :> 1 @@ "9" :> 9

Lowered ==
  "Yes" :> "yes" @@ "YES" :> "yes" @@ "NOO" :> "noo" @@ "oN" :> "on" @@ "True" :> "true"
    @@ "no... ACTUALLY, YES" :> "no... actually, yes"
    @@ "No... actually, yes" :> "no... actually, yes"
    @@ "Yeah... actually, no" :> "yeah... actually, no"

LowerCase ==
  Lowered @@ [w \in BOOL_TRUE \cup BOOL_FALSE \cup TypedChars["word"]
                      \cup {Lowered[v] : v \in DOMAIN Lowered} |-> w]
=============================================================================
