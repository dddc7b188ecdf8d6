------------------------------- MODULE Paths -------------------------------
(***************************************************************************)
(* path_utils.c: paths as the functions cut and join them, and as the      *)
(* system follows them (external: directories, files and links).  malloc   *)
(* succeeds, and paths are shorter than PATH_MAX.                          *)
(***************************************************************************)
EXTENDS Inputs

CONSTANTS
  HOME,    \* the home directory in the environment; <<>> if it is not set
  Cwd,     \* the working directory, as the sequence of its names from the root
  Dirs,    \* the directories
  Regular, \* the other files
  Links    \* the links, with the directory or file each leads to

\* No place: where a path that fails leads.
Nowhere == << <<"nowhere">> >>

\* All but the last one.
Front(v) == SubSeq(v, 1, Len(v) - 1)

\* What a directory may hold.
IsName(name) ==
  /\ name \in Seq(STRING) \ {<<>>, <<".">>, <<".", ".">>}
  /\ Positions(name, "/") = {}

\* Every place but the root is in a directory.
ASSUME PathsAssumption ==
  /\ HOME \in Seq(STRING)
  /\ {Cwd, <<>>} \subseteq Dirs
  /\ \A at \in Dirs \cup Regular :
       /\ at \in Seq(Seq(STRING)) \ {Nowhere}
       /\ at # <<>> => Front(at) \in Dirs /\ IsName(at[Len(at)])
  /\ \A l \in DOMAIN Links : Links[l] \in Dirs \cup Regular /\ l \notin Dirs \cup Regular

-----------------------------------------------------------------------------
(* The file system *)

\* One name further from a directory or file.
Step(at, name) ==
  LET there == Append(at, name)
  IN  CASE at \notin Dirs           -> Nowhere
        [] at \in Dirs /\ name \in {<<>>, <<".">>} -> at
        [] at \in Dirs /\ name = <<".", ".">>      -> IF at = <<>> THEN at ELSE Front(at)
        [] OTHER -> IF there \in Dirs \cup Regular THEN there
                    ELSE IF there \in DOMAIN Links THEN Links[there]
                    ELSE Nowhere

Walk(at, names) ==
  LET upto[i \in 0 .. Len(names)] == IF i = 0 THEN at ELSE Step(upto[i - 1], names[i])
  IN  upto[Len(names)]

\* Where a path leads: the empty one nowhere.
Lookup(path) ==
  IF path = <<>> THEN Nowhere
  ELSE Walk(IF path[1] = "/" THEN <<>> ELSE Cwd, Pieces(path, "/"))

\* The path from the root to a place, without links.
Absolute(at) ==
  LET upto[i \in 0 .. Len(at)] == IF i = 0 THEN <<>> ELSE upto[i - 1] \o <<"/">> \o at[i]
  IN  IF at = <<>> THEN <<"/">> ELSE upto[Len(at)]

-----------------------------------------------------------------------------
(* The functions.  NULL_STRING is an empty String. *)

\* "~user" is HOME with "user" behind it.
expand_home(path) ==
  CASE path = <<>> \/ path[1] # "~"               -> path
    [] path # <<>> /\ path[1] = "~" /\ HOME = <<>> -> <<>>
    [] OTHER                                       -> HOME \o Tail(path)

EndsInSlash(path)     == path # <<>> /\ path[Len(path)] = "/"
StartsWithSlash(path) == path # <<>> /\ path[1] = "/"

\* Mutant of path_join: a slash is put between the two whatever they have.
JoinAlways(a, b) == a \o <<"/">> \o b

path_join(a, b) ==
  CASE EndsInSlash(a) /\ StartsWithSlash(b)   -> a \o Tail(b)
    [] ~EndsInSlash(a) /\ ~StartsWithSlash(b) -> a \o <<"/">> \o b
    [] OTHER                                  -> a \o b

canonical_path(path) == IF Lookup(path) = Nowhere THEN <<>> ELSE Absolute(Lookup(path))

\* Mutant of file_extension: the last dot of the path counts, wherever it is.
ExtensionOfPath(path) ==
  IF Positions(path, ".") \subseteq {1} THEN <<>> ELSE After(path, LastOf(path, "."))

\* Of the last component: what follows its last dot, unless that is its first character.
file_extension(path) ==
  LET pieces   == Pieces(path, "/")
      filename == pieces[Len(pieces)]
  IN  IF Positions(filename, ".") \subseteq {1} THEN <<>>
      ELSE After(filename, LastOf(filename, "."))

\* Repeated slashes are one.
Collapsed(path) ==
  LET upto[i \in 0 .. Len(path)] ==
        IF i = 0 THEN <<>>
        ELSE IF i > 1 /\ path[i] = "/" /\ path[i - 1] = "/" THEN upto[i - 1]
        ELSE Append(upto[i - 1], path[i])
  IN  upto[Len(path)]

\* Mutant of tidy_up_path: the last slash goes from directories, too, and from the root.
TidyBare(path) ==
  IF EndsInSlash(Collapsed(path)) THEN Front(Collapsed(path)) ELSE Collapsed(path)

\* The last slash stays if it is the only character, or stat finds a directory.
tidy_up_path(path) ==
  LET buf == Collapsed(path)
  IN  IF Len(buf) > 1 /\ EndsInSlash(buf) /\ Lookup(buf) \notin Dirs THEN Front(buf) ELSE buf

-----------------------------------------------------------------------------
(* Properties, of the path that was typed *)

path == line

\* A tidied path leads where the path led, is tidy, and ends in a slash only if it leads
\* to a directory or is the root.
TidyLeads ==
  LET tidy == tidy_up_path(path) IN
  /\ Lookup(path) # Nowhere => Lookup(tidy) = Lookup(path)
  /\ tidy_up_path(tidy) = tidy
  /\ \A i \in 2 .. Len(tidy) : ~(tidy[i] = "/" /\ tidy[i - 1] = "/")
  /\ EndsInSlash(tidy) => Lookup(tidy) \in Dirs

\* A joined path leads where the second part leads from where the first one does, also if
\* the second begins with a slash, unless the first part is empty (then the joined path
\* begins at the root).  Its extension is that of the second part.
JoinLeads ==
  \A n \in 0 .. Len(path) :
    LET a == First(path, n)
        b == After(path, n)
    IN  /\ a # <<>> => Lookup(path_join(a, b)) = Walk(Lookup(a), Pieces(b, "/"))
        /\ file_extension(path_join(a, b)) = file_extension(b)

\* A path below the tilde leads where its rest leads from the home directory, and a
\* canonical path leads where the path did and is its own canonical path.
HomeLeads ==
  /\ HOME # <<>> =>
       Lookup(expand_home(<<"~", "/">> \o path)) = Walk(Lookup(HOME), Pieces(path, "/"))
  /\ Lookup(path) # Nowhere =>
       /\ Lookup(canonical_path(path)) = Lookup(path)
       /\ canonical_path(canonical_path(path)) = canonical_path(path)

\* Of a path:
PathsLead == kind = "path" => TidyLeads /\ JoinLeads /\ HomeLeads
=============================================================================
