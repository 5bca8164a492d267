------------------------------- MODULE Config -------------------------------
(***************************************************************************)
(* The configuration of src/conf.c, and the reading of its file line by    *)
(* line in src/inilib/ini.c.                                               *)
(*                                                                         *)
(* As committed conf.c does not compile: _hdlr_config() declares its       *)
(* parameter n again, and the globals for the index and the handler have   *)
(* no declarations.  The model takes the name from the parameter and       *)
(* stores it in the new entry.                                             *)
(*                                                                         *)
(* The look-ups stop before the last entry of the list, so it is never     *)
(* found.                                                                  *)
(*                                                                         *)
(* Abstracted: lines by what they are; the lengths of names and values;    *)
(* blank lines and comments, which change nothing; entry numbers, which    *)
(* nothing reads.                                                          *)
(***************************************************************************)
EXTENDS Integers, SequencesExt

CONSTANTS
  Sections,  \* names of sections
  Names,     \* names of values
  Values,    \* values
  MaxLines   \* bound: lines of the file

ASSUME LinesBound == MaxLines \in Nat
ASSUME NoneIsNone == "" \notin Sections \cup Names

VARIABLES
  conf,      \* the list from _conf_first on
  section,   \* ini_parse_file()'s section
  prevName,  \* its prev_name
  lines,     \* its lineno
  error,     \* its error: the first bad line, or 0
  given      \* history: the pairs handed to _hdlr_config(), but for those
             \* it had no memory for

confVars == <<conf, section, prevName, lines, error, given>>

ConfInit ==
  /\ conf = <<>> /\ section = "" /\ prevName = "" /\ lines = 0 /\ error = 0
  /\ given = <<>>

Key(s, n) == <<s, n>>
Ours(e, s, n) == e.key = Key(s, n)

\* slip: the loop moves on before it compares
CxMConfNext(s, n) ==
  SelectInSeq(SubSeq(conf, 2, Len(conf)), LAMBDA e : Ours(e, s, n))

\* cxmconf(): the place of the first entry, if it is not the last of all, or 0
CxMConf(s, n) ==
  IF conf = <<>> THEN 0
  ELSE SelectInSeq(SubSeq(conf, 1, Len(conf) - 1), LAMBDA e : Ours(e, s, n))

Mistake == error' = IF error = 0 THEN lines + 1 ELSE error

\* slip: a new entry goes to the front
StoreFront(e) == <<e>> \o conf

Store(e) == Append(conf, e)

\* _hdlr_config(): refuses what the look-up finds, and what there is no memory
\* for; ini_parse_file() takes 0 for a mistake in the line.
Handle(n, v) ==
  LET e == [key |-> Key(section, n), data |-> v] IN
  IF CxMConf(section, n) # 0
    THEN given' = Append(given, e) /\ Mistake /\ UNCHANGED conf
    ELSE \/ given' = Append(given, e) /\ conf' = Store(e) /\ UNCHANGED error
         \/ Mistake /\ UNCHANGED <<conf, given>>

\* ini_parse_file() reads a line: a section, a pair, the continuation of a
\* value, or a mistake.
ParseLine ==
  /\ lines < MaxLines /\ lines' = lines + 1
  /\ \/ \E s \in Sections :
          /\ section' = s /\ prevName' = ""
          /\ UNCHANGED <<conf, error, given>>
     \/ \E n \in Names, v \in Values :
          /\ Handle(n, v)
          /\ prevName' = n /\ UNCHANGED section
     \/ \E v \in Values :
          /\ prevName # "" /\ Handle(prevName, v)
          /\ UNCHANGED <<section, prevName>>
     \/ Mistake /\ UNCHANGED <<conf, section, prevName, given>>

-----------------------------------------------------------------------------
(* Properties *)

ConfTypeOK ==
  LET Entries == [key : (Sections \cup {""}) \X Names, data : Values]
  IN /\ conf \in Seq(Entries) /\ given \in Seq(Entries)
     /\ section \in Sections \cup {""} /\ prevName \in Names \cup {""}
     /\ lines \in 0 .. MaxLines /\ error \in 0 .. lines

\* A look-up that finds a value finds the first one the file gives for the
\* name, though duplicates may be stored and continuations come as pairs of
\* their own.
FirstValueFound ==
  \A s \in Sections \cup {""}, n \in Names :
    CxMConf(s, n) # 0 =>
      conf[CxMConf(s, n)] =
        given[SelectInSeq(given, LAMBDA e : Ours(e, s, n))]
=============================================================================
