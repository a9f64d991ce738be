------------------------------ MODULE IniFile ------------------------------
(***************************************************************************)
(* INIReader.h: how config.ini is read.  A file is a sequence of lines and *)
(* a line is what the parser tells apart: its kind, whether it begins with *)
(* a blank, and the name and text it holds (lower case, without trailing   *)
(* blanks and inline comments, which MakeKey and rstrip see to).  Lines    *)
(* are shorter than INI_MAX_LINE (200 characters), where fgets would cut   *)
(* them in two, and names shorter than the 50 of MAX_SECTION and MAX_NAME. *)
(*                                                                         *)
(* A value is the sequence of the texts that were joined by line ends:     *)
(* <<>> is the empty string.                                               *)
(***************************************************************************)
EXTENDS Integers, Sequences, FiniteSetsExt

Kinds == {"blank", "comment", "section", "unclosed", "pair", "noise"}

Lines == [kind : Kinds, indent : BOOLEAN, name : STRING, text : STRING, whole : STRING]

(* Keys are section=name; a name before any section has section "".        *)
Key(section, name) == <<section, name>>

(* What ini_parse_stream and the reader keep between two lines.            *)
NewReader == [section |-> "", prev_name |-> "", values |-> <<>>, error |-> 0,
              lineno |-> 0]

Has(values, key)   == key \in DOMAIN values
Value(values, key) == IF Has(values, key) THEN values[key] ELSE <<>>

(* _values[key] is joined with a line end, except to nothing.              *)
Joined(value, text) ==
  IF value = <<>> THEN (IF text = "" THEN <<>> ELSE <<text>>)
                  ELSE Append(value, text)

ValueHandler(r, section, name, text) ==
  LET key == Key(section, name) IN
  [r EXCEPT !.values = [k \in DOMAIN @ \cup {key} |->
                          IF k = key THEN Joined(Value(@, key), text) ELSE @[k]]]

(* An indented line goes on with the value of the name before it, whatever *)
(* it looks like; a section header forgets that name.                      *)
Continues(r, line) ==
  /\ line.indent
  /\ line.kind \notin {"blank", "comment"}
  /\ r.prev_name # ""

FirstError(r) == IF r.error = 0 THEN [r EXCEPT !.error = r.lineno] ELSE r

(* Mutant of ReadText: a header does not end the values of the last one.   *)
ReadTextOneSection(r, line) ==
  CASE line.kind = "section"  -> [r EXCEPT !.section = IF @ = "" THEN line.name ELSE @,
                                           !.prev_name = ""]
    [] line.kind = "pair"     -> [ValueHandler(r, r.section, line.name, line.text)
                                    EXCEPT !.prev_name = line.name]
    [] line.kind \in {"unclosed", "noise"} -> FirstError(r)
    [] OTHER                  -> r

ReadText(r, line) ==
  CASE line.kind = "section"  -> [r EXCEPT !.section = line.name, !.prev_name = ""]
    [] line.kind = "pair"     -> [ValueHandler(r, r.section, line.name, line.text)
                                    EXCEPT !.prev_name = line.name]
    [] line.kind \in {"unclosed", "noise"} -> FirstError(r)
    [] OTHER                  -> r

ReadLine(reader, line) ==
  LET r == [reader EXCEPT !.lineno = @ + 1] IN
  IF Continues(r, line)
  THEN ValueHandler(r, r.section, r.prev_name, line.whole)
  ELSE ReadText(r, line)

(* The reader before the first line and behind each of them.               *)
Readers(lines) ==
  LET after[i \in 0..Len(lines)] == IF i = 0 THEN NewReader
                                    ELSE ReadLine(after[i - 1], lines[i])
  IN  after

ini_parse_stream(lines) == Readers(lines)[Len(lines)]

(* ini_parse and ParseError: a file that cannot be opened is the only      *)
(* error below zero.                                                       *)
NoFile == [opens |-> FALSE, lines |-> <<>>]

INIReader(file) ==
  IF file.opens THEN ini_parse_stream(file.lines) ELSE [NewReader EXCEPT !.error = -1]

FAIL == <<"FAIL">>

Get(reader, section, name, default) ==
  IF Has(reader.values, Key(section, name))
  THEN reader.values[Key(section, name)] ELSE default

PortName == <<"port0", "port1", "port2", "port3", "port4", "port5", "port6">>

=============================================================================
