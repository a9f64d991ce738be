----------------------------- MODULE MCStartup -----------------------------
(* Startup over every file of at most MaxLines of these lines.             *)
EXTENDS Startup

CONSTANT MaxLines   \* BOUND: lines of config.ini

Line(kind, name, text) ==
  [kind |-> kind, indent |-> FALSE, name |-> name, text |-> text,
   whole |-> ""]

Indented(line, whole) == [line EXCEPT !.indent = TRUE, !.whole = whole]

MCLines ==
  { Line("blank", "", ""), Line("unclosed", "", ""),
    Line("section", "com", ""), Line("section", "server", ""),
    Line("pair", "port0", "a"), Line("pair", "port0", "FAIL"), Line("pair", "port1", "b"), Line("pair", "port1", ""),
    Indented(Line("pair", "port1", "b"), "port1=b"), Indented(Line("section", "server", ""), "[server]") }

MCFiles     == {NoFile} \cup [opens : {TRUE}, lines : UNION {[1..n -> MCLines] : n \in 0..MaxLines}]
MCArguments ==
  { args \in UNION {[1..n -> ArgumentKinds] : n \in 1..5} :
      \A i \in DOMAIN args : i \notin {3, 4} => args[i] = "text" }
=============================================================================
