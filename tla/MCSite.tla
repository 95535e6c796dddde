------------------------------- MODULE MCSite -------------------------------
(* Instances of Site for TLC.  A text is a number: its last digit is the     *)
(* comments, which a minifier drops, and the rest the code.                  *)
EXTENDS Site

MCMinify(tools, texts) == <<tools, [i \in DOMAIN texts |-> texts[i] \div 10]>>

\* Revision 2 edits a style and adds a script, 3 edits the comments of a style and
\* 4 takes another minifier for the styles.
MCText == [r \in Revision |-> [p \in Styles \cup Scripts |->
  CASE p = 5 /\ r # 2          -> None
    [] <<r, p>> = <<2, 1>>     -> 990
    [] <<r, p>> = <<3, 2>>     -> 10 * p + 1
    [] OTHER                   -> 10 * p]]

MCTools == [r \in Revision |-> [k \in Kinds |-> IF r = 4 /\ k = "css" THEN 2 ELSE 1]]
=============================================================================
