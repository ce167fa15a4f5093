------------------------------ MODULE MCShells ------------------------------
(***************************************************************************)
(* TLC instance of the two shells, MyBash and Sh.  They are independent,   *)
(* and the user types at one of them; the other one is at the end of its   *)
(* input.                                                                  *)
(***************************************************************************)
EXTENDS MyBash

CONSTANTS MAXARGS, NOFILE, MaxProc

VARIABLES sh_todo, sh_line, sh_tree, sh_proc, sh_fails

shVars == <<sh_todo, sh_line, sh_tree, sh_proc, sh_fails>>

----------------------------------------------------------------------------
arg(s) == [kind |-> "arg", word |-> s]
in(s)  == [kind |-> "in", word |-> s]
out(s) == [kind |-> "out", word |-> s]
bar    == [kind |-> "pipe", word |-> "|"]
amp    == [kind |-> "amp", word |-> "&"]
ln(ts) == [toks |-> ts, nl |-> TRUE]
eof(ts) == [toks |-> ts, nl |-> FALSE]

ls == arg("ls")
cat == arg("cat")

\* mybash: every line of up to four tokens, alone; and sessions of several lines.
Token == {ls, arg("cd"), out("f"), out(NULL), bar, amp}
MCInputs ==
  {<<>>} \cup {<<ln(ts), eof(<<>>)>> : ts \in BoundedSeq(Token, 4)}
  \cup {<<ln(<<ls, amp>>), ln(<<ls, bar, cat, bar, cat>>), eof(<<>>)>>,
        <<ln(<<cat, bar, cat, in("f")>>), ln(<<arg("exit")>>), eof(<<>>)>>,
        <<ln(<<ls, bar, cat, bar, cat, amp>>), ln(<<cat, out("f"), bar, cat>>), eof(<<>>)>>,
        <<ln(<<ls, amp, ls>>), ln(<<ls>>), eof(<<ls, bar>>)>>}

----------------------------------------------------------------------------
a(s) == [kind |-> "a", word |-> s]
sym(k) == [kind |-> k, word |-> k]
typed(ts) == [cd |-> FALSE, toks |-> ts]
cd == [cd |-> TRUE, toks |-> <<a("cd"), a("d")>>]

\* sh: every line of up to three tokens, of four tokens without redirections and
\* "&", and longer ones with nested commands.
ShToken == {a("cat")} \cup {sym(k) : k \in {">", "|", "&", ";", "(", ")"}}
ShInputs ==
  {<<>>} \cup {<<typed(ts)>> : ts \in BoundedSeq(ShToken, 3) \cup BoundedSeq(ShToken \ {sym(">"), sym("&")}, 4)}
  \cup {<<cd, typed(<<a("ls"), sym("|"), a("cat"), sym("|"), a("cat")>>)>>,
        <<typed(<<a("ls"), sym("&"), sym(";"), a("ls"), sym("|"), a("cat")>>)>>,
        <<typed(<<sym("("), a("ls"), sym(";"), a("ls"), sym(")"), sym("|"), a("cat"), sym("&")>>)>>,
        <<typed(<<sym("<"), a("f"), a("cat"), sym(">"), a("g"), sym("+"), a("h"), sym("|"), a("cat")>>)>>,
        <<typed(<<sym("("), a("cat"), sym("&"), sym(")"), sym(">"), a("g")>>), typed(<<a("ls"), a("ls"), a("ls")>>)>>}

X == INSTANCE Sh WITH Inputs <- ShInputs, todo <- sh_todo, line <- sh_line, tree <- sh_tree,
                      proc <- sh_proc, fails <- sh_fails

----------------------------------------------------------------------------
MCInit == \/ sh_todo = <<>> /\ X!Init /\ Init
          \/ todo = <<>> /\ Init /\ X!Init

MCNext == (Next /\ UNCHANGED shVars) \/ (X!Next /\ UNCHANGED vars)

MCSpec == MCInit /\ [][MCNext]_<<vars, shVars>> /\ Fairness /\ X!Fairness

\* sh leaves nothing behind: see NothingLeft in Sh.
NothingLeft == X!NothingLeft

\* The parser of sh decides its grammar: see ParseDecides in Sh.
ParseDecides == X!ParseDecides

\* Everything ends, in mybash and in sh: see AllEnd in both.
BothEnd == AllEnd /\ X!AllEnd
=============================================================================
