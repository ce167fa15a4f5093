------------------------------- MODULE MyBash -------------------------------
(***************************************************************************)
(* The mybash shell of kickstart/: the main loop (mybash.c), the parser of *)
(* pipelines (parsing.c) over commands (command.c), the internal commands  *)
(* (builtin.c) and the execution of pipelines (execute.c).                 *)
(*                                                                         *)
(* The token reader behind parser.h, the kernel and the programs that are  *)
(* run are external.  A line is a sequence of tokens; only its kinds and   *)
(* the first word of a command matter here.  A program that reads its      *)
(* standard input (a filter) ends at the end of file, which a pipe gives   *)
(* when no process holds its write end; every other program just ends.     *)
(***************************************************************************)
EXTENDS Integers, Sequences, FiniteSets, FiniteSetsExt, SequencesExt

CONSTANTS Inputs,    \* bound: what the user may type, a set of sequences of lines
          Filter,    \* the programs that read their standard input
          MaxChild,  \* bound: children the shell creates
          MaxFails   \* bound: pipe()s and fork()s that fail

Child == 1..MaxChild
NULL == "NULL"

ASSUME MyBashAssumption == MaxChild \in Nat /\ MaxFails \in Nat

VARIABLES todo,    \* the lines not read yet; none are left at the end of file
          parser,  \* "ok", or "destroyed"
          line,    \* the line parsed last
          pl,      \* its pipeline, or none
          shell,   \* where execute_pipeline() is: see Shell0
          child,   \* the processes forked so far
          fails    \* failures so far

vars == <<todo, parser, line, pl, shell, child, fails>>

----------------------------------------------------------------------------
(* command.c *)

scommand_new == [args |-> <<>>, redir_in |-> NULL, redir_out |-> NULL]
scommand_push_back(c, s) == [c EXCEPT !.args = Append(@, s)]
scommand_set_redir_in(c, s) == [c EXCEPT !.redir_in = s]
scommand_set_redir_out(c, s) == [c EXCEPT !.redir_out = s]
scommand_is_empty(c) == c.args = <<>>
scommand_front(c) == Head(c.args)
pipeline_new(cmds) == [cmds |-> cmds, wait |-> TRUE, null |-> FALSE]
NoPipeline == [pipeline_new(<<>>) EXCEPT !.null = TRUE]
pipeline_pop_front(p) == [p EXCEPT !.cmds = Tail(@)]
pipeline_set_wait(p, b) == [p EXCEPT !.wait = b]
pipeline_is_empty(p) == p.cmds = <<>>
pipeline_length(p) == Len(p.cmds)
pipeline_front(p) == Head(p.cmds)
pipeline_get_wait(p) == p.wait

----------------------------------------------------------------------------
(* parsing.c.  A token has a kind, "arg", "in", "out", "pipe" or "amp", and *)
(* a word; the word of a redirection is NULL when there is none.  nl says   *)
(* whether the line ends with a newline or with the file.                   *)

\* The position after the arguments that parser_next_argument() gives from
\* position i on: it stops at an operator, or after a redirection of nothing.
after_args(ts, i) ==
  LET ends == {j \in i..Len(ts) : ts[j].kind \in {"pipe", "amp"} \/ ts[j].word = NULL}
      e == Min(ends)
  IN IF ends = {} THEN Len(ts) + 1
     ELSE IF ts[e].kind \in {"in", "out"} THEN e + 1 ELSE e

\* The command made of the tokens ts; the last redirection wins.
scommand(ts) ==
  FoldLeft(LAMBDA c, t : CASE t.kind = "arg" -> scommand_push_back(c, t.word)
                           [] t.kind = "in"  -> scommand_set_redir_in(c, t.word)
                           [] t.kind = "out" -> scommand_set_redir_out(c, t.word),
           scommand_new, ts)

\* What parse_scommand() returns having read args up to position e.
read_scommand(args, e, c) ==
  [null |-> scommand_is_empty(c) \/ \E t \in ToSet(args) : t.word = NULL, cmd |-> c, next |-> e]

\* A parse_scommand() that overlooks a redirection of nothing.
parse_scommand_lenient(ts, i) ==
  LET args == SubSeq(ts, i, after_args(ts, i) - 1)
  IN read_scommand(SelectSeq(args, LAMBDA t : t.word # NULL), after_args(ts, i), scommand(args))

parse_scommand(ts, i) ==
  LET args == SubSeq(ts, i, after_args(ts, i) - 1)
  IN read_scommand(args, after_args(ts, i), scommand(args))

\* The loop of parse_pipeline() from position i on: the commands, whether there
\* was an error, and where it stopped.
prepend(c, rest) == [rest EXCEPT !.cmds = <<c>> \o @]
commands(ts) ==
  LET is_pipe(i) == i <= Len(ts) /\ ts[i].kind = "pipe"
      from[i \in 1..(Len(ts) + 1)] ==
        LET parsed_as(c) == IF c.null THEN [cmds |-> <<>>, error |-> TRUE, next |-> c.next]
                            ELSE IF is_pipe(c.next) THEN prepend(c.cmd, from[c.next + 1])
                            ELSE [cmds |-> <<c.cmd>>, error |-> FALSE, next |-> c.next]
        IN parsed_as(parse_scommand(ts, i))
  IN from[1]

\* The rest of the function, with the commands c read: at the end of file it
\* returns what it has, error or not; otherwise it looks for an "&" and for
\* garbage before the newline.
parsed(l, c) ==
  LET amp == c.next <= Len(l.toks) /\ l.toks[c.next].kind = "amp"
      garbage == (IF amp THEN c.next + 1 ELSE c.next) <= Len(l.toks)
  IN IF ~l.nl /\ c.next > Len(l.toks) THEN [result |-> pipeline_new(c.cmds), parser |-> "ok"]
     ELSE IF garbage THEN [result |-> NoPipeline, parser |-> "destroyed"]
     ELSE [result |-> IF c.error THEN NoPipeline ELSE pipeline_set_wait(pipeline_new(c.cmds), ~amp), parser |-> "ok"]

parse_pipeline(l) == parsed(l, commands(l.toks))

----------------------------------------------------------------------------
(* Processes and descriptors *)

\* execute_pipeline(): i commands of n are forked, pipefd and tmp are the pipes
\* (0: none), open their ends that the shell has open, j children are waited for.
Shell0 == [pc |-> "prompt", n |-> 0, i |-> 0, j |-> 0, pipefd |-> 0, tmp |-> 0,
           open |-> {}, pids |-> <<>>, ignored |-> FALSE, failed |-> FALSE]

NoChild == [st |-> "none", cmd |-> scommand_new, in |-> 0, out |-> 0, open |-> {}, bg |-> FALSE]

\* Pipe k is identified by the child that writes to it; 0 is no pipe.
r(k) == <<"r", k>>
w(k) == <<"w", k>>

ends(k) == IF k = 0 THEN {} ELSE {r(k), w(k)}

forked == Cardinality({c \in Child : child[c].st # "none"})
alive(c) == child[c].st \in {"setup", "run"}

\* Some process has end e open.
held(e) == e \in shell.open \/ \E c \in Child : alive(c) /\ e \in child[c].open

goto(l) == shell' = [shell EXCEPT !.pc = l]

\* exit() closes what the shell has open; its children live on.
exit(failed) == shell' = [shell EXCEPT !.pc = "exited", !.open = {}, !.failed = failed]

----------------------------------------------------------------------------
(* mybash.c *)

\* parser_at_eof() is false: one line is read.
main_parse ==
  /\ shell.pc = "prompt" /\ parser = "ok" /\ todo # <<>>
  /\ \E p \in {parse_pipeline(Head(todo))} :
       /\ parser' = p.parser
       /\ pl' = p.result
       /\ goto(IF p.result.null THEN "prompt" ELSE "execute")
  /\ line' = Head(todo) /\ todo' = Tail(todo)
  /\ UNCHANGED <<child, fails>>

main_exit ==
  /\ shell.pc = "prompt" /\ parser = "ok" /\ todo = <<>>
  /\ exit(FALSE)
  /\ UNCHANGED <<todo, parser, line, pl, child, fails>>

\* parser_at_eof() of a parser that was destroyed: the shell crashes, takes it
\* for the end of the file, or reads on as if nothing had happened.
main_undefined ==
  /\ shell.pc = "prompt" /\ parser = "destroyed"
  /\ \/ exit(TRUE) /\ UNCHANGED parser
     \/ exit(FALSE) /\ UNCHANGED parser
     \/ parser' = "ok" /\ UNCHANGED shell
  /\ UNCHANGED <<todo, line, pl, child, fails>>

----------------------------------------------------------------------------
(* builtin.c and execute.c *)

builtin_is_internal(c) == scommand_front(c) \in {"cd", "help", "exit"}
builtin_alone(p) == pipeline_length(p) = 1 /\ builtin_is_internal(pipeline_front(p))

\* Nothing to do, or an internal command; whether chdir() fails changes nothing.
builtin_run ==
  /\ shell.pc = "execute"
  /\ \/ pipeline_is_empty(pl) /\ goto("prompt")
     \/ /\ ~pipeline_is_empty(pl) /\ builtin_alone(pl)
        /\ IF scommand_front(pipeline_front(pl)) = "exit" THEN exit(FALSE) ELSE goto("prompt")
  /\ UNCHANGED <<todo, parser, line, pl, child, fails>>

\* SIGCHLD is ignored from the first background pipeline on.
ignores(wait) == shell.ignored \/ ~wait

\* The start of the loop.
execute_pipeline ==
  /\ shell.pc = "execute" /\ ~pipeline_is_empty(pl) /\ ~builtin_alone(pl)
  /\ shell' = [shell EXCEPT !.pc = "pipe", !.n = pipeline_length(pl), !.i = 0, !.j = 0,
                            !.pipefd = 0, !.tmp = 0, !.pids = <<>>, !.ignored = ignores(pipeline_get_wait(pl))]
  /\ UNCHANGED <<todo, parser, line, pl, child, fails>>

may_fail == fails < MaxFails /\ fails' = fails + 1 /\ exit(TRUE)

\* pipe(), except for the last command.
open_pipe ==
  /\ shell.pc = "pipe"
  /\ LET k == IF shell.i = shell.n - 1 THEN 0 ELSE forked + 1 IN
       \/ /\ shell' = [shell EXCEPT !.pc = "fork", !.tmp = shell.pipefd, !.pipefd = k, !.open = @ \cup ends(k)]
          /\ UNCHANGED fails
       \/ k # 0 /\ may_fail
  /\ UNCHANGED <<todo, parser, line, pl, child>>

fork ==
  /\ shell.pc = "fork"
  /\ LET c == forked + 1 IN
       \/ /\ c \in Child
          /\ child' = [child EXCEPT ![c] = [st |-> "setup", cmd |-> pipeline_front(pl), in |-> shell.tmp,
                                            out |-> shell.pipefd, open |-> shell.open, bg |-> ~pipeline_get_wait(pl)]]
          /\ shell' = [shell EXCEPT !.pc = "parent", !.pids = Append(@, c)]
          /\ UNCHANGED fails
       \/ may_fail /\ UNCHANGED child
  /\ UNCHANGED <<todo, parser, line, pl>>

\* The parent closes the pipe both of whose ends are now with children.
closes(k) == ends(k)

parent ==
  /\ shell.pc = "parent"
  /\ shell' = [shell EXCEPT !.open = @ \ closes(shell.tmp), !.i = @ + 1,
                            !.pc = IF shell.i + 1 < shell.n THEN "pipe" ELSE IF pipeline_get_wait(pl) THEN "wait" ELSE "prompt"]
  /\ pl' = pipeline_pop_front(pl)
  /\ UNCHANGED <<todo, parser, line, child, fails>>

\* A wait for all children but the last.
waited_short == shell.j >= shell.n - 1

waited == shell.j = shell.n

\* waitpid() of the next child: it is a zombie, or was reaped when it ended.
waitpid ==
  /\ shell.pc = "wait"
  /\ \/ waited /\ goto("prompt") /\ UNCHANGED child
     \/ /\ ~waited /\ ~alive(shell.pids[shell.j + 1])
        /\ child' = [child EXCEPT ![shell.pids[shell.j + 1]].st = "gone"]
        /\ shell' = [shell EXCEPT !.j = @ + 1]
  /\ UNCHANGED <<todo, parser, line, pl, fails>>

\* Child c ends, and stays a zombie unless its parent ignores SIGCHLD or is gone.
end(c) == child' = [child EXCEPT ![c].st = IF shell.ignored \/ shell.pc = "exited" THEN "gone" ELSE "zombie",
                                 ![c].open = {}]

\* The ends that the child has open once the pipes are its input and output.
dup2(in, out) == {r(in), w(out)} \ {r(0), w(0)}

\* The child's side of the fork and execute_scommand(): a redirection replaces
\* the pipe.  It ends at once if open() or execvp() fails.
execute_scommand(c) ==
  /\ child[c].st = "setup"
  /\ LET cmd == child[c].cmd
         in == IF cmd.redir_in = NULL THEN child[c].in ELSE 0
         out == IF cmd.redir_out = NULL THEN child[c].out ELSE 0
     IN \/ child' = [child EXCEPT ![c] = [@ EXCEPT !.st = "run", !.in = in, !.out = out,
                                                   !.open = dup2(in, out)]]
        \/ end(c)
  /\ UNCHANGED <<todo, parser, line, pl, shell, fails>>

\* A program ends: a filter at the end of its input, any program when nobody
\* reads its output.
program(c) ==
  /\ child[c].st = "run"
  /\ \/ scommand_front(child[c].cmd) \notin Filter \/ child[c].in = 0 \/ ~held(w(child[c].in))
     \/ child[c].out # 0 /\ ~held(r(child[c].out))
  /\ end(c)
  /\ UNCHANGED <<todo, parser, line, pl, shell, fails>>

----------------------------------------------------------------------------
Init ==
  /\ todo \in Inputs
  /\ parser = "ok"
  /\ line = [toks |-> <<>>, nl |-> TRUE]
  /\ pl = NoPipeline
  /\ shell = Shell0
  /\ child = [c \in Child |-> NoChild]
  /\ fails = 0

main == main_parse \/ main_exit \/ main_undefined \/ builtin_run \/ execute_pipeline
        \/ open_pipe \/ fork \/ parent \/ waitpid

Next == main \/ \E c \in Child : execute_scommand(c) \/ program(c)

\* The scheduler runs the shell and every child, and programs end.
Fairness ==
  /\ WF_vars(main)
  /\ \A c \in Child : WF_vars(execute_scommand(c) \/ program(c))

Spec == Init /\ [][Next]_vars /\ Fairness

----------------------------------------------------------------------------
\* The types of the variables.
TypeOK ==
  /\ parser \in {"ok", "destroyed"} /\ fails \in 0..MaxFails
  /\ shell.pc \in {"prompt", "execute", "pipe", "fork", "parent", "wait", "exited"}
  /\ shell.i \in 0..MaxChild /\ shell.j \in 0..MaxChild /\ shell.pids \in Seq(Child)
  /\ shell.open \subseteq UNION {ends(k) : k \in Child}
  /\ \A c \in Child : child[c].st \in {"none", "setup", "run", "zombie", "gone"}

\* When the prompt is shown, every child of a foreground pipeline has ended, no
\* zombie is left, and the shell has no end of a pipe open, whether or not an
\* earlier background pipeline made it ignore SIGCHLD; and the types are right.
PromptClean ==
  /\ TypeOK
  /\ shell.pc = "prompt" =>
       /\ \A c \in Child : /\ alive(c) => child[c].bg
                           /\ child[c].st # "zombie"
       /\ shell.open = {}

\* The pipelines of the grammar: commands between pipes, each with a word and
\* no redirection of nothing, and at the end an optional "&".
body(ts) == IF ts # <<>> /\ Last(ts).kind = "amp" THEN Front(ts) ELSE ts
cuts(ts) == {0, Len(ts) + 1} \cup {i \in DOMAIN ts : ts[i].kind = "pipe"}
pieces(ts) == {SubSeq(ts, a + 1, b - 1) : <<a, b>> \in
                 {<<a, b>> \in cuts(ts) \X cuts(ts) : a < b /\ \A x \in cuts(ts) : ~(a < x /\ x < b)}}
is_command(ts) == /\ \E i \in DOMAIN ts : ts[i].kind = "arg"
                  /\ \A i \in DOMAIN ts : ts[i].kind \in {"arg", "in", "out"} /\ ts[i].word # NULL
valid(ts) == \A piece \in pieces(body(ts)) : is_command(piece)
words(ts, kind) == [i \in DOMAIN SelectSeq(ts, LAMBDA t : t.kind = kind) |->
                      SelectSeq(ts, LAMBDA t : t.kind = kind)[i].word]

\* What is executed of a line that ends with a newline is the pipeline of the
\* grammar: a valid line gives a command for each piece with all its words in
\* order, to be waited for unless it ends with "&"; another line gives nothing.
ParseCorrect ==
  line.nl /\ shell.pc \in {"prompt", "execute"} =>
    /\ (shell.pc = "execute") => valid(line.toks)
    /\ (shell.pc = "execute") =>
         /\ pl.wait = (body(line.toks) = line.toks)
         /\ Len(pl.cmds) = Cardinality(cuts(body(line.toks))) - 1
         /\ words(line.toks, "arg") = FlattenSeq([i \in DOMAIN pl.cmds |-> pl.cmds[i].args])
    /\ pl.null => ~valid(line.toks)

\* Everything ends: the shell reads its input to the end or exits, and no child
\* waits forever for the end of its input, also when a pipe() or a fork() in
\* the middle of a pipeline failed.
AllEnd == <>[](shell.pc = "exited" /\ \A c \in Child : ~alive(c))
=============================================================================
