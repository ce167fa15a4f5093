---------------------------------- MODULE Sh ----------------------------------
(***************************************************************************)
(* The shell of xv6 (user/sh.c): its parser, a recursive descent over the  *)
(* tokens of a line, and runcmd(), which walks the tree it gives with      *)
(* fork, exec, pipe, redirections and wait.                                *)
(*                                                                         *)
(* A line is a sequence of tokens, as gettoken() cuts it; only the kind of *)
(* a token and its word matter.  The programs that are run are external: a *)
(* filter ends at the end of its input, which a pipe gives when no process *)
(* holds its write end; every other program just ends.  The system calls   *)
(* are those of the kernel: a new descriptor is the lowest that is free,   *)
(* wait() takes any child, exit() leaves the children to init.             *)
(***************************************************************************)
EXTENDS Integers, Sequences, FiniteSets, FiniteSetsExt, SequencesExt

CONSTANTS Inputs,    \* bound: what the user may type, a set of sequences of lines
          Filter,    \* the programs that read their standard input
          MAXARGS,   \* sh.c: size of argv
          NOFILE,    \* param.h: open files of a process
          MaxProc,   \* bound: processes, the shell included
          MaxFails   \* bound: fork()s and pipe()s that fail

VARIABLES todo,   \* the lines not read yet
          line,   \* the tokens of the line parsed last
          tree,   \* what parsecmd() made of it
          proc,   \* the processes
          fails   \* fork()s and pipe()s that failed

vars == <<todo, line, tree, proc, fails>>

Proc == 1..MaxProc
shell == 1
init == 0

----------------------------------------------------------------------------
(* Commands *)

NoCmd == [type |-> "NULL"]
execcmd == [type |-> "EXEC", argv |-> <<>>]
redircmd(subcmd, file, tok) ==
  [type |-> "REDIR", cmd |-> subcmd, file |-> file, mode |-> tok, fd |-> IF tok = "<" THEN 0 ELSE 1]
pipecmd(left, right) == [type |-> "PIPE", left |-> left, right |-> right]
listcmd(left, right) == [type |-> "LIST", left |-> left, right |-> right]
backcmd(subcmd) == [type |-> "BACK", cmd |-> subcmd]

----------------------------------------------------------------------------
(* Parsing.  A token has a kind: "a" for a word, or the symbol itself, with *)
(* "+" for >>.  A parsing function gets the tokens and a position, and      *)
(* gives a command and the position after it, or panics.                    *)

gettoken(ts, i) == IF i > Len(ts) THEN "end" ELSE ts[i].kind
peek(ts, i, kinds) == gettoken(ts, i) \in kinds

panic == [panic |-> TRUE]
parsed(cmd, i) == [panic |-> FALSE, cmd |-> cmd, i |-> i]

\* What K makes of the result e, unless that is a panic.
then(e, K(_)) == CHOOSE v \in {IF u.panic THEN panic ELSE K(u) : u \in {e}} : TRUE

RECURSIVE parseline(_, _), parsepipe(_, _), parseredirs(_, _, _), parseargs(_, _, _, _),
          parseamps(_, _, _), addarg(_, _)

parseredirs(cmd, ts, i) ==
  IF ~peek(ts, i, {"<", ">", "+"}) THEN parsed(cmd, i)
  ELSE IF gettoken(ts, i + 1) # "a" THEN panic
  ELSE parseredirs(redircmd(cmd, ts[i + 1].word, gettoken(ts, i)), ts, i + 2)

\* The arguments go to the execcmd inside the redirections made meanwhile.
addarg(cmd, word) ==
  IF cmd.type = "EXEC" THEN [cmd EXCEPT !.argv = Append(@, word)] ELSE [cmd EXCEPT !.cmd = addarg(@, word)]

parseargs(ret, argc, ts, i) ==
  IF peek(ts, i, {"|", ")", "&", ";"}) \/ gettoken(ts, i) = "end" THEN parsed(ret, i)
  ELSE IF gettoken(ts, i) # "a" \/ argc + 1 >= MAXARGS THEN panic
  ELSE then(parseredirs(addarg(ret, ts[i].word), ts, i + 1), LAMBDA u : parseargs(u.cmd, argc + 1, ts, u.i))

parseblock(ts, i) ==
  then(parseline(ts, i + 1),
       LAMBDA u : IF peek(ts, u.i, {")"}) THEN parseredirs(u.cmd, ts, u.i + 1) ELSE panic)

parseexec(ts, i) ==
  IF peek(ts, i, {"("}) THEN parseblock(ts, i)
  ELSE then(parseredirs(execcmd, ts, i), LAMBDA u : parseargs(u.cmd, 0, ts, u.i))

parsepipe(ts, i) ==
  then(parseexec(ts, i),
       LAMBDA u : IF ~peek(ts, u.i, {"|"}) THEN u
                  ELSE then(parsepipe(ts, u.i + 1), LAMBDA v : parsed(pipecmd(u.cmd, v.cmd), v.i)))

parseamps(cmd, ts, i) ==
  IF peek(ts, i, {"&"}) THEN parseamps(backcmd(cmd), ts, i + 1) ELSE parsed(cmd, i)

parseline(ts, i) ==
  then(then(parsepipe(ts, i), LAMBDA u : parseamps(u.cmd, ts, u.i)),
       LAMBDA u : IF ~peek(ts, u.i, {";"}) THEN u
                  ELSE then(parseline(ts, u.i + 1), LAMBDA v : parsed(listcmd(u.cmd, v.cmd), v.i)))

\* A parsecmd() that overlooks what is left of the line.
parsecmd_leftovers(ts) == LET l == parseline(ts, 1) IN IF l.panic THEN NoCmd ELSE l.cmd

\* NoCmd stands for the panic; nulterminate() makes strings of the words.
parsecmd(ts) == LET l == parseline(ts, 1) IN IF l.panic \/ l.i <= Len(ts) THEN NoCmd ELSE l.cmd

----------------------------------------------------------------------------
(* Processes and descriptors *)

File == 0..(NOFILE - 1)
Closed == <<"closed", 0>>
Console == <<"console", 0>>

\* A process does at most one pipe(), after which it runs nothing else, so a
\* pipe goes by the process that made it.
r(p) == <<"r", p>>
w(p) == <<"w", p>>

NoProc == [st |-> "none", pc |-> "run", cmd |-> NoCmd, parent |-> init, back |-> FALSE,
           fd |-> [f \in File |-> Closed], p |-> <<0, 0>>]

opened(t) == {f \in File : t[f] # Closed}
alive(p) == proc[p].st = "live"
held(e) == \E q \in Proc : \E f \in File : proc[q].fd[f] = e
kids(p) == {q \in Proc : proc[q].parent = p /\ proc[q].st \in {"live", "zombie"}}

close(t, f) == [t EXCEPT ![f] = Closed]

\* fdalloc(): the lowest free descriptor of t gets the file e.
fdalloc(t, e) == [t EXCEPT ![Min(File \ opened(t))] = e]

at(p, l) == alive(p) /\ proc[p].pc = l
runs(p, type) == at(p, "run") /\ proc[p].cmd.type = type
goto(p, l) == proc' = [proc EXCEPT ![p].pc = l]

\* exit(): the files are closed, and init takes and reaps the children.
exit(p) ==
  proc' = [q \in Proc |->
             IF q = p THEN [proc[p] EXCEPT !.st = IF proc[p].parent = init THEN "gone" ELSE "zombie", !.fd = NoProc.fd]
             ELSE IF proc[q].parent = p
             THEN [proc[q] EXCEPT !.parent = init, !.st = IF @ = "zombie" THEN "gone" ELSE @]
             ELSE proc[q]]

\* wait(0): any child that has ended; it would return at once without children,
\* but every wait() of this program comes after a fork().
wait(p, next) ==
  \E q \in kids(p) : proc[q].st = "zombie" /\ proc' = [proc EXCEPT ![q].st = "gone", ![p].pc = next]

\* fork1(): the child goes to l, with cmd; panic() if fork() fails.
fork1(p, next, l, cmd) ==
  LET new == 1 + Cardinality({q \in Proc : proc[q].st # "none"}) IN
  \/ /\ new \in Proc
     /\ proc' = [proc EXCEPT ![p].pc = next,
                             ![new] = [proc[p] EXCEPT !.pc = l, !.cmd = cmd, !.parent = p,
                                                      !.back = runs(p, "BACK")]]
     /\ UNCHANGED fails
  \/ fails < MaxFails /\ fails' = fails + 1 /\ exit(p)

----------------------------------------------------------------------------
(* main() *)

\* open("console") until the first three descriptors are open.
main_open(p) ==
  /\ at(p, "open")
  /\ proc' = [proc EXCEPT ![p].pc = "getcmd", ![p].fd = [f \in File |-> IF f < 3 /\ @[f] = Closed THEN Console ELSE @[f]]]
  /\ UNCHANGED <<todo, line, tree, fails>>

\* getcmd(), and a "cd " of the shell itself, whether or not chdir() fails.
main_getcmd(p) ==
  /\ at(p, "getcmd")
  /\ \/ todo = <<>> /\ exit(p) /\ UNCHANGED <<todo, line>>
     \/ /\ todo # <<>>
        /\ goto(p, IF Head(todo).cd THEN "getcmd" ELSE "fork")
        /\ line' = Head(todo).toks /\ todo' = Tail(todo)
  /\ tree' = NoCmd /\ UNCHANGED fails

main_fork(p) == at(p, "fork") /\ fork1(p, "wait", "parse", NoCmd) /\ UNCHANGED <<todo, line, tree>>

main_wait(p) == at(p, "wait") /\ wait(p, "getcmd") /\ UNCHANGED <<todo, line, tree, fails>>

\* The child parses the line, and exits in panic().
parse(p) ==
  /\ at(p, "parse")
  /\ tree' = parsecmd(line)
  /\ IF tree' = NoCmd THEN exit(p) ELSE proc' = [proc EXCEPT ![p].cmd = tree', ![p].pc = "run"]
  /\ UNCHANGED <<todo, line, fails>>

----------------------------------------------------------------------------
(* runcmd() *)

\* Nothing to execute, exec() fails, or the program starts.
run_exec(p) ==
  /\ runs(p, "EXEC")
  /\ exit(p) \/ (proc[p].cmd.argv # <<>> /\ goto(p, "program"))
  /\ UNCHANGED <<todo, line, tree, fails>>

\* close(), and open() takes the descriptor just closed, or fails.
run_redir(p) ==
  /\ runs(p, "REDIR")
  /\ LET c == proc[p].cmd IN
       \/ proc' = [proc EXCEPT ![p].fd = fdalloc(close(@, c.fd), <<"file", 0>>), ![p].cmd = c.cmd]
       \/ exit(p)
  /\ UNCHANGED <<todo, line, tree, fails>>

run_list(p) ==
  /\ \/ runs(p, "LIST") /\ fork1(p, "list_wait", "run", proc[p].cmd.left)
     \/ at(p, "list_wait") /\ wait(p, "list_right") /\ UNCHANGED fails
     \/ at(p, "list_right") /\ proc' = [proc EXCEPT ![p].cmd = @.right, ![p].pc = "run"] /\ UNCHANGED fails
  /\ UNCHANGED <<todo, line, tree>>

run_back(p) ==
  /\ \/ runs(p, "BACK") /\ fork1(p, "exit", "run", proc[p].cmd.cmd)
     \/ at(p, "exit") /\ exit(p) /\ UNCHANGED fails
  /\ UNCHANGED <<todo, line, tree>>

\* pipe(p): fails when there are not two descriptors, or no memory.
run_pipe(p) ==
  /\ runs(p, "PIPE")
  /\ LET t == proc[p].fd
         u == fdalloc(t, r(p))
         room == Cardinality(opened(t)) + 2 <= NOFILE IN
       \/ /\ room
          /\ proc' = [proc EXCEPT ![p].pc = "pipe_left", ![p].fd = fdalloc(u, w(p)),
                                  ![p].p = <<Min(File \ opened(t)), Min(File \ opened(u))>>]
          /\ UNCHANGED fails
       \/ /\ fails' = IF room THEN fails + 1 ELSE fails
          /\ fails' <= MaxFails /\ exit(p)
  /\ UNCHANGED <<todo, line, tree>>

pipe_fork(p) ==
  /\ \/ at(p, "pipe_left") /\ fork1(p, "pipe_right", "left", proc[p].cmd.left)
     \/ at(p, "pipe_right") /\ fork1(p, "pipe_close", "right", proc[p].cmd.right)
  /\ UNCHANGED <<todo, line, tree>>

\* A child that keeps the ends of the pipe open besides the copy it made.
pipe_dup_leak(p) ==
  /\ \E side \in {<<"left", 1, 2>>, <<"right", 0, 1>>} :
       /\ at(p, side[1])
       /\ proc' = [proc EXCEPT ![p].pc = "run", ![p].fd = fdalloc(close(@, side[2]), @[proc[p].p[side[3]]])]
  /\ UNCHANGED <<todo, line, tree, fails>>

\* The child: close(1), dup(p[1]) on the left or close(0), dup(p[0]) on the
\* right, then both ends are closed.
pipe_dup(p) ==
  /\ \E side \in {<<"left", 1, 2>>, <<"right", 0, 1>>} :
       /\ at(p, side[1])
       /\ proc' = [proc EXCEPT ![p].pc = "run",
                               ![p].fd = close(close(fdalloc(close(@, side[2]), @[proc[p].p[side[3]]]),
                                                     proc[p].p[1]), proc[p].p[2])]
  /\ UNCHANGED <<todo, line, tree, fails>>

\* A parent that keeps the write end.
pipe_closed_read(t, ends) == close(t, ends[1])

pipe_closed(t, ends) == close(close(t, ends[1]), ends[2])

pipe_wait(p) ==
  /\ \/ at(p, "pipe_close") /\ proc' = [proc EXCEPT ![p].fd = pipe_closed(@, proc[p].p), ![p].pc = "pipe_wait"]
     \/ at(p, "pipe_wait") /\ wait(p, "pipe_wait2")
     \/ at(p, "pipe_wait2") /\ wait(p, "exit")
  /\ UNCHANGED <<todo, line, tree, fails>>

\* A program ends: a filter at the end of its input, any program when nobody
\* reads its output.
program(p) ==
  /\ at(p, "program")
  /\ LET c == proc[p].cmd
         in == proc[p].fd[0]
         out == proc[p].fd[1]
     IN \/ Head(c.argv) \notin Filter \/ in[1] # "r" \/ ~held(w(in[2]))
        \/ out[1] = "w" /\ ~held(r(out[2]))
  /\ exit(p)
  /\ UNCHANGED <<todo, line, tree, fails>>

----------------------------------------------------------------------------
\* init starts the shell with the console on its first three descriptors.
Init ==
  /\ todo \in Inputs
  /\ line = <<>> /\ tree = NoCmd
  /\ proc = [p \in Proc |-> IF p = shell
                            THEN [NoProc EXCEPT !.st = "live", !.pc = "open",
                                                !.fd = [f \in File |-> IF f < 3 THEN Console ELSE Closed]]
                            ELSE NoProc]
  /\ fails = 0

main(p) == main_open(p) \/ main_getcmd(p) \/ main_fork(p) \/ main_wait(p)

runcmd(p) == \/ parse(p) \/ run_exec(p) \/ run_redir(p) \/ run_list(p) \/ run_back(p)
             \/ run_pipe(p) \/ pipe_fork(p) \/ pipe_dup(p) \/ pipe_wait(p)

step(p) == main(p) \/ runcmd(p) \/ program(p)

Next == \E p \in Proc : step(p)

\* The scheduler runs every process, and programs end.
Fairness == \A p \in Proc : WF_vars(step(p))

Spec == Init /\ [][Next]_vars /\ Fairness

----------------------------------------------------------------------------
\* The types of the variables.
TypeOK ==
  /\ fails \in 0..MaxFails
  /\ \A p \in Proc : /\ proc[p].st \in {"none", "live", "zombie", "gone"}
                     /\ proc[p].parent \in Proc \cup {init} /\ proc[p].back \in BOOLEAN
                     /\ DOMAIN proc[p].fd = File

\* Nothing is left behind: unless a fork() failed, a process that was not put
\* in the background ends before the process that forked it, so that ";" and
\* the prompt come after all of what is before them, however wait(0), which
\* takes any child, and the ends of the children interleave.  At the prompt the
\* shell has no child, and a program starts with three descriptors: no end of
\* a pipe leaks into it.
NothingLeft ==
  /\ TypeOK
  /\ \A p \in Proc \ {shell} :
       alive(p) /\ ~proc[p].back /\ fails = 0 => proc[p].parent # init /\ alive(proc[p].parent)
  /\ at(shell, "getcmd") => kids(shell) = {}
  /\ \A p \in Proc : at(p, "getcmd") \/ at(p, "program") => opened(proc[p].fd) = 0..2

(* The grammar, as the set of the trees of a sequence of tokens:            *)
(*   line ::= pipe "&"* | pipe "&"* ";" line                                *)
(*   pipe ::= exec | exec "|" pipe                                          *)
(*   exec ::= redir* (word redir* )* | "(" line ")" redir*                  *)
cut(ts, kind) == {i \in DOMAIN ts : ts[i].kind = kind}
before(ts, i) == SubSeq(ts, 1, i - 1)
after(ts, i) == SubSeq(ts, i + 1, Len(ts))

redirs(ts) == cut(ts, "<") \cup cut(ts, ">") \cup cut(ts, "+")
in_order(S, ts) == SelectSeq([i \in DOMAIN ts |-> i], LAMBDA i : i \in S)
redirected(cmd, ts, i) == redircmd(cmd, ts[i + 1].word, ts[i].kind)

\* The commands of words and redirections; the words of a redirection follow it.
simple(ts) ==
  LET files == {i + 1 : i \in redirs(ts)}
      args == cut(ts, "a") \ files
      argv == [k \in 1..Cardinality(args) |-> ts[in_order(args, ts)[k]].word]
  IN IF /\ files \subseteq cut(ts, "a")
        /\ args \cup files \cup redirs(ts) = DOMAIN ts
        /\ Cardinality(args) < MAXARGS
     THEN {FoldLeft(LAMBDA c, i : redirected(c, ts, i), [execcmd EXCEPT !.argv = argv],
                    in_order(redirs(ts), ts))}
     ELSE {}

RECURSIVE lines(_), pipes(_), blocks(_), amped(_)
blocks(ts) ==
  LET n == Len(ts)
      redir == n > 2 /\ n \in cut(ts, "a") /\ n - 1 \in redirs(ts)
      paren == n > 1 /\ 1 \in cut(ts, "(") /\ n \in cut(ts, ")")
  IN IF redir THEN {redirected(c, ts, n - 1) : c \in blocks(before(ts, n - 1))}
     ELSE IF paren THEN lines(before(after(ts, 1), n - 1)) ELSE {}

execs(ts) == simple(ts) \cup blocks(ts)

pipes(ts) == execs(ts) \cup UNION {{pipecmd(a, b) : a \in execs(before(ts, i)), b \in pipes(after(ts, i))} :
                                   i \in cut(ts, "|")}

amped(ts) == pipes(ts) \cup IF Len(ts) \in cut(ts, "&") THEN {backcmd(c) : c \in amped(before(ts, Len(ts)))} ELSE {}

lines(ts) == amped(ts) \cup UNION {{listcmd(a, b) : a \in amped(before(ts, i)), b \in lines(after(ts, i))} :
                                   i \in cut(ts, ";")}

\* parsecmd() decides the grammar: it gives the one tree that a line has, and
\* panics on a line that has none, with leftovers, unbalanced parentheses, a
\* redirection without a file or too many arguments for argv.
ParseDecides ==
  at(shell, "wait") /\ (\A p \in Proc : ~at(p, "parse")) => lines(line) = {tree} \ {NoCmd}

\* Everything ends: the shell at the end of its input and everything it ran,
\* for no process waits for the end of a pipe that another one keeps open,
\* also when a fork() failed in the middle of a command.
AllEnd == <>[](\A p \in Proc : ~alive(p))
=============================================================================
