------------------------------ MODULE Devices ------------------------------
(***************************************************************************)
(* The devices of the labo2 kernel and the processes that wait for them:   *)
(* the disk driver (kernel/virtio_disk.c), the console and the uart        *)
(* (kernel/console.c, kernel/uart.c), the clock (sys_sleep in              *)
(* kernel/sysproc.c) and the dispatch of their interrupts (kernel/trap.c). *)
(*                                                                         *)
(* vdisk_lock, cons.lock, uart_tx_lock and tickslock are held across steps *)
(* only where somebody else can act meanwhile: which process or handler    *)
(* holds one follows from where it is.  sleep() and wakeup() are atomic,   *)
(* which is what Semaphore establishes, but kill() may come between the    *)
(* test of killed() and sleep().  The devices are external: the disk       *)
(* serves requests in any order, the uart has a FIFO, which uartinit()     *)
(* enables.  Each process has one buffer, locked, as Bcache establishes.   *)
(***************************************************************************)
EXTENDS Integers, Sequences, FiniteSets, FiniteSetsExt, SequencesExt, Rings

CONSTANTS Proc,
          Block,             \* block numbers of the disk
          NUM,               \* virtio.h: descriptors
          IDX,               \* uint16 wraps at IDX (2^16)
          INPUT_BUF_SIZE,    \* console.c
          UART_TX_BUF_SIZE,  \* uart.c
          U,                 \* uint and uint64 wrap at U
          Scenarios,         \* bound: system calls, keys typed and victims of kill()
          None

Desc == 0..(NUM - 1)
Echo == "echo"
Char == {"a", "b", "nl", "eof"}
Key == Char \cup {"bs", "kill", "ps"}

\* The calls that are modelled: to the disk with a block, to the console with a
\* number of characters, and to the clock with a number of ticks.
BlockCall == [op : {"read_block", "write_block"}, arg : Block]
CountCall == [op : {"read", "write", "sleep"}, arg : Nat]

\* The rings survive the wrap of their indices, and a request fits.
ASSUME DevicesAssumption ==
  /\ NUM \in Nat /\ NUM >= 3 /\ IDX \in Nat \ {0} /\ IDX % NUM = 0
  /\ INPUT_BUF_SIZE \in Nat \ {0} /\ UART_TX_BUF_SIZE \in Nat \ {0} /\ U \in Nat
  /\ U % INPUT_BUF_SIZE = 0 /\ U > INPUT_BUF_SIZE
  /\ U % UART_TX_BUF_SIZE = 0 /\ U > UART_TX_BUF_SIZE
  /\ IsFiniteSet(Proc) /\ None \notin Proc /\ None \notin Desc /\ None \notin Key
  /\ Echo # None /\ Echo \notin Proc
  /\ \A s \in Scenarios :
       /\ s.calls \in [Proc -> Seq(BlockCall \cup CountCall)]
       /\ s.keys \in Seq(Key) /\ s.victims \subseteq Proc

VARIABLES pc, prog, call, left,  \* a process's place, its next calls, its call, what is left of it
          killed, victims,       \* killed processes; those kill() may still name
          disk,                  \* struct disk: see virtio_disk_init
          dev,                   \* the disk itself, and its interrupt
          data, busy,            \* b->data and b->disk of a process's buffer
          cons, uart,            \* cons; the transmit ring
          port,                  \* the uart itself
          typing,                \* keys still to be typed
          hd, hu,                \* the interrupt handlers of disk and uart
          sent, out              \* what was written, and what the uart has put out

procVars == <<pc, prog, call, left, killed, victims>>
diskVars == <<disk, dev, data, busy, hd>>
consVars == <<cons, uart, port, typing, hu, sent, out>>
vars == <<procVars, diskVars, consVars>>

at(p, l) == pc[p] = l
goto(p, l) == pc' = [pc EXCEPT ![p] = l]

\* The channels: where a process is asleep, and where it goes on when woken.
Channel == {"free", "buf", "cons_r", "uart_tx_r", "ticks"}
resume == [free |-> "alloc", buf |-> "rw_wait", cons_r |-> "read", uart_tx_r |-> "putc", ticks |-> "sleep_wait"]
wakeup(f, chan) == [p \in Proc |-> IF f[p] = chan THEN resume[chan] ELSE f[p]]

\* Nobody is in a critical section of these locks.
vdisk_lock == hd = "idle"
cons_lock == hu # "echo" /\ \A p \in Proc : pc[p] \notin {"read_next", "read_sleep"}
uart_tx_lock == hu # "start" /\ \A p \in Proc : pc[p] # "uartstart"
tickslock == \A p \in Proc : pc[p] # "sleep_sleep"

----------------------------------------------------------------------------
(* Processes *)

\* A call starts.  bcache gives a block to one process at a time.
syscall(p) ==
  /\ at(p, "user") /\ prog[p] # <<>> /\ p \notin killed
  /\ LET c == Head(prog[p]) IN
       /\ c.op \in {"read_block", "write_block"} =>
            \A q \in Proc \ {p} : pc[q] \in {"alloc", "free", "buf", "rw_wait"} => call[q].arg # c.arg
       /\ call' = [call EXCEPT ![p] = c]
       /\ left' = [left EXCEPT ![p] = IF c.op \in {"read", "write", "sleep"} THEN c.arg ELSE 0]
       /\ data' = [data EXCEPT ![p] = IF c.op = "write_block" THEN p ELSE @]
       /\ goto(p, IF c.op \in {"read_block", "write_block"} THEN "alloc" ELSE c.op)
  /\ prog' = [prog EXCEPT ![p] = Tail(@)]
  /\ UNCHANGED <<killed, victims, disk, dev, busy, hd, consVars>>

usertrap_exit(p) ==
  /\ at(p, "user") /\ p \in killed /\ prog[p] # <<>>
  /\ prog' = [prog EXCEPT ![p] = <<>>]
  /\ UNCHANGED <<pc, call, left, killed, victims, diskVars, consVars>>

kill(p) ==
  /\ p \in victims /\ victims' = victims \ {p}
  /\ killed' = killed \cup {p}
  /\ goto(p, IF pc[p] \in Channel THEN resume[pc[p]] ELSE pc[p])
  /\ UNCHANGED <<prog, call, left, diskVars, consVars>>

----------------------------------------------------------------------------
(* virtio_disk.c *)

\* The descriptors alloc3_desc() takes: the first three that are free.
alloc3_desc ==
  CHOOSE s \in [1..3 -> disk.free] :
    /\ s[1] < s[2] /\ s[2] < s[3]
    /\ \A i \in disk.free : i < s[3] => i \in {s[1], s[2]}

\* The descriptors taken are set up, and the first goes to the available ring.
request(p, i) ==
  [disk EXCEPT !.free = @ \ {i[1], i[2], i[3]},
               !.next = [@ EXCEPT ![i[1]] = i[2], ![i[2]] = i[3], ![i[3]] = None],
               !.addr = [@ EXCEPT ![i[2]] = p],
               !.ops = [@ EXCEPT ![i[1]] = call[p]],
               !.status = [@ EXCEPT ![i[1]] = 255],
               !.b = [@ EXCEPT ![i[1]] = p],
               !.avail = [@ EXCEPT ![disk.avail_idx % NUM] = i[1]],
               !.avail_idx = (@ + 1) % IDX]

\* Fewer than three are left: those taken are freed again, which wakes everyone
\* who waits for one.
alloc_fail(p) ==
  /\ at(p, "alloc") /\ vdisk_lock /\ Cardinality(disk.free) < 3
  /\ pc' = [IF disk.free = {} THEN pc ELSE wakeup(pc, "free") EXCEPT ![p] = "free"]
  /\ UNCHANGED <<prog, call, left, killed, victims, diskVars, consVars>>

virtio_disk_rw(p) ==
  /\ at(p, "alloc") /\ vdisk_lock /\ Cardinality(disk.free) >= 3
  /\ \E i \in {alloc3_desc} :
       /\ disk' = request(p, i)
       /\ left' = [left EXCEPT ![p] = i[1]]
  /\ busy' = busy \cup {p}
  /\ goto(p, "buf")
  /\ UNCHANGED <<prog, call, killed, victims, dev, data, hd, consVars>>

\* The chain that starts at descriptor i.
chain(i) ==
  LET after(S) == {disk.next[j] : j \in S} \ {None} IN {i} \cup after({i}) \cup after(after({i}))

\* A requester that takes being woken for the end of its request.
finished_woken(p) == TRUE

finished(p) == p \notin busy

\* The loop around sleep(b): sleep again, or free the chain and return.
rw_wait(p) ==
  /\ at(p, "rw_wait") /\ vdisk_lock
  /\ IF finished(p)
     THEN /\ disk' = [disk EXCEPT !.b[left[p]] = None,
                                  !.free = @ \cup chain(left[p]),
                                  !.next = [j \in Desc |-> IF j \in chain(left[p]) THEN None ELSE @[j]],
                                  !.addr = [j \in Desc |-> IF j \in chain(left[p]) THEN None ELSE @[j]]]
          /\ left' = [left EXCEPT ![p] = 0]
          /\ pc' = [wakeup(pc, "free") EXCEPT ![p] = "user"]
     ELSE goto(p, "buf") /\ UNCHANGED <<disk, left>>
  /\ UNCHANGED <<prog, call, killed, victims, dev, data, busy, hd, consVars>>

\* The disk takes the next request of the available ring.
disk_take ==
  /\ dev.seen # disk.avail_idx
  /\ dev' = [dev EXCEPT !.seen = (@ + 1) % IDX, !.inflight = @ \cup {disk.avail[dev.seen % NUM]}]
  /\ UNCHANGED <<procVars, disk, data, busy, hd, consVars>>

\* The disk serves a request, says so in the used ring and interrupts.
disk_serve(id) ==
  /\ id \in dev.inflight
  /\ LET b == disk.addr[disk.next[id]]
         op == disk.ops[id]
     IN /\ data' = [data EXCEPT ![b] = IF op.op = "read_block" THEN dev.store[op.arg] ELSE @]
        /\ dev' = [dev EXCEPT !.store[op.arg] = IF op.op = "read_block" THEN @ ELSE data[b],
                              !.inflight = @ \ {id}, !.irq = TRUE]
  /\ disk' = [disk EXCEPT !.status[id] = 0, !.used[disk.used_ring_idx % NUM] = id,
                          !.used_ring_idx = (@ + 1) % IDX]
  /\ UNCHANGED <<procVars, busy, hd, consVars>>

\* virtio_disk_intr(): the interrupt is acknowledged before the used ring is
\* looked at; one turn of the loop; and the end.
disk_intr ==
  /\ dev.irq /\ hd = "idle"
  /\ hd' = "loop" /\ dev' = [dev EXCEPT !.irq = FALSE]
  /\ UNCHANGED <<procVars, disk, data, busy, consVars>>

disk_intr_used ==
  /\ hd = "loop" /\ disk.used_idx # disk.used_ring_idx
  /\ LET b == disk.b[disk.used[disk.used_idx % NUM]] IN
       /\ busy' = busy \ {b}
       /\ pc' = [p \in Proc |-> IF p = b /\ pc[p] = "buf" THEN "rw_wait" ELSE pc[p]]
  /\ disk' = [disk EXCEPT !.used_idx = (@ + 1) % IDX]
  /\ UNCHANGED <<prog, call, left, killed, victims, dev, data, hd, consVars>>

\* A handler that looks at the used ring at most once.
disk_intr_end_early ==
  /\ hd = "loop" /\ hd' = "idle"
  /\ UNCHANGED <<procVars, disk, dev, data, busy, consVars>>

disk_intr_end ==
  /\ hd = "loop" /\ disk.used_idx = disk.used_ring_idx /\ hd' = "idle"
  /\ UNCHANGED <<procVars, disk, dev, data, busy, consVars>>

----------------------------------------------------------------------------
(* uart.c and consolewrite() *)

\* uart_tx_w == uart_tx_r + UART_TX_BUF_SIZE, one off.
tx_full_late == uart.w = (uart.r + UART_TX_BUF_SIZE + 1) % U

tx_full == uart.w = (uart.r + UART_TX_BUF_SIZE) % U

\* uartstart() has a character to send and the uart is idle.
can_send == uart.w # uart.r /\ port.fifo = <<>>

\* A turn of uartstart()'s loop.
send(f) ==
  /\ port' = [port EXCEPT !.fifo = Append(@, uart.buf[uart.r % UART_TX_BUF_SIZE])]
  /\ uart' = [uart EXCEPT !.r = (@ + 1) % U]
  /\ pc' = wakeup(f, "uart_tx_r")

\* consolewrite() copies the next character, or ends; copyin() may fail.
consolewrite(p) ==
  /\ at(p, "write")
  /\ \/ left[p] > 0 /\ goto(p, "putc")
     \/ goto(p, "user")
  /\ UNCHANGED <<prog, call, left, killed, victims, diskVars, consVars>>

uartputc(p) ==
  /\ at(p, "putc") /\ uart_tx_lock
  /\ IF tx_full
     THEN goto(p, "uart_tx_r") /\ UNCHANGED <<left, uart, sent>>
     ELSE /\ uart' = [uart EXCEPT !.buf[uart.w % UART_TX_BUF_SIZE] = p, !.w = (@ + 1) % U]
          /\ sent' = Append(sent, p)
          /\ left' = [left EXCEPT ![p] = @ - 1]
          /\ goto(p, "uartstart")
  /\ UNCHANGED <<prog, call, killed, victims, diskVars, cons, port, typing, hu, out>>

uartstart(p) ==
  /\ at(p, "uartstart")
  /\ \/ can_send /\ send(pc)
     \/ ~can_send /\ goto(p, "write") /\ UNCHANGED <<uart, port>>
  /\ UNCHANGED <<prog, call, left, killed, victims, diskVars, cons, typing, hu, sent, out>>

\* The uart puts out a character; it interrupts when it has no more.
uart_transmit ==
  /\ port.fifo # <<>>
  /\ port' = [port EXCEPT !.fifo = Tail(@), !.irq = @ \/ Len(port.fifo) = 1]
  /\ out' = IF Head(port.fifo) = Echo THEN out ELSE Append(out, Head(port.fifo))
  /\ UNCHANGED <<procVars, diskVars, cons, uart, typing, hu, sent>>

\* Somebody types a key.
uart_receive ==
  /\ typing # <<>> /\ port.rx = None
  /\ port' = [port EXCEPT !.rx = Head(typing), !.irq = TRUE]
  /\ typing' = Tail(typing)
  /\ UNCHANGED <<procVars, diskVars, cons, uart, hu, sent, out>>

----------------------------------------------------------------------------
(* console.c: input *)

minus(a, b) == (a - b) % U
char_at(i) == cons.buf[i % INPUT_BUF_SIZE]

\* The edit index after control-u: back to the last newline, and not before w.
kill_line ==
  minus(cons.e, Max({k \in 0..minus(cons.e, cons.w) : \A j \in 1..k : char_at(minus(cons.e, j)) # "nl"}))

\* A backspace that may go back behind what was entered.
erase_entered == IF cons.e # cons.r THEN minus(cons.e, 1) ELSE cons.e

erase == IF cons.e # cons.w THEN minus(cons.e, 1) ELSE cons.e

has_room == minus(cons.e, cons.r) < INPUT_BUF_SIZE

\* The line is entered with this character: it ends it, or fills the buffer.
enters(ch) == ch \in {"nl", "eof"} \/ minus(cons.e, cons.r) + 1 = INPUT_BUF_SIZE

store(ch) == [cons EXCEPT !.buf[cons.e % INPUT_BUF_SIZE] = ch, !.e = (@ + 1) % U,
                          !.w = IF enters(ch) THEN (cons.e + 1) % U ELSE @]

\* consoleintr() changes the buffer, and has waited for the uart to be idle if
\* it has something to echo.  A NUL, which is no Char, is ignored.
consoleintr(ch) ==
  /\ cons' = CASE ch = "kill" -> [cons EXCEPT !.e = kill_line]
               [] ch = "bs" -> [cons EXCEPT !.e = erase]
               [] ch \in Char /\ has_room -> store(ch)
               [] OTHER -> cons
  /\ pc' = IF ch \in Char /\ has_room /\ enters(ch) THEN wakeup(pc, "cons_r") ELSE pc
  /\ IF cons' = cons THEN UNCHANGED hu ELSE port.fifo = <<>> /\ hu' = "echo"

\* uartintr(): a key is read and handled, its echo is written, and when there
\* are no more the transmitter is started.
uart_intr ==
  /\ port.irq /\ hu = "idle"
  /\ hu' = "getc" /\ port' = [port EXCEPT !.irq = FALSE]
  /\ UNCHANGED <<procVars, diskVars, cons, uart, typing, sent, out>>

uart_intr_key ==
  /\ hu = "getc" /\ port.rx # None /\ cons_lock
  /\ consoleintr(port.rx)
  /\ port' = [port EXCEPT !.rx = None]
  /\ UNCHANGED <<prog, call, left, killed, victims, diskVars, uart, typing, sent, out>>

uartputc_sync ==
  /\ hu = "echo" /\ hu' = "getc"
  /\ port' = [port EXCEPT !.fifo = Append(@, Echo)]
  /\ UNCHANGED <<procVars, diskVars, cons, uart, typing, sent, out>>

uart_intr_send ==
  /\ hu = "getc" /\ port.rx = None /\ uart_tx_lock
  /\ hu' = "start"
  /\ UNCHANGED <<procVars, diskVars, cons, uart, port, typing, sent, out>>

uart_intr_start ==
  /\ hu = "start"
  /\ \/ can_send /\ send(pc) /\ UNCHANGED hu
     \/ ~can_send /\ hu' = "idle" /\ UNCHANGED <<pc, uart, port>>
  /\ UNCHANGED <<prog, call, left, killed, victims, diskVars, cons, typing, sent, out>>

\* A turn of consoleread()'s loop; cons.lock is held between turns.  An end of
\* file that is not alone stays for the next call; copyout() may fail.
consoleread(p) ==
  /\ at(p, "read_next") \/ (at(p, "read") /\ cons_lock)
  /\ LET ch == char_at(cons.r)
         partial == left[p] < call[p].arg
         advanced == [cons EXCEPT !.r = (@ + 1) % U]
     IN \/ left[p] = 0 /\ goto(p, "user") /\ UNCHANGED <<cons, left>>
        \/ /\ left[p] > 0 /\ cons.r = cons.w
           /\ goto(p, IF p \in killed THEN "user" ELSE "read_sleep")
           /\ UNCHANGED <<cons, left>>
        \/ /\ left[p] > 0 /\ cons.r # cons.w /\ ch = "eof"
           /\ cons' = IF partial THEN cons ELSE advanced
           /\ goto(p, "user") /\ UNCHANGED left
        \/ /\ left[p] > 0 /\ cons.r # cons.w /\ ch # "eof"
           /\ cons' = advanced
           /\ \/ left' = [left EXCEPT ![p] = @ - 1] /\ goto(p, IF ch = "nl" THEN "user" ELSE "read_next")
              \/ UNCHANGED left /\ goto(p, "user")
  /\ UNCHANGED <<prog, call, killed, victims, diskVars, uart, port, typing, hu, sent, out>>

read_sleep(p) ==
  /\ at(p, "read_sleep") /\ goto(p, "cons_r")
  /\ UNCHANGED <<prog, call, left, killed, victims, diskVars, consVars>>

----------------------------------------------------------------------------
(* The clock.  left is the number of ticks until ticks - ticks0 reaches n. *)

sys_sleep(p) ==
  /\ at(p, "sleep") \/ at(p, "sleep_wait")
  /\ tickslock
  /\ goto(p, IF left[p] = 0 \/ p \in killed THEN "user" ELSE "sleep_sleep")
  /\ UNCHANGED <<prog, call, left, killed, victims, diskVars, consVars>>

sleep_sleep(p) ==
  /\ at(p, "sleep_sleep") /\ goto(p, "ticks")
  /\ UNCHANGED <<prog, call, left, killed, victims, diskVars, consVars>>

clockintr ==
  /\ tickslock
  /\ left' = [p \in Proc |-> IF pc[p] \in {"ticks", "sleep_wait"} /\ left[p] > 0 THEN left[p] - 1 ELSE left[p]]
  /\ pc' = wakeup(pc, "ticks")
  /\ UNCHANGED <<prog, call, killed, victims, diskVars, consVars>>

----------------------------------------------------------------------------
\* virtio_disk_init(): an empty queue, all descriptors free.
virtio_disk_init ==
  [free |-> Desc, next |-> [i \in Desc |-> None], addr |-> [i \in Desc |-> None],
   ops |-> [i \in Desc |-> [op |-> "none", arg |-> None]],
   status |-> [i \in Desc |-> 0], b |-> [i \in Desc |-> None],
   avail |-> [i \in Desc |-> 0], avail_idx |-> 0,
   used |-> [i \in Desc |-> 0], used_ring_idx |-> 0, used_idx |-> 0]

\* uartinit() enables the FIFO, which is empty, and the interrupts.
uartinit == [fifo |-> <<>>, rx |-> None, irq |-> FALSE]

Init ==
  /\ \E s \in Scenarios : prog = s.calls /\ typing = s.keys /\ victims = s.victims
  /\ pc = [p \in Proc |-> "user"]
  /\ call = [p \in Proc |-> [op |-> "none", arg |-> None]]
  /\ left = [p \in Proc |-> 0]
  /\ killed = {}
  /\ disk = virtio_disk_init
  /\ dev = [store |-> [b \in Block |-> None], seen |-> 0, inflight |-> {}, irq |-> FALSE]
  /\ data = [p \in Proc |-> None]
  /\ busy = {}
  /\ cons = [buf |-> [i \in 0..(INPUT_BUF_SIZE - 1) |-> "nl"], r |-> 0, w |-> 0, e |-> 0]
  /\ uart = [buf |-> [i \in 0..(UART_TX_BUF_SIZE - 1) |-> None], r |-> 0, w |-> 0]
  /\ port = uartinit
  /\ hd = "idle" /\ hu = "idle"
  /\ sent = <<>> /\ out = <<>>

ProcStep(p) ==
  \/ syscall(p) \/ usertrap_exit(p)
  \/ alloc_fail(p) \/ virtio_disk_rw(p) \/ rw_wait(p)
  \/ consolewrite(p) \/ uartputc(p) \/ uartstart(p)
  \/ consoleread(p) \/ read_sleep(p)
  \/ sys_sleep(p) \/ sleep_sleep(p)

disk_step == disk_take \/ \E id \in Desc : disk_serve(id)

\* devintr() runs the handler of the device that interrupts, on some processor.
devintr_disk == disk_intr \/ disk_intr_used \/ disk_intr_end
devintr_uart == uart_intr \/ uart_intr_key \/ uartputc_sync \/ uart_intr_send \/ uart_intr_start

Next ==
  \/ \E p \in Proc : ProcStep(p) \/ kill(p)
  \/ disk_step \/ devintr_disk \/ devintr_uart \/ uart_transmit \/ uart_receive \/ clockintr

\* Processes are scheduled, the devices serve what they are given and interrupts
\* are taken.  Nobody has to type, or to kill.
Spec ==
  /\ Init /\ [][Next]_vars
  /\ \A p \in Proc : WF_vars(ProcStep(p))
  /\ WF_vars(disk_step) /\ WF_vars(devintr_disk)
  /\ WF_vars(devintr_uart) /\ WF_vars(uart_transmit) /\ WF_vars(clockintr)

----------------------------------------------------------------------------
\* The types of the variables.  The FIFO of the uart never has to hold more
\* than a character of uartstart() and an echo that both found it empty.
TypeOK ==
  /\ \A p \in Proc : pc[p] \in Channel \cup {"user", "alloc", "rw_wait", "read", "read_next", "read_sleep",
                                     "write", "putc", "uartstart", "sleep", "sleep_wait", "sleep_sleep"}
  /\ left \in [Proc -> Nat] /\ killed \subseteq Proc /\ busy \subseteq Proc
  /\ disk.free \subseteq Desc /\ dev.inflight \subseteq Desc
  /\ cons.r \in 0..(U - 1) /\ cons.w \in 0..(U - 1) /\ cons.e \in 0..(U - 1)
  /\ minus(cons.e, cons.r) <= INPUT_BUF_SIZE /\ minus(uart.w, uart.r) <= UART_TX_BUF_SIZE
  /\ Len(port.fifo) <= 2

\* The processes whose request is with the driver, and what they hold.
requesters == {p \in Proc : pc[p] \in {"buf", "rw_wait"}}

\* Descriptors are free or in the chain of one request, so free_desc() does not
\* panic; the completions the handler will see belong to requests that are
\* waited for and succeeded; and a request that virtio_disk_rw() takes for
\* finished has moved the block between its own buffer and the disk, whatever
\* the order the disk served requests in and whoever was killed; and the
\* variables have their types.
DiskCorrect ==
  /\ TypeOK
  /\ \A p \in requesters :
       /\ chain(left[p]) \cap disk.free = {} /\ Cardinality(chain(left[p])) = 3
       /\ \A q \in requesters \ {p} : chain(left[p]) \cap chain(left[q]) = {}
       /\ disk.b[left[p]] = p
       /\ (pc[p] = "rw_wait" /\ finished(p)) => data[p] = dev.store[call[p].arg]
  /\ disk.used_idx # disk.used_ring_idx =>
       LET id == disk.used[disk.used_idx % NUM] IN disk.status[id] = 0 /\ disk.b[id] \in requesters \cap busy
  /\ Cardinality(disk.free) = NUM - 3 * Cardinality(requesters)

\* Console input implements the line discipline of ConsoleSpec: entered lines
\* are out of the reach of backspace and control-u, nothing is overwritten when
\* the buffer is full, and a saved end of file is still there.
Line == INSTANCE ConsoleSpec WITH
          Enders <- {"nl", "eof"}, Size <- INPUT_BUF_SIZE,
          entered <- ring(cons.buf, INPUT_BUF_SIZE, U, cons.r, cons.w),
          editing <- ring(cons.buf, INPUT_BUF_SIZE, U, cons.w, cons.e)
LineDiscipline == Line!Spec

\* The characters that wait in the transmit ring, and the places of the uart's
\* FIFO that hold a written character and not an echo.
queued == ring(uart.buf, UART_TX_BUF_SIZE, U, uart.r, uart.w)
sending == {i \in DOMAIN port.fifo : port.fifo[i] # Echo}

\* What processes write comes out in the order of the writes, nothing lost or
\* repeated, although echoes go past the ring and the lock to the same uart;
\* the FIFO never has two written characters, as uartstart() waits for it.
OutputInOrder ==
  \/ sending = {} /\ sent = out \o queued
  \/ \E i \in sending : sending = {i} /\ sent = Append(out, port.fifo[i]) \o queued

\* Everyone is served: in the end all calls have returned, except those that
\* wait for somebody to enter a line, and everything written is out.
AllServed ==
  <>[](/\ \A p \in Proc : (pc[p] = "user" /\ prog[p] = <<>>) \/ (pc[p] = "cons_r" /\ cons.r = cons.w)
       /\ out = sent)
=============================================================================
