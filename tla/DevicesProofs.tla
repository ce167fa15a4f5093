--------------------------- MODULE DevicesProofs ---------------------------
(***************************************************************************)
(* Proofs about Devices for every number of processes and blocks, every    *)
(* number of descriptors, every size of the rings and every width of their *)
(* indices, whatever is called, typed and killed.                          *)
(***************************************************************************)
EXTENDS Devices, RingProofs, FiniteSetTheorems, TLAPS

----------------------------------------------------------------------------
\* The transmit ring and the uart.
Written == Proc \cup {None}
Transmit ==
  /\ uart \in [buf : Buffer(UART_TX_BUF_SIZE, Written), r : Index(U), w : Index(U)]
  /\ span(uart.r, uart.w, U) <= UART_TX_BUF_SIZE
  /\ port \in [fifo : Seq(Written \cup {Echo}), rx : Key \cup {None}, irq : BOOLEAN]
  /\ typing \in Seq(Key)
  /\ sent \in Seq(Written) /\ out \in Seq(Written)
  /\ Len(port.fifo) <= 2
  /\ hu = "echo" => Len(port.fifo) <= 1

\* The input ring: what was entered, then the line under edition, in which there
\* is no newline, as a newline enters the line.
Input ==
  /\ cons \in [buf : Buffer(INPUT_BUF_SIZE, Char), r : Index(U), w : Index(U), e : Index(U)]
  /\ span(cons.r, cons.e, U) = span(cons.r, cons.w, U) + span(cons.w, cons.e, U)
  /\ span(cons.r, cons.e, U) <= INPUT_BUF_SIZE
  /\ \A k \in 1..span(cons.w, cons.e, U) : char_at(cons.w + k - 1) # "nl"

----------------------------------------------------------------------------
\* The sizes.
LEMMA SizeFacts ==
  /\ NUM \in Nat \ {0} /\ NUM >= 3 /\ IDX \in Nat \ {0} /\ RingSizes(NUM, IDX)
  /\ UART_TX_BUF_SIZE \in Nat \ {0} /\ INPUT_BUF_SIZE \in Nat \ {0} /\ U \in Nat \ {0}
  /\ UART_TX_BUF_SIZE < U /\ RingSizes(UART_TX_BUF_SIZE, U)
  /\ INPUT_BUF_SIZE < U /\ RingSizes(INPUT_BUF_SIZE, U)
  BY DevicesAssumption DEF RingSizes

USE SizeFacts

\* A record of the uart's registers.
LEMMA PortRecord ==
  ASSUME NEW A, NEW B, NEW C, NEW x \in A, NEW y \in B, NEW z \in C
  PROVE  [fifo |-> x, rx |-> y, irq |-> z] \in [fifo : A, rx : B, irq : C]
  OBVIOUS

\* An entry that goes from the head of the second to the end of the first.
LEMMA ConcatMove ==
  ASSUME NEW S, NEW s \in Seq(S), NEW t \in Seq(S), t # <<>>
  PROVE  s \o t = Append(s, Head(t)) \o Tail(t)
<1>1. Head(t) \in S /\ Tail(t) \in Seq(S) /\ t = <<Head(t)>> \o Tail(t)
  BY HeadTailProperties
<1>2. <<Head(t)>> \in Seq(S)
  BY <1>1
<1>3. Append(s, Head(t)) = s \o <<Head(t)>>
  BY <1>1, AppendIsConcat
<1>4. (s \o <<Head(t)>>) \o Tail(t) = s \o (<<Head(t)>> \o Tail(t))
  BY <1>1, <1>2, ConcatAssociative
<1> QED BY <1>1, <1>3, <1>4, Zenon

\* What waits in the ring, as a sequence.
LEMMA QueuedSeq ==
  ASSUME Transmit
  PROVE  /\ queued \in Seq(Written) /\ uart.buf \in Buffer(UART_TX_BUF_SIZE, Written)
         /\ uart.r \in Index(U) /\ uart.w \in Index(U)
<1>1. uart.buf \in Buffer(UART_TX_BUF_SIZE, Written) /\ uart.r \in Index(U) /\ uart.w \in Index(U)
  BY DEF Transmit
<1>2. ring(uart.buf, UART_TX_BUF_SIZE, U, uart.r, uart.w) \in Seq(Written)
  BY <1>1, RingSeq
<1> QED BY <1>1, <1>2 DEF queued

\* uartputc() puts its character at the end of the ring.
LEMMA PutChar ==
  ASSUME Transmit, ~tx_full, NEW p \in Proc,
         uart' = [uart EXCEPT !.buf[uart.w % UART_TX_BUF_SIZE] = p, !.w = (@ + 1) % U]
  PROVE  /\ queued' = Append(queued, p)
         /\ uart' \in [buf : Buffer(UART_TX_BUF_SIZE, Written), r : Index(U), w : Index(U)]
         /\ span(uart.r, uart.w, U)' <= UART_TX_BUF_SIZE
<1> DEFINE b == stored(uart.buf, UART_TX_BUF_SIZE, uart.w, p)
<1>1. /\ uart.buf \in Buffer(UART_TX_BUF_SIZE, Written) /\ uart.r \in Index(U) /\ uart.w \in Index(U)
      /\ p \in Written
  BY QueuedSeq DEF Written
<1>2. span(uart.r, uart.w, U) \in Nat /\ span(uart.r, uart.w, U) <= UART_TX_BUF_SIZE
  BY <1>1, SpanType DEF Transmit
<1>3. span(uart.r, uart.w, U) # UART_TX_BUF_SIZE
  <2>1. UART_TX_BUF_SIZE \in Index(U)
    BY DEF Index
  <2> QED BY <1>1, <2>1, SpanFull DEF tx_full
<1>4. span(uart.r, uart.w, U) < UART_TX_BUF_SIZE /\ span(uart.r, uart.w, U) < U - 1
  BY <1>2, <1>3
<1>5. /\ ring(b, UART_TX_BUF_SIZE, U, uart.r, (uart.w + 1) % U)
           = Append(ring(uart.buf, UART_TX_BUF_SIZE, U, uart.r, uart.w), p)
      /\ b \in Buffer(UART_TX_BUF_SIZE, Written)
  BY <1>1, <1>4, RingPut
<1>6. span(uart.r, (uart.w + 1) % U, U) = span(uart.r, uart.w, U) + 1 /\ (uart.w + 1) % U \in Index(U)
  BY <1>1, <1>4, SpanStep
<1>7. uart'.buf = b /\ uart'.r = uart.r /\ uart'.w = (uart.w + 1) % U
      /\ uart' = [buf |-> uart'.buf, r |-> uart'.r, w |-> uart'.w]
  BY DEF Transmit, stored
<1> HIDE DEF b
<1>8. queued' = Append(queued, p)
  BY <1>5, <1>7, Zenon DEF queued
<1>9. uart' \in [buf : Buffer(UART_TX_BUF_SIZE, Written), r : Index(U), w : Index(U)]
  BY <1>1, <1>5, <1>6, <1>7
<1>10. span(uart.r, uart.w, U)' <= UART_TX_BUF_SIZE
  BY <1>2, <1>4, <1>6, <1>7
<1> QED BY <1>8, <1>9, <1>10

\* uartstart() takes its character from the head of the ring.
LEMMA SendChar ==
  ASSUME Transmit, can_send, NEW f, send(f)
  PROVE  /\ queued # <<>> /\ queued' = Tail(queued)
         /\ port'.fifo = <<Head(queued)>> /\ Head(queued) \in Written
         /\ uart' \in [buf : Buffer(UART_TX_BUF_SIZE, Written), r : Index(U), w : Index(U)]
         /\ port' \in [fifo : Seq(Written \cup {Echo}), rx : Key \cup {None}, irq : BOOLEAN]
         /\ Len(port'.fifo) = 1
         /\ span(uart.r, uart.w, U)' <= UART_TX_BUF_SIZE
<1>1. uart.buf \in Buffer(UART_TX_BUF_SIZE, Written) /\ uart.r \in Index(U) /\ uart.w \in Index(U)
  BY QueuedSeq
<1>2. /\ queued # <<>> /\ Head(queued) = uart.buf[uart.r % UART_TX_BUF_SIZE]
      /\ uart.buf[uart.r % UART_TX_BUF_SIZE] \in Written
      /\ ring(uart.buf, UART_TX_BUF_SIZE, U, (uart.r + 1) % U, uart.w) = Tail(queued)
  BY <1>1, RingGet DEF queued, can_send
<1>3. span((uart.r + 1) % U, uart.w, U) = span(uart.r, uart.w, U) - 1
  BY <1>1, SpanStep DEF can_send
<1>4. (uart.r + 1) % U \in Index(U)
  BY <1>1, SpanStep
<1>5. span(uart.r, uart.w, U) \in Nat /\ span(uart.r, uart.w, U) <= UART_TX_BUF_SIZE
  BY <1>1, SpanType DEF Transmit
<1>6. /\ uart' = [buf |-> uart'.buf, r |-> uart'.r, w |-> uart'.w]
      /\ uart'.buf = uart.buf /\ uart'.r = (uart.r + 1) % U /\ uart'.w = uart.w
  BY DEF Transmit, send
<1>7. /\ port' = [fifo |-> <<uart.buf[uart.r % UART_TX_BUF_SIZE]>>, rx |-> port.rx, irq |-> port.irq]
      /\ port'.fifo = <<uart.buf[uart.r % UART_TX_BUF_SIZE]>>
  BY DEF Transmit, send, can_send
<1>8. queued' = Tail(queued)
  BY <1>2, <1>6 DEF queued
<1>9. span(uart.r, uart.w, U)' <= UART_TX_BUF_SIZE
  BY <1>3, <1>5, <1>6
<1>10. uart' \in [buf : Buffer(UART_TX_BUF_SIZE, Written), r : Index(U), w : Index(U)]
  BY <1>1, <1>4, <1>6
<1>11. port' \in [fifo : Seq(Written \cup {Echo}), rx : Key \cup {None}, irq : BOOLEAN]
       /\ Len(port'.fifo) = 1
  <2>1. <<uart.buf[uart.r % UART_TX_BUF_SIZE]>> \in Seq(Written \cup {Echo})
    BY <1>2
  <2>2. port.rx \in Key \cup {None} /\ port.irq \in BOOLEAN
    BY DEF Transmit
  <2>3. Len(port'.fifo) = 1
    BY <1>7
  <2>4. port' \in [fifo : Seq(Written \cup {Echo}), rx : Key \cup {None}, irq : BOOLEAN]
    BY <1>7, <2>1, <2>2, PortRecord, Zenon
  <2> QED BY <2>3, <2>4
<1> QED BY <1>2, <1>7, <1>8, <1>9, <1>10, <1>11

----------------------------------------------------------------------------
\* The variables of the transmit side.
transmitVars == <<uart, port, typing, hu, sent, out>>

\* A character sent leaves the order alone: it goes from the ring to the empty
\* FIFO.
LEMMA SendInOrder ==
  ASSUME Transmit, OutputInOrder, can_send, NEW f, send(f),
         UNCHANGED <<typing, sent, out>>, hu' = hu
  PROVE  Transmit' /\ OutputInOrder'
<1>1. /\ queued # <<>> /\ queued' = Tail(queued)
      /\ port'.fifo = <<Head(queued)>> /\ Head(queued) \in Written
      /\ uart' \in [buf : Buffer(UART_TX_BUF_SIZE, Written), r : Index(U), w : Index(U)]
      /\ port' \in [fifo : Seq(Written \cup {Echo}), rx : Key \cup {None}, irq : BOOLEAN]
      /\ Len(port'.fifo) = 1
      /\ span(uart.r, uart.w, U)' <= UART_TX_BUF_SIZE
  BY SendChar
<1>2. Transmit'
  BY <1>1 DEF Transmit
<1>3. sending = {} /\ sent = out \o queued
  <2>1. port.fifo = <<>>
    BY DEF can_send
  <2>2. sending = {}
    BY <2>1 DEF sending
  <2> QED BY <2>2 DEF OutputInOrder
<1>4. sending' = {1} /\ port'.fifo[1] = Head(queued)
  <2>1. Head(queued) # Echo
    BY <1>1, DevicesAssumption DEF Written
  <2>2. DOMAIN port'.fifo = {1} /\ port'.fifo[1] = Head(queued)
    BY <1>1
  <2> QED BY <2>1, <2>2 DEF sending
<1>5. out \o queued = Append(out, Head(queued)) \o Tail(queued)
  <2>1. out \in Seq(Written) /\ queued \in Seq(Written) /\ queued # <<>>
    BY <1>1, QueuedSeq DEF Transmit
  <2> QED BY ONLY <2>1, ConcatMove
<1>6. sent' = Append(out', port'.fifo[1]) \o queued'
  BY <1>1, <1>3, <1>4, <1>5
<1>7. OutputInOrder'
  BY <1>4, <1>6 DEF OutputInOrder
<1> QED BY <1>2, <1>7

\* A character written is the last one of the order.
LEMMA PutInOrder ==
  ASSUME Transmit, OutputInOrder, ~tx_full, NEW p \in Proc,
         uart' = [uart EXCEPT !.buf[uart.w % UART_TX_BUF_SIZE] = p, !.w = (@ + 1) % U],
         sent' = Append(sent, p), UNCHANGED <<port, typing, hu, out>>
  PROVE  Transmit' /\ OutputInOrder'
<1>1. /\ queued' = Append(queued, p) /\ queued \in Seq(Written) /\ p \in Written
      /\ uart' \in [buf : Buffer(UART_TX_BUF_SIZE, Written), r : Index(U), w : Index(U)]
      /\ span(uart.r, uart.w, U)' <= UART_TX_BUF_SIZE
  BY PutChar, QueuedSeq DEF Written
<1>2. sent' \in Seq(Written)
  BY <1>1 DEF Transmit
<1>3. Transmit'
  BY <1>1, <1>2 DEF Transmit
<1>4. sending' = sending /\ port'.fifo = port.fifo
  BY DEF sending
<1>5. \A s \in Seq(Written) : sent = s \o queued => sent' = s \o queued'
  <2> TAKE s \in Seq(Written)
  <2>1. queued \in Seq(Written) /\ p \in Written
    BY <1>1
  <2>2. s \o queued \in Seq(Written) /\ <<p>> \in Seq(Written)
    BY <2>1
  <2>3. /\ Append(s \o queued, p) = (s \o queued) \o <<p>>
        /\ Append(queued, p) = queued \o <<p>>
    BY <2>1, <2>2, AppendIsConcat
  <2>4. (s \o queued) \o <<p>> = s \o (queued \o <<p>>)
    BY ONLY s \in Seq(Written), <2>1, <2>2
  <2> QED BY <1>1, <2>3, <2>4, Zenon
<1>6. CASE sending = {} /\ sent = out \o queued
  BY <1>3, <1>4, <1>5, <1>6 DEF OutputInOrder, Transmit
<1>7. CASE \E i \in sending : sending = {i} /\ sent = Append(out, port.fifo[i]) \o queued
  <2>1. PICK i \in sending : sending = {i} /\ sent = Append(out, port.fifo[i]) \o queued
    BY <1>7
  <2>2. port.fifo[i] \in Written
    BY <2>1 DEF Transmit, sending
  <2>3. Append(out, port.fifo[i]) \in Seq(Written)
    BY <2>2 DEF Transmit
  <2>4. sent' = Append(out', port'.fifo[i]) \o queued'
    BY <1>4, <1>5, <2>1, <2>3
  <2> QED BY <1>3, <1>4, <2>1, <2>4 DEF OutputInOrder
<1> QED BY <1>3, <1>6, <1>7 DEF OutputInOrder

\* An echo joins the FIFO without coming between the written characters.
LEMMA EchoInOrder ==
  ASSUME Transmit, OutputInOrder, uartputc_sync
  PROVE  Transmit' /\ OutputInOrder'
<1>1. /\ hu = "echo" /\ hu' = "getc" /\ port' = [port EXCEPT !.fifo = Append(@, Echo)]
      /\ UNCHANGED <<uart, typing, sent, out>>
  BY DEF uartputc_sync
<1> DEFINE f == port.fifo
<1>2. f \in Seq(Written \cup {Echo}) /\ Len(f) \in Nat /\ Len(f) <= 1
  BY <1>1 DEF Transmit
<1>3. /\ port'.fifo = Append(f, Echo) /\ port' = [fifo |-> Append(f, Echo), rx |-> port.rx, irq |-> port.irq]
      /\ port.rx \in Key \cup {None} /\ port.irq \in BOOLEAN
  BY <1>1 DEF Transmit
<1>4. Append(f, Echo) \in Seq(Written \cup {Echo}) /\ Len(Append(f, Echo)) <= 2
  BY <1>2
<1>5. port' \in [fifo : Seq(Written \cup {Echo}), rx : Key \cup {None}, irq : BOOLEAN]
  BY <1>3, <1>4, PortRecord, Zenon
<1>6. Transmit'
  BY <1>1, <1>3, <1>4, <1>5 DEF Transmit
<1>7. \A i \in DOMAIN f : port'.fifo[i] = f[i]
  BY <1>2, <1>3
<1>8. sending' = sending
  <2>1. DOMAIN port'.fifo = DOMAIN f \cup {Len(f) + 1} /\ port'.fifo[Len(f) + 1] = Echo
    BY <1>2, <1>3
  <2> QED BY <1>7, <2>1 DEF sending
<1>9. queued' = queued
  BY <1>1 DEF queued
<1>10. OutputInOrder'
  BY <1>1, <1>7, <1>8, <1>9 DEF OutputInOrder, sending
<1> QED BY <1>6, <1>10

\* The uart puts the FIFO's characters out in their order.
LEMMA TransmitInOrder ==
  ASSUME Transmit, OutputInOrder, uart_transmit
  PROVE  Transmit' /\ OutputInOrder'
<1> DEFINE f == port.fifo
           g == Tail(f)
           S == Written \cup {Echo}
<1>1. /\ f # <<>> /\ UNCHANGED <<uart, typing, hu, sent>>
      /\ port' = [port EXCEPT !.fifo = Tail(@), !.irq = @ \/ Len(port.fifo) = 1]
      /\ out' = IF Head(f) = Echo THEN out ELSE Append(out, Head(f))
  BY DEF uart_transmit
<1>2. /\ f \in Seq(S) /\ Len(f) \in Nat /\ Len(f) <= 2 /\ (hu = "echo" => Len(f) <= 1)
      /\ out \in Seq(Written)
  BY DEF Transmit
<1>3. /\ g \in Seq(S) /\ Len(g) = Len(f) - 1 /\ Head(f) = f[1] /\ f[1] \in S
      /\ \A i \in 1..Len(g) : g[i] = f[i + 1]
  BY <1>1, <1>2
<1>4. port' = [fifo |-> g, rx |-> port.rx, irq |-> (port.irq \/ Len(f) = 1)]
      /\ port'.fifo = g /\ port.rx \in Key \cup {None}
  BY <1>1 DEF Transmit
<1>5. (port.irq \/ Len(f) = 1) \in BOOLEAN
  OBVIOUS
<1>6. port' \in [fifo : Seq(S), rx : Key \cup {None}, irq : BOOLEAN]
  BY <1>3, <1>4, <1>5, PortRecord, Zenon
<1>7. out' \in Seq(Written)
  BY <1>1, <1>2, <1>3
<1>8. Transmit'
  BY <1>1, <1>2, <1>3, <1>4, <1>6, <1>7 DEF Transmit
<1>9. queued' = queued
  BY <1>1 DEF queued
<1>10. sending = {i \in 1..Len(f) : f[i] # Echo} /\ sending' = {i \in 1..Len(g) : f[i + 1] # Echo}
  <2>1. DOMAIN f = 1..Len(f) /\ DOMAIN g = 1..Len(g)
    BY <1>2, <1>3
  <2> QED BY <1>3, <1>4, <2>1 DEF sending
<1> HIDE DEF f, g, S
<1>11. CASE f[1] = Echo
  <2>1. out' = out
    BY <1>1, <1>3, <1>11
  <2>2. CASE sending = {} /\ sent = out \o queued
    <3>1. sending' = {}
      BY <1>2, <1>3, <1>10, <2>2
    <3> QED BY <1>1, <1>8, <1>9, <2>1, <2>2, <3>1 DEF OutputInOrder
  <2>3. CASE \E i \in sending : sending = {i} /\ sent = Append(out, f[i]) \o queued
    <3>1. PICK i \in sending : sending = {i} /\ sent = Append(out, f[i]) \o queued
      BY <2>3
    <3>2. i \in 1..Len(f) /\ i # 1
      BY <1>10, <1>11, <3>1
    <3>3. i - 1 \in 1..Len(g) /\ g[i - 1] = f[i] /\ f[(i - 1) + 1] # Echo
      BY <1>2, <1>3, <1>10, <3>1, <3>2
    <3>4. sending' = {i - 1}
      <4>1. \A j \in 1..Len(g) : f[j + 1] # Echo => j + 1 \in sending
        BY <1>2, <1>3, <1>10
      <4>2. \A j \in 1..Len(g) : f[j + 1] # Echo => j = i - 1
        BY <1>2, <1>3, <3>1, <3>2, <4>1
      <4> QED BY <1>10, <3>3, <4>2
    <3>5. sent' = Append(out', port'.fifo[i - 1]) \o queued'
      BY <1>1, <1>4, <1>9, <2>1, <3>1, <3>3
    <3> QED BY <1>8, <3>4, <3>5 DEF OutputInOrder
  <2> QED BY <2>2, <2>3 DEF OutputInOrder, f
<1>12. CASE f[1] # Echo
  <2>1. 1 \in sending /\ out' = Append(out, f[1])
    BY <1>1, <1>2, <1>3, <1>10, <1>12
  <2>2. sending = {1} /\ sent = Append(out, f[1]) \o queued
    BY <2>1 DEF OutputInOrder, f
  <2>3. sending' = {}
    <3>1. \A j \in 1..Len(g) : f[j + 1] # Echo => j + 1 \in sending
      BY <1>2, <1>3, <1>10
    <3>2. \A j \in 1..Len(g) : f[j + 1] = Echo
      BY <1>2, <1>3, <2>2, <3>1
    <3> QED BY <1>10, <3>2
  <2> QED BY <1>1, <1>8, <1>9, <2>1, <2>2, <2>3 DEF OutputInOrder
<1> QED BY <1>11, <1>12

\* Every step keeps the transmit side in shape and the output in order.
LEMMA OutputStep == Transmit /\ OutputInOrder /\ [Next]_vars => Transmit' /\ OutputInOrder'
<1> SUFFICES ASSUME Transmit, OutputInOrder, [Next]_vars PROVE Transmit' /\ OutputInOrder'
  OBVIOUS
<1>1. ASSUME UNCHANGED transmitVars PROVE Transmit' /\ OutputInOrder'
  BY <1>1 DEF transmitVars, Transmit, OutputInOrder, queued, sending
<1>2. ASSUME UNCHANGED <<uart, typing, sent, out>>, port'.fifo = port.fifo,
             port' \in [fifo : Seq(Written \cup {Echo}), rx : Key \cup {None}, irq : BOOLEAN],
             hu' = "echo" => Len(port.fifo) <= 1
      PROVE  Transmit' /\ OutputInOrder'
  BY <1>2 DEF Transmit, OutputInOrder, queued, sending
<1>3. ASSUME NEW p \in Proc, uartputc(p) PROVE Transmit' /\ OutputInOrder'
  <2>1. CASE tx_full
    BY <1>1, <1>3, <2>1 DEF uartputc, transmitVars
  <2>2. CASE ~tx_full
    BY <1>3, <2>2, PutInOrder DEF uartputc
  <2> QED BY <2>1, <2>2
<1>4. ASSUME NEW p \in Proc, uartstart(p) PROVE Transmit' /\ OutputInOrder'
  <2>1. CASE can_send /\ send(pc)
    BY <1>4, <2>1, SendInOrder DEF uartstart
  <2>2. CASE UNCHANGED <<uart, port>>
    BY <1>1, <1>4, <2>2 DEF uartstart, transmitVars
  <2> QED BY <1>4, <2>1, <2>2 DEF uartstart
<1>5. ASSUME uart_intr_start PROVE Transmit' /\ OutputInOrder'
  <2>1. CASE can_send /\ send(pc) /\ UNCHANGED hu
    BY <1>5, <2>1, SendInOrder DEF uart_intr_start
  <2>2. CASE hu' = "idle" /\ UNCHANGED <<uart, port>>
    BY <1>2, <1>5, <2>2 DEF uart_intr_start, Transmit
  <2> QED BY <1>5, <2>1, <2>2 DEF uart_intr_start
<1>6. ASSUME uart_receive PROVE Transmit' /\ OutputInOrder'
  <2>1. /\ port' = [port EXCEPT !.rx = Head(typing), !.irq = TRUE] /\ typing' = Tail(typing)
        /\ typing # <<>> /\ UNCHANGED <<uart, hu, sent, out>>
    BY <1>6 DEF uart_receive
  <2>2. /\ port' = [fifo |-> port.fifo, rx |-> Head(typing), irq |-> TRUE]
        /\ port.fifo \in Seq(Written \cup {Echo}) /\ port'.fifo = port.fifo
    BY <2>1 DEF Transmit
  <2>3. Head(typing) \in Key \cup {None} /\ Tail(typing) \in Seq(Key) /\ TRUE \in BOOLEAN
    BY <2>1 DEF Transmit
  <2>4. port' \in [fifo : Seq(Written \cup {Echo}), rx : Key \cup {None}, irq : BOOLEAN]
    BY <2>2, <2>3, PortRecord, Zenon
  <2>5. Transmit'
    BY <2>1, <2>2, <2>3, <2>4 DEF Transmit
  <2>6. OutputInOrder'
    BY <2>1, <2>2 DEF OutputInOrder, queued, sending
  <2> QED BY <2>5, <2>6
<1>7. ASSUME uart_intr PROVE Transmit' /\ OutputInOrder'
  <2>1. port' = [port EXCEPT !.irq = FALSE] /\ hu' = "getc" /\ UNCHANGED <<uart, typing, sent, out>>
    BY <1>7 DEF uart_intr
  <2>2. /\ port' = [fifo |-> port.fifo, rx |-> port.rx, irq |-> FALSE] /\ port'.fifo = port.fifo
        /\ port.fifo \in Seq(Written \cup {Echo}) /\ port.rx \in Key \cup {None} /\ FALSE \in BOOLEAN
    BY <2>1 DEF Transmit
  <2>3. port' \in [fifo : Seq(Written \cup {Echo}), rx : Key \cup {None}, irq : BOOLEAN]
    BY <2>2, PortRecord, Zenon
  <2> QED BY <1>2, <2>1, <2>2, <2>3
<1>8. ASSUME uart_intr_key PROVE Transmit' /\ OutputInOrder'
  <2>1. port' = [port EXCEPT !.rx = None] /\ UNCHANGED <<uart, typing, sent, out>> /\ hu = "getc"
    BY <1>8 DEF uart_intr_key
  <2>2. /\ port' = [fifo |-> port.fifo, rx |-> None, irq |-> port.irq] /\ port'.fifo = port.fifo
        /\ port.fifo \in Seq(Written \cup {Echo}) /\ None \in Key \cup {None} /\ port.irq \in BOOLEAN
    BY <2>1 DEF Transmit
  <2>3. port' \in [fifo : Seq(Written \cup {Echo}), rx : Key \cup {None}, irq : BOOLEAN]
    BY <2>2, PortRecord, Zenon
  <2>4. hu' = "echo" => port.fifo = <<>>
    BY <1>8, <2>1 DEF uart_intr_key, consoleintr
  <2> QED BY <1>2, <2>1, <2>2, <2>3, <2>4
<1>9. ASSUME uart_intr_send PROVE Transmit' /\ OutputInOrder'
  BY <1>2, <1>9 DEF uart_intr_send, Transmit
<1>10. ASSUME NEW p \in Proc,
              \/ syscall(p) \/ usertrap_exit(p) \/ kill(p) \/ alloc_fail(p) \/ virtio_disk_rw(p)
              \/ rw_wait(p) \/ consolewrite(p) \/ read_sleep(p) \/ sys_sleep(p) \/ sleep_sleep(p)
       PROVE  UNCHANGED consVars
  BY <1>10 DEF syscall, usertrap_exit, kill, alloc_fail, virtio_disk_rw, rw_wait, consolewrite,
               read_sleep, sys_sleep, sleep_sleep
<1>11. ASSUME disk_step \/ devintr_disk \/ clockintr PROVE UNCHANGED consVars
  BY <1>11 DEF disk_step, disk_take, disk_serve, devintr_disk, disk_intr, disk_intr_used, disk_intr_end,
               clockintr
<1>12. ASSUME NEW p \in Proc, consoleread(p) PROVE UNCHANGED transmitVars
  BY <1>12 DEF consoleread, transmitVars
<1>13. ASSUME UNCHANGED consVars PROVE UNCHANGED transmitVars
  BY <1>13 DEF consVars, transmitVars
<1>14. ASSUME NEW p \in Proc, ProcStep(p) \/ kill(p) PROVE Transmit' /\ OutputInOrder'
  BY <1>1, <1>3, <1>4, <1>10, <1>12, <1>13, <1>14 DEF ProcStep
<1>15. ASSUME devintr_uart PROVE Transmit' /\ OutputInOrder'
  BY <1>5, <1>7, <1>8, <1>9, <1>15, EchoInOrder DEF devintr_uart
<1>16. CASE UNCHANGED vars
  BY <1>1, <1>13, <1>16 DEF vars
<1> QED BY <1>1, <1>6, <1>11, <1>13, <1>14, <1>15, <1>16, TransmitInOrder DEF Next

----------------------------------------------------------------------------
\* The two parts of the input ring.
entered == ring(cons.buf, INPUT_BUF_SIZE, U, cons.r, cons.w)
editing == ring(cons.buf, INPUT_BUF_SIZE, U, cons.w, cons.e)

\* Their lengths.
LEMMA InputFacts ==
  ASSUME Input
  PROVE  /\ cons.buf \in Buffer(INPUT_BUF_SIZE, Char)
         /\ cons.r \in Index(U) /\ cons.w \in Index(U) /\ cons.e \in Index(U)
         /\ entered \in Seq(Char) /\ Len(entered) = span(cons.r, cons.w, U)
         /\ editing \in Seq(Char) /\ Len(editing) = span(cons.w, cons.e, U)
         /\ Len(entered) \in Nat /\ Len(editing) \in Nat
         /\ span(cons.r, cons.e, U) = Len(entered) + Len(editing)
         /\ Len(entered) + Len(editing) <= INPUT_BUF_SIZE
<1>1. /\ cons.buf \in Buffer(INPUT_BUF_SIZE, Char)
      /\ cons.r \in Index(U) /\ cons.w \in Index(U) /\ cons.e \in Index(U)
  BY DEF Input
<1>2. entered \in Seq(Char)
  BY <1>1, RingSeq DEF entered
<1>3. editing \in Seq(Char)
  BY <1>1, RingSeq DEF editing
<1>4. Len(entered) = span(cons.r, cons.w, U)
  BY <1>1, RingLen DEF entered
<1>5. Len(editing) = span(cons.w, cons.e, U)
  BY <1>1, RingLen DEF editing
<1> QED BY <1>1, <1>2, <1>3, <1>4, <1>5 DEF Input

\* A character that is added to the line.
LEMMA StoreChar ==
  ASSUME Input, NEW ch \in Char, has_room, cons' = store(ch)
  PROVE  Input' /\ Line!Add(ch)
<1> DEFINE b == stored(cons.buf, INPUT_BUF_SIZE, cons.e, ch)
           e == (cons.e + 1) % U
<1>1. /\ cons.buf \in Buffer(INPUT_BUF_SIZE, Char)
      /\ cons.r \in Index(U) /\ cons.w \in Index(U) /\ cons.e \in Index(U)
      /\ entered \in Seq(Char) /\ Len(entered) = span(cons.r, cons.w, U)
      /\ editing \in Seq(Char) /\ Len(editing) = span(cons.w, cons.e, U)
      /\ Len(entered) \in Nat /\ Len(editing) \in Nat
      /\ span(cons.r, cons.e, U) = Len(entered) + Len(editing)
  BY InputFacts
<1>2. Len(entered) + Len(editing) < INPUT_BUF_SIZE
  BY <1>1 DEF has_room, minus, span
<1>3. /\ cons'.buf = b /\ cons'.e = e /\ cons'.r = cons.r
      /\ cons'.w = IF enters(ch) THEN e ELSE cons.w
      /\ cons' = [buf |-> cons'.buf, r |-> cons'.r, w |-> cons'.w, e |-> cons'.e]
  BY DEF store, Input, stored
<1>4. enters(ch) <=> ch \in {"nl", "eof"} \/ Len(entered) + Len(editing) + 1 = INPUT_BUF_SIZE
  BY <1>1 DEF enters, minus, span
<1>5. /\ e \in Index(U) /\ span(cons.w, e, U) = Len(editing) + 1
      /\ span(cons.r, e, U) = Len(entered) + Len(editing) + 1
  BY <1>1, <1>2, SpanStep
<1>6. /\ ring(b, INPUT_BUF_SIZE, U, cons.w, e) = Append(editing, ch)
      /\ b \in Buffer(INPUT_BUF_SIZE, Char)
  <2>1. span(cons.w, cons.e, U) < INPUT_BUF_SIZE /\ span(cons.w, cons.e, U) < U - 1
    BY <1>1, <1>2
  <2> QED BY <1>1, <2>1, RingPut DEF editing
<1>7. ring(b, INPUT_BUF_SIZE, U, cons.r, cons.w) = entered
  <2>1. /\ span(cons.r, cons.w, U) <= span(cons.r, cons.e, U)
        /\ span(cons.r, cons.e, U) < INPUT_BUF_SIZE
    BY <1>1, <1>2
  <2> QED BY <1>1, <2>1, RingSame DEF entered
<1> HIDE DEF b, e
<1>8. cons' \in [buf : Buffer(INPUT_BUF_SIZE, Char), r : Index(U), w : Index(U), e : Index(U)]
  BY <1>1, <1>3, <1>5, <1>6
<1>9. CASE enters(ch)
  <2>1. cons'.w = e /\ span(e, e, U) = 0
    BY <1>3, <1>5, <1>9, SpanType
  <2>2. Input'
    BY <1>1, <1>2, <1>3, <1>5, <1>8, <2>1 DEF Input
  <2>3. editing' = <<>>
    BY <1>3, <2>1 DEF editing, ring
  <2>4. entered' = entered \o Append(editing, ch)
    <3>1. span(cons.r, cons.w, U) + span(cons.w, e, U) < U
      BY <1>1, <1>2, <1>5
    <3>2. ring(b, INPUT_BUF_SIZE, U, cons.r, e)
            = ring(b, INPUT_BUF_SIZE, U, cons.r, cons.w) \o ring(b, INPUT_BUF_SIZE, U, cons.w, e)
      <4>1. /\ RingSizes(INPUT_BUF_SIZE, U) /\ b \in Buffer(INPUT_BUF_SIZE, Char)
            /\ cons.r \in Index(U) /\ cons.w \in Index(U) /\ e \in Index(U)
        BY <1>1, <1>5, <1>6
      <4> QED BY ONLY <4>1, <3>1, RingJoin
    <3> QED BY <1>3, <1>6, <1>7, <2>1, <3>2, Zenon DEF entered
  <2>5. Line!Add(ch)
    BY <1>2, <1>4, <1>9, <2>3, <2>4 DEF Line!Add, entered, editing
  <2> QED BY <2>2, <2>5
<1>10. CASE ~enters(ch)
  <2>1. cons'.w = cons.w /\ ch # "nl"
    BY <1>3, <1>4, <1>10
  <2>2. entered' = entered
    BY <1>3, <1>7, <2>1, Zenon DEF entered
  <2>3. editing' = Append(editing, ch)
    BY <1>3, <1>6, <2>1, Zenon DEF editing
  <2>4. \A k \in 1..span(cons.w, e, U) : (char_at(cons.w + k - 1))' # "nl"
    <3>1. \A k \in 1..(Len(editing) + 1) : editing'[k] = (char_at(cons.w + k - 1))'
      <4>1. editing' = [k \in 1..(Len(editing) + 1) |-> cons'.buf[(cons.w + k - 1) % INPUT_BUF_SIZE]]
        BY <1>3, <1>5, <2>1 DEF editing, ring
      <4> QED BY <2>1, <4>1 DEF char_at
    <3>2. \A k \in 1..Len(editing) : editing[k] # "nl"
      BY <1>1 DEF Input, editing, ring, char_at
    <3>3. \A k \in 1..(Len(editing) + 1) : editing'[k] # "nl"
      BY <1>1, <2>1, <2>3, <3>2
    <3> QED BY <1>5, <3>1, <3>3
  <2>5. Input'
    BY <1>1, <1>2, <1>3, <1>5, <1>8, <2>1, <2>4 DEF Input
  <2>6. Line!Add(ch)
    BY <1>2, <1>4, <1>10, <2>2, <2>3 DEF Line!Add, entered, editing
  <2> QED BY <2>5, <2>6
<1> QED BY <1>9, <1>10

\* Moving the edit index back to an index that is not before w.
LEMMA MoveBack ==
  ASSUME Input, NEW e \in Index(U), cons' = [cons EXCEPT !.e = e],
         span(cons.w, e, U) <= span(cons.w, cons.e, U)
  PROVE  Input' /\ entered' = entered
<1>1. /\ cons.r \in Index(U) /\ cons.w \in Index(U) /\ cons.e \in Index(U)
      /\ Len(entered) = span(cons.r, cons.w, U) /\ Len(editing) = span(cons.w, cons.e, U)
      /\ Len(entered) \in Nat /\ Len(editing) \in Nat
      /\ Len(entered) + Len(editing) <= INPUT_BUF_SIZE
  BY InputFacts
<1>2. /\ cons' = [buf |-> cons.buf, r |-> cons.r, w |-> cons.w, e |-> e]
      /\ cons'.buf = cons.buf /\ cons'.r = cons.r /\ cons'.w = cons.w /\ cons'.e = e
  BY DEF Input
<1>3. cons' \in [buf : Buffer(INPUT_BUF_SIZE, Char), r : Index(U), w : Index(U), e : Index(U)]
  BY <1>2 DEF Input
<1>4. span(cons.w, e, U) \in Nat
  BY <1>1, SpanType
<1>5. span(cons.r, cons.w, U) + span(cons.w, e, U) < U
  BY <1>1, <1>4
<1>6. span(cons.r, e, U) = span(cons.r, cons.w, U) + span(cons.w, e, U)
  BY <1>1, <1>5, SpanJoin
<1>7. \A k \in 1..span(cons.w, e, U) : (char_at(cons.w + k - 1))' # "nl"
  BY <1>1, <1>2, <1>4 DEF Input, char_at
<1>8. Input'
  BY <1>1, <1>2, <1>3, <1>4, <1>6, <1>7 DEF Input
<1> QED BY <1>2, <1>8 DEF entered

\* Backspace.
LEMMA EraseChar ==
  ASSUME Input, cons' = [cons EXCEPT !.e = erase], cons' # cons
  PROVE  Input' /\ Line!Erase
<1>1. /\ cons.buf \in Buffer(INPUT_BUF_SIZE, Char)
      /\ cons.r \in Index(U) /\ cons.w \in Index(U) /\ cons.e \in Index(U)
      /\ Len(editing) = span(cons.w, cons.e, U) /\ Len(editing) \in Nat
  BY InputFacts
<1>2. cons.e # cons.w
  BY DEF erase, Input
<1>3. cons' = [cons EXCEPT !.e = (cons.e - 1) % U]
  BY <1>2 DEF erase, minus
<1>4. (cons.e - 1) % U \in Index(U) /\ span(cons.w, (cons.e - 1) % U, U) = span(cons.w, cons.e, U) - 1
  BY <1>1, <1>2, SpanStep
<1>5. Input' /\ entered' = entered
  BY <1>1, <1>3, <1>4, MoveBack
<1>6. /\ editing # <<>>
      /\ ring(cons.buf, INPUT_BUF_SIZE, U, cons.w, (cons.e - 1) % U) = SubSeq(editing, 1, Len(editing) - 1)
  BY <1>1, <1>2, RingUnput DEF editing
<1>7. cons'.buf = cons.buf /\ cons'.w = cons.w /\ cons'.e = (cons.e - 1) % U
  BY <1>3 DEF Input
<1>8. editing' = Line!Front(editing)
  BY <1>6, <1>7, Zenon DEF editing, Line!Front
<1> QED BY <1>5, <1>6, <1>8 DEF Line!Erase, entered, editing

\* Control-u goes back to where the line began.
LEMMA KillLineIndex ==
  ASSUME Input
  PROVE  kill_line = cons.w
<1> DEFINE d == span(cons.w, cons.e, U)
           K == {k \in 0..minus(cons.e, cons.w) : \A j \in 1..k : char_at(minus(cons.e, j)) # "nl"}
<1>1. cons.w \in Index(U) /\ cons.e \in Index(U) /\ minus(cons.e, cons.w) = d
  BY DEF Input, minus, span
<1>2. d \in 0..(U - 1) /\ (cons.e = cons.w + d \/ cons.e = cons.w + d - U)
      /\ cons.w \in 0..(U - 1) /\ cons.e \in 0..(U - 1)
  BY <1>1, SpanType DEF Index
<1> HIDE DEF d
<1>3. ASSUME NEW j \in 1..d PROVE char_at(minus(cons.e, j)) # "nl"
  <2>1. d - j + 1 \in 1..d /\ cons.w + (d - j + 1) - 1 = cons.w + d - j
    BY <1>2
  <2>2. char_at(cons.w + (d - j + 1) - 1) # "nl"
    BY <2>1 DEF Input, d
  <2>3. ((cons.e - j) % U) % INPUT_BUF_SIZE = (cons.w + d - j) % INPUT_BUF_SIZE
    <3>1. (cons.e - j) % U \in Int /\ cons.w + d - j \in Int
      BY <1>2
    <3>2. ((cons.e - j) % U) % U = (cons.w + d - j) % U
      BY <1>2
    <3> QED BY <3>1, <3>2, SameSlot
  <2> QED BY <2>1, <2>2, <2>3 DEF char_at, minus
<1>4. K = 0..d
  <2>1. \A k \in 0..d : \A j \in 1..k : j \in 1..d
    BY <1>2
  <2> QED BY <1>1, <1>3, <2>1
<1>5. Max(K) = d
  <2>1. d \in K /\ \A y \in K : d >= y
    BY <1>2, <1>4
  <2>2. \A x \in K : (\A y \in K : x >= y) => x = d
    BY <1>2, <1>4, <2>1
  <2> QED BY <2>1, <2>2 DEF Max
<1>6. kill_line = (cons.e - d) % U
  BY <1>5 DEF kill_line, minus
<1>7. cons.w % U = cons.w
  BY ONLY <1>2, SizeFacts
<1>8. CASE cons.e = cons.w + d
  <2>1. cons.e - d = cons.w /\ cons.w % U = cons.w
    BY ONLY <1>7, <1>2, <1>8, SizeFacts
  <2> QED BY <1>6, <2>1
<1>9. CASE cons.e = cons.w + d - U
  <2>1. cons.e - d = cons.w + (U * (-1)) /\ cons.w % U = cons.w /\ cons.w \in Int /\ -1 \in Int
    BY <1>2, <1>9
  <2>2. (cons.w + (U * (-1))) % U = cons.w % U
    BY ONLY <2>1, SizeFacts, ModShift
  <2> QED BY <1>6, <2>1, <2>2
<1> QED BY <1>2, <1>8, <1>9

\* Control-u.
LEMMA KillChars ==
  ASSUME Input, cons' = [cons EXCEPT !.e = kill_line]
  PROVE  Input' /\ Line!KillLine
<1>1. /\ cons.w \in Index(U) /\ cons.e \in Index(U)
      /\ span(cons.w, cons.e, U) \in Nat /\ span(cons.w, cons.w, U) = 0
  <2>1. cons.w \in Index(U) /\ cons.e \in Index(U)
    BY InputFacts
  <2> QED BY <2>1, SpanType
<1>2. cons' = [cons EXCEPT !.e = cons.w]
  BY KillLineIndex
<1>3. Input' /\ entered' = entered
  BY <1>1, <1>2, MoveBack
<1>4. cons'.w = cons.w /\ cons'.e = cons.w
  BY <1>2 DEF Input
<1>5. editing' = <<>>
  BY <1>1, <1>4 DEF editing, ring
<1> QED BY <1>3, <1>5 DEF Line!KillLine, entered, editing

\* A character that is read.
LEMMA GetChar ==
  ASSUME Input, cons.r # cons.w, cons' = [cons EXCEPT !.r = (@ + 1) % U]
  PROVE  Input' /\ Line!Get
<1> DEFINE r == (cons.r + 1) % U
<1>1. /\ cons.buf \in Buffer(INPUT_BUF_SIZE, Char)
      /\ cons.r \in Index(U) /\ cons.w \in Index(U) /\ cons.e \in Index(U)
      /\ Len(entered) = span(cons.r, cons.w, U) /\ Len(editing) = span(cons.w, cons.e, U)
      /\ Len(entered) \in Nat /\ Len(editing) \in Nat
      /\ Len(entered) + Len(editing) <= INPUT_BUF_SIZE
  BY InputFacts
<1>2. r \in Index(U)
  BY <1>1, SpanStep
<1>3. span(r, cons.w, U) = span(cons.r, cons.w, U) - 1
  BY <1>1, SpanStep
<1>4. span(r, cons.w, U) \in Nat
  BY <1>1, <1>2, SpanType
<1>5. /\ cons' = [buf |-> cons.buf, r |-> r, w |-> cons.w, e |-> cons.e]
      /\ cons'.buf = cons.buf /\ cons'.r = r /\ cons'.w = cons.w /\ cons'.e = cons.e
  BY DEF Input
<1>6. /\ entered # <<>>
      /\ ring(cons.buf, INPUT_BUF_SIZE, U, r, cons.w) = Tail(entered)
  <2>1. RingSizes(INPUT_BUF_SIZE, U) /\ cons.r # cons.w
    OBVIOUS
  <2> QED BY ONLY <1>1, <2>1, RingGet DEF entered
<1> HIDE DEF r
<1>7. cons' \in [buf : Buffer(INPUT_BUF_SIZE, Char), r : Index(U), w : Index(U), e : Index(U)]
  BY <1>2, <1>5 DEF Input
<1>8. span(r, cons.w, U) + span(cons.w, cons.e, U) < U
  BY <1>1, <1>3
<1>9. span(r, cons.e, U) = span(r, cons.w, U) + span(cons.w, cons.e, U)
  BY <1>1, <1>2, <1>8, SpanJoin
<1>10. Input'
  BY <1>1, <1>3, <1>5, <1>7, <1>9 DEF Input, char_at
<1>11. entered' = Tail(entered) /\ editing' = editing
  BY <1>5, <1>6, Zenon DEF entered, editing
<1> QED BY <1>6, <1>10, <1>11 DEF Line!Get, entered, editing

\* Every step edits, enters or reads as ConsoleSpec says, or leaves the input
\* alone.
LEMMA InputStep == Input /\ [Next]_vars => Input' /\ [Line!LNext]_(Line!lvars)
<1> SUFFICES ASSUME Input, [Next]_vars PROVE Input' /\ [Line!LNext]_(Line!lvars)
  OBVIOUS
<1>1. ASSUME UNCHANGED cons PROVE Input' /\ UNCHANGED Line!lvars
  BY <1>1 DEF Input, char_at, Line!lvars
<1>2. ASSUME uart_intr_key PROVE Input' /\ [Line!LNext]_(Line!lvars)
  <2>1. PICK ch \in Key \cup {port.rx} : consoleintr(ch)
    BY <1>2 DEF uart_intr_key
  <2>2. CASE ch = "kill"
    <3>1. cons' = [cons EXCEPT !.e = kill_line]
      BY <2>1, <2>2 DEF consoleintr, Char
    <3> QED BY <3>1, KillChars DEF Line!LNext
  <2>3. CASE ch = "bs"
    <3>1. cons' = [cons EXCEPT !.e = erase]
      BY <2>1, <2>3 DEF consoleintr, Char
    <3> QED BY <1>1, <3>1, EraseChar DEF Line!LNext
  <2>4. CASE ch \in Char /\ has_room
    <3>1. cons' = store(ch)
      BY <2>1, <2>4 DEF consoleintr, Char
    <3> QED BY <2>4, <3>1, StoreChar DEF Line!LNext
  <2>5. CASE ch # "kill" /\ ch # "bs" /\ ~(ch \in Char /\ has_room)
    BY <1>1, <2>1, <2>5 DEF consoleintr
  <2> QED BY <2>2, <2>3, <2>4, <2>5
<1>3. ASSUME NEW p \in Proc, consoleread(p) PROVE Input' /\ [Line!LNext]_(Line!lvars)
  <2>1. \/ UNCHANGED cons
        \/ cons.r # cons.w /\ cons' = [cons EXCEPT !.r = (@ + 1) % U]
    BY <1>3 DEF consoleread
  <2> QED BY <1>1, <2>1, GetChar DEF Line!LNext
<1>4. ASSUME NEW p \in Proc,
             \/ syscall(p) \/ usertrap_exit(p) \/ kill(p) \/ alloc_fail(p) \/ virtio_disk_rw(p)
             \/ rw_wait(p) \/ consolewrite(p) \/ read_sleep(p) \/ sys_sleep(p) \/ sleep_sleep(p)
             \/ uartputc(p) \/ uartstart(p)
      PROVE  UNCHANGED cons
  BY <1>4 DEF syscall, usertrap_exit, kill, alloc_fail, virtio_disk_rw, rw_wait, consolewrite,
              read_sleep, sys_sleep, sleep_sleep, uartputc, uartstart, consVars
<1>5. ASSUME \/ disk_step \/ devintr_disk \/ clockintr \/ uart_transmit \/ uart_receive
             \/ uart_intr \/ uartputc_sync \/ uart_intr_send \/ uart_intr_start
      PROVE  UNCHANGED cons
  BY <1>5 DEF disk_step, disk_take, disk_serve, devintr_disk, disk_intr, disk_intr_used, disk_intr_end,
              clockintr, uart_transmit, uart_receive, uart_intr, uartputc_sync, uart_intr_send,
              uart_intr_start, consVars
<1>6. CASE UNCHANGED vars
  BY <1>1, <1>6 DEF vars, consVars
<1> QED BY <1>1, <1>2, <1>3, <1>4, <1>5, <1>6 DEF Next, ProcStep, devintr_uart

----------------------------------------------------------------------------
\* The rings are empty at first.
LEMMA InitRings == Init => Transmit /\ OutputInOrder /\ Input /\ Line!LInit
<1> SUFFICES ASSUME Init PROVE Transmit /\ OutputInOrder /\ Input /\ Line!LInit
  OBVIOUS
<1>1. 0 \in Index(U) /\ span(0, 0, U) = 0
  BY DEF Index, span
<1>2. Transmit
  <2>1. port \in [fifo : Seq(Written \cup {Echo}), rx : Key \cup {None}, irq : BOOLEAN]
    <3>1. port = [fifo |-> <<>>, rx |-> None, irq |-> FALSE]
      BY DEF Init, uartinit
    <3>2. <<>> \in Seq(Written \cup {Echo}) /\ None \in Key \cup {None}
      OBVIOUS
    <3>3. FALSE \in BOOLEAN
      BY Zenon
    <3> QED BY <3>1, <3>2, <3>3, PortRecord, Zenon
  <2>2. uart \in [buf : Buffer(UART_TX_BUF_SIZE, Written), r : Index(U), w : Index(U)]
    BY <1>1 DEF Init, Buffer, Index, Written
  <2>3. typing \in Seq(Key)
    BY DevicesAssumption DEF Init
  <2>4. /\ sent \in Seq(Written) /\ out \in Seq(Written) /\ Len(port.fifo) = 0
        /\ uart.r = 0 /\ uart.w = 0 /\ hu = "idle"
    BY DEF Init, uartinit
  <2> QED BY <1>1, <2>1, <2>2, <2>3, <2>4 DEF Transmit
<1>3. OutputInOrder
  <2>1. sending = {} /\ queued = <<>>
    BY <1>1 DEF Init, uartinit, sending, queued, ring
  <2> QED BY <2>1 DEF Init, OutputInOrder
<1>4. Input
  <2>1. cons \in [buf : Buffer(INPUT_BUF_SIZE, Char), r : Index(U), w : Index(U), e : Index(U)]
    BY <1>1 DEF Init, Buffer, Index, Char
  <2>2. cons.r = 0 /\ cons.w = 0 /\ cons.e = 0
    BY DEF Init
  <2> QED BY <1>1, <2>1, <2>2 DEF Input
<1>5. Line!LInit
  BY <1>1 DEF Init, Line!LInit, ring
<1> QED BY <1>2, <1>3, <1>4, <1>5

\* What processes write comes out in the order of the writes, although the
\* characters of uartstart() and the echoes of uartputc_sync() go to one uart.
THEOREM OutputCorrect == Spec => []OutputInOrder
  BY InitRings, OutputStep, PTL DEF Spec

\* consoleintr() and consoleread() on the ring of console.c implement the line
\* discipline of ConsoleSpec.
THEOREM ConsoleRefinement == Spec => LineDiscipline
  BY InitRings, InputStep, PTL DEF Spec, LineDiscipline, Line!Spec

----------------------------------------------------------------------------
(* The disk driver. *)

AtDisk == {"alloc", "free", "buf", "rw_wait"}
NoCall == [op |-> "none", arg |-> None]

\* The entries of a queue, and that none is there twice.
Entries(s) == {s[k] : k \in 1..Len(s)}
Once(s) == \A k, l \in 1..Len(s) : s[k] = s[l] => k = l

\* The requests that the disk has not yet taken, and those that it has served
\* and the driver has not yet seen.
waiting == ring(disk.avail, NUM, IDX, dev.seen, disk.avail_idx)
served == ring(disk.used, NUM, IDX, disk.used_idx, disk.used_ring_idx)

\* Three descriptors, linked.
Links(nx, i) == {i, nx[i], nx[nx[i]]}
Linked(nx, i) ==
  /\ i \in Desc /\ nx[i] \in Desc /\ nx[nx[i]] \in Desc
  /\ i # nx[i] /\ i # nx[nx[i]] /\ nx[i] # nx[nx[i]]
  /\ nx[nx[nx[i]]] = None

\* Appending and taking from a queue of different entries.
LEMMA AppendOnce ==
  ASSUME NEW S, NEW s \in Seq(S), NEW x \in S, Once(s), x \notin Entries(s)
  PROVE  Once(Append(s, x)) /\ Entries(Append(s, x)) = Entries(s) \cup {x}
<1>1. /\ Len(Append(s, x)) = Len(s) + 1 /\ Len(s) \in Nat
      /\ \A k \in 1..Len(s) : Append(s, x)[k] = s[k]
      /\ Append(s, x)[Len(s) + 1] = x
  OBVIOUS
<1> DEFINE t == Append(s, x)
<1> HIDE DEF t
<1>2. Once(t)
  BY <1>1 DEF Once, Entries, t
<1>3. Entries(t) = Entries(s) \cup {x}
  <2>1. \A k \in 1..Len(t) : t[k] \in Entries(s) \cup {x}
    BY <1>1 DEF Entries, t
  <2>2. \A k \in 1..Len(s) : s[k] \in Entries(t)
    BY <1>1 DEF Entries, t
  <2>3. x \in Entries(t)
    BY <1>1 DEF Entries, t
  <2> QED BY <2>1, <2>2, <2>3 DEF Entries
<1> QED BY <1>2, <1>3 DEF t

\* The queue without its head.
LEMMA TailOnce ==
  ASSUME NEW S, NEW s \in Seq(S), s # <<>>, Once(s)
  PROVE  /\ Once(Tail(s)) /\ Entries(Tail(s)) = Entries(s) \ {Head(s)}
         /\ Head(s) \in Entries(s)
<1>1. /\ Len(Tail(s)) = Len(s) - 1 /\ Len(s) \in Nat /\ Len(s) >= 1
      /\ \A k \in 1..(Len(s) - 1) : Tail(s)[k] = s[k + 1]
      /\ Head(s) = s[1]
  OBVIOUS
<1> DEFINE t == Tail(s)
<1> HIDE DEF t
<1>2. Once(t)
  BY <1>1 DEF Once, t
<1>3. Entries(t) = Entries(s) \ {Head(s)}
  <2>1. \A k \in 1..Len(t) : t[k] \in Entries(s) /\ t[k] # s[1]
    <3>1. SUFFICES ASSUME NEW k \in 1..Len(t) PROVE t[k] \in Entries(s) /\ t[k] # s[1]
      OBVIOUS
    <3>2. t[k] = s[k + 1] /\ k + 1 \in 1..Len(s) /\ k + 1 # 1 /\ 1 \in 1..Len(s)
      BY <1>1 DEF t
    <3> QED BY <3>2 DEF Once, Entries
  <2>2. \A k \in 1..Len(s) : s[k] # s[1] => s[k] \in Entries(t)
    <3>1. SUFFICES ASSUME NEW k \in 1..Len(s), s[k] # s[1] PROVE s[k] \in Entries(t)
      OBVIOUS
    <3>2. k - 1 \in 1..Len(t) /\ t[k - 1] = s[k]
      BY <1>1, <3>1 DEF t
    <3> QED BY <3>2 DEF Entries
  <2> QED BY <1>1, <2>1, <2>2 DEF Entries
<1>4. Head(s) \in Entries(s)
  BY <1>1 DEF Entries
<1> QED BY <1>2, <1>3, <1>4 DEF t

\* A queue of different entries is no longer than there are entries.
LEMMA OnceLen ==
  ASSUME NEW S, NEW s \in Seq(S), Once(s), NEW T, IsFiniteSet(T), Entries(s) \subseteq T
  PROVE  Len(s) <= Cardinality(T)
<1>1. s \in [1..Len(s) -> T] /\ Len(s) \in Nat
  BY DEF Entries
<1>2. s \in Injection(1..Len(s), T)
  BY <1>1 DEF Injection, IsInjective, Once
<1>3. Cardinality(1..Len(s)) <= Cardinality(T)
  BY <1>2, FS_Injection
<1>4. Cardinality(1..Len(s)) = Len(s)
  <2> DEFINE n == Len(s)
  <2>1. n \in Int /\ 1 \in Int /\ n >= 0
    BY <1>1
  <2> HIDE DEF n
  <2>2. Cardinality(1..n) = IF 1 > n THEN 0 ELSE n - 1 + 1
    BY ONLY <2>1, FS_Interval
  <2>3. Cardinality(1..n) = n
    BY ONLY <2>1, <2>2
  <2> QED BY <2>3 DEF n
<1> QED BY <1>3, <1>4

\* The number of descriptors.
LEMMA DescCount ==
  /\ IsFiniteSet(Desc) /\ Cardinality(Desc) = NUM
  /\ \A F : F \subseteq Desc => IsFiniteSet(F) /\ Cardinality(F) \in Nat
<1>1. IsFiniteSet(Desc) /\ Cardinality(Desc) = NUM
  <2>1. 0 \in Int /\ NUM - 1 \in Int /\ ~(0 > NUM - 1) /\ (NUM - 1) - 0 + 1 = NUM
    OBVIOUS
  <2> QED BY <2>1, FS_Interval DEF Desc
<1>2. \A F : F \subseteq Desc => IsFiniteSet(F) /\ Cardinality(F) \in Nat
  BY <1>1, FS_Subset, FS_CardinalityType
<1> QED BY <1>1, <1>2

\* Three elements less.
LEMMA ThreeLess ==
  ASSUME NEW T, IsFiniteSet(T), NEW x \in T, NEW y \in T, NEW z \in T, x # y, x # z, y # z
  PROVE  IsFiniteSet(T \ {x, y, z}) /\ Cardinality(T \ {x, y, z}) = Cardinality(T) - 3
<1>1. IsFiniteSet(T \ {x}) /\ Cardinality(T \ {x}) = Cardinality(T) - 1 /\ Cardinality(T) \in Nat
  BY FS_RemoveElement, FS_CardinalityType
<1>2. IsFiniteSet((T \ {x}) \ {y}) /\ Cardinality((T \ {x}) \ {y}) = Cardinality(T \ {x}) - 1
  <2>1. y \in T \ {x}
    OBVIOUS
  <2> QED BY <1>1, <2>1, FS_RemoveElement
<1>3. IsFiniteSet(((T \ {x}) \ {y}) \ {z}) /\ Cardinality(((T \ {x}) \ {y}) \ {z}) = Cardinality((T \ {x}) \ {y}) - 1
  <2>1. z \in (T \ {x}) \ {y}
    OBVIOUS
  <2> QED BY <1>2, <2>1, FS_RemoveElement
<1>4. ((T \ {x}) \ {y}) \ {z} = T \ {x, y, z}
  OBVIOUS
<1> QED BY <1>1, <1>2, <1>3, <1>4

\* Three different elements.
LEMMA CardinalityThree ==
  ASSUME NEW x, NEW y, NEW z, x # y, x # z, y # z
  PROVE  Cardinality({x, y, z}) = 3
<1>1. IsFiniteSet({x}) /\ Cardinality({x}) = 1
  BY FS_Singleton
<1>2. IsFiniteSet({x} \cup {y}) /\ Cardinality({x} \cup {y}) = 1 + 1
  <2>1. y \notin {x}
    OBVIOUS
  <2> QED BY <1>1, <2>1, FS_AddElement
<1>3. Cardinality(({x} \cup {y}) \cup {z}) = 1 + 1 + 1
  <2>1. z \notin {x} \cup {y}
    OBVIOUS
  <2> QED BY <1>2, <2>1, FS_AddElement
<1>4. ({x} \cup {y}) \cup {z} = {x, y, z}
  OBVIOUS
<1> QED BY <1>3, <1>4

\* alloc3_desc() finds three free descriptors when there are.
LEMMA Alloc3 ==
  ASSUME disk.free \subseteq Desc, Cardinality(disk.free) >= 3
  PROVE  /\ alloc3_desc[1] \in disk.free /\ alloc3_desc[2] \in disk.free /\ alloc3_desc[3] \in disk.free
         /\ alloc3_desc[1] # alloc3_desc[2] /\ alloc3_desc[1] # alloc3_desc[3] /\ alloc3_desc[2] # alloc3_desc[3]
<1> DEFINE F == disk.free
<1>1. IsFiniteSet(F) /\ Cardinality(F) \in Nat /\ F \subseteq Nat
  BY DescCount DEF Desc
<1>2. F # {}
  BY <1>1, FS_EmptySet
<1>3. PICK x \in F : \A i \in F : x <= i
  BY <1>1, <1>2, LeastNat
<1>4. IsFiniteSet(F \ {x}) /\ Cardinality(F \ {x}) = Cardinality(F) - 1
  BY <1>1, FS_RemoveElement
<1>5. F \ {x} # {}
  BY <1>1, <1>4, FS_EmptySet
<1>6. PICK y \in F \ {x} : \A i \in F \ {x} : y <= i
  BY <1>1, <1>5, LeastNat
<1>7. IsFiniteSet((F \ {x}) \ {y}) /\ Cardinality((F \ {x}) \ {y}) = Cardinality(F \ {x}) - 1
  BY <1>4, FS_RemoveElement
<1>8. (F \ {x}) \ {y} # {}
  BY <1>1, <1>4, <1>7, FS_EmptySet
<1>9. PICK z \in (F \ {x}) \ {y} : \A i \in (F \ {x}) \ {y} : z <= i
  BY <1>1, <1>8, LeastNat
<1> DEFINE s == [k \in 1..3 |-> IF k = 1 THEN x ELSE IF k = 2 THEN y ELSE z]
           fits(t) == t[1] < t[2] /\ t[2] < t[3] /\ \A i \in disk.free : i < t[3] => i \in {t[1], t[2]}
<1>10. s \in [1..3 -> disk.free]
  BY <1>3, <1>6, <1>9
<1>11. s[1] = x /\ s[2] = y /\ s[3] = z
  OBVIOUS
<1>12. fits(s)
  <2>1. x < y /\ y < z
    BY <1>1, <1>3, <1>6, <1>9
  <2>2. ASSUME NEW i \in F, i < z PROVE i \in {x, y}
    BY <1>1, <1>9, <2>2
  <2> QED BY <1>11, <2>1, <2>2
<1>13. alloc3_desc = CHOOSE t \in [1..3 -> disk.free] : fits(t)
  BY DEF alloc3_desc
<1> HIDE DEF s, fits
<1>14. alloc3_desc \in [1..3 -> disk.free] /\ fits(alloc3_desc)
  BY <1>10, <1>12, <1>13
<1>15. 1 \in 1..3 /\ 2 \in 1..3 /\ 3 \in 1..3
  OBVIOUS
<1>16. alloc3_desc[1] \in F /\ alloc3_desc[2] \in F /\ alloc3_desc[3] \in F
  BY <1>14, <1>15
<1> HIDE DEF F
<1>17. alloc3_desc[1] < alloc3_desc[2] /\ alloc3_desc[2] < alloc3_desc[3]
  BY <1>14 DEF fits
<1>18. alloc3_desc[1] \in Nat /\ alloc3_desc[2] \in Nat /\ alloc3_desc[3] \in Nat
  BY <1>1, <1>16
<1> QED BY <1>16, <1>17, <1>18 DEF F

\* The chain free_chain() follows.
LEMMA ChainIs ==
  ASSUME NEW i, Linked(disk.next, i)
  PROVE  chain(i) = Links(disk.next, i) /\ Cardinality(chain(i)) = 3
<1> DEFINE nx == disk.next
<1>1. /\ i \in Desc /\ nx[i] \in Desc /\ nx[nx[i]] \in Desc /\ None \notin Desc
      /\ i # nx[i] /\ i # nx[nx[i]] /\ nx[i] # nx[nx[i]]
  BY DevicesAssumption DEF Linked
<1>2. chain(i) = {i, nx[i], nx[nx[i]]}
  <2>1. {nx[j] : j \in {i}} \ {None} = {nx[i]}
    BY <1>1
  <2>2. {nx[j] : j \in {nx[i]}} \ {None} = {nx[nx[i]]}
    BY <1>1
  <2> QED BY <2>1, <2>2 DEF chain
<1>3. Cardinality({i, nx[i], nx[nx[i]]}) = 3
  BY <1>1, CardinalityThree
<1> QED BY <1>2, <1>3 DEF Links

----------------------------------------------------------------------------
Place == Channel \cup {"user", "alloc", "rw_wait", "read", "read_next", "read_sleep", "write", "putc",
                       "uartstart", "sleep", "sleep_wait", "sleep_sleep"}

\* The types of what processes have; uartputc() is called with a character.
ProcTypes ==
  /\ pc \in [Proc -> Place]
  /\ prog \in [Proc -> Seq(BlockCall \cup CountCall)]
  /\ call \in [Proc -> BlockCall \cup CountCall \cup {NoCall}]
  /\ left \in [Proc -> Nat]
  /\ killed \subseteq Proc /\ victims \subseteq Proc
  /\ \A p \in Proc : pc[p] \in {"putc", "uart_tx_r"} => left[p] > 0

\* The types of what the driver and the disk have.
DiskState ==
  [free : SUBSET Desc, next : [Desc -> Desc \cup {None}], addr : [Desc -> Proc \cup {None}],
   ops : [Desc -> BlockCall \cup {NoCall}], status : [Desc -> {0, 255}], b : [Desc -> Proc \cup {None}],
   avail : Buffer(NUM, Desc), avail_idx : Index(IDX),
   used : Buffer(NUM, Desc), used_ring_idx : Index(IDX), used_idx : Index(IDX)]
DevState ==
  [store : [Block -> Proc \cup {None}], seen : Index(IDX), inflight : SUBSET Desc, irq : BOOLEAN]
DiskTypes ==
  /\ disk \in DiskState /\ dev \in DevState
  /\ data \in [Proc -> Proc \cup {None}]

\* Processes at the disk have different blocks, as bcache gives a block to one.
Args ==
  \A p \in Proc : pc[p] \in AtDisk =>
    /\ call[p] \in BlockCall
    /\ \A q \in Proc \ {p} : pc[q] \in AtDisk => call[q].arg # call[p].arg

\* A requester has a chain of three descriptors, set up for its call.
Chains ==
  /\ \A p \in requesters :
       /\ Linked(disk.next, left[p]) /\ Links(disk.next, left[p]) \cap disk.free = {}
       /\ disk.b[left[p]] = p /\ disk.addr[disk.next[left[p]]] = p /\ disk.ops[left[p]] = call[p]
  /\ \A p, q \in requesters : p # q => Links(disk.next, left[p]) \cap Links(disk.next, left[q]) = {}

Counts == Cardinality(disk.free) = NUM - 3 * Cardinality(requesters)

\* A request is with the disk once: it waits in the available ring, is being
\* served, or is in the used ring; and its process has not been told.
Transfers ==
  /\ busy \subseteq requesters
  /\ Once(waiting) /\ Once(served)
  /\ Entries(waiting) \cap Entries(served) = {}
  /\ Entries(waiting) \cap dev.inflight = {} /\ Entries(served) \cap dev.inflight = {}
  /\ \A id \in Entries(waiting) \cup dev.inflight \cup Entries(served) :
       disk.b[id] \in busy /\ left[disk.b[id]] = id

\* A request that was served has moved its block.
Moved ==
  /\ \A id \in Entries(served) :
       disk.status[id] = 0 /\ data[disk.b[id]] = dev.store[call[disk.b[id]].arg]
  /\ \A p \in requesters \ busy : data[p] = dev.store[call[p].arg]

DInv == ProcTypes /\ DiskTypes /\ Args /\ Chains /\ Counts /\ Transfers /\ Moved

\* Where a process goes on when it is woken.
LEMMA ResumeIs ==
  /\ resume["free"] = "alloc" /\ resume["buf"] = "rw_wait" /\ resume["cons_r"] = "read"
  /\ resume["uart_tx_r"] = "putc" /\ resume["ticks"] = "sleep_wait"
  BY DEF resume

\* Being woken moves nobody to the disk or away from it.
LEMMA ResumePlace ==
  ASSUME NEW l \in Place
  PROVE  LET m == IF l \in Channel THEN resume[l] ELSE l IN
           /\ m \in Place
           /\ m \in {"buf", "rw_wait"} <=> l \in {"buf", "rw_wait"}
           /\ m \in AtDisk => l \in AtDisk
           /\ m \in {"putc", "uart_tx_r"} => l \in {"putc", "uart_tx_r"}
<1>1. CASE l \notin Channel
  BY <1>1
<1>2. CASE l \in Channel
  BY <1>2, ResumeIs DEF Channel, AtDisk, Place
<1> QED BY <1>1, <1>2

\* The same for everyone whom wakeup() wakes.
LEMMA WakeupIs ==
  ASSUME NEW f \in [Proc -> Place], NEW chan \in Channel
  PROVE  /\ wakeup(f, chan) \in [Proc -> Place]
         /\ \A q \in Proc :
              /\ wakeup(f, chan)[q] \in {"buf", "rw_wait"} <=> f[q] \in {"buf", "rw_wait"}
              /\ wakeup(f, chan)[q] \in AtDisk => f[q] \in AtDisk
              /\ wakeup(f, chan)[q] \in {"putc", "uart_tx_r"} => f[q] \in {"putc", "uart_tx_r"}
<1>1. \A q \in Proc : wakeup(f, chan)[q] = IF f[q] = chan THEN resume[f[q]] ELSE f[q]
  BY DEF wakeup
<1>2. \A q \in Proc : f[q] \in Place
  OBVIOUS
<1>3. ASSUME NEW q \in Proc
      PROVE  /\ wakeup(f, chan)[q] \in Place
             /\ wakeup(f, chan)[q] \in {"buf", "rw_wait"} <=> f[q] \in {"buf", "rw_wait"}
             /\ wakeup(f, chan)[q] \in AtDisk => f[q] \in AtDisk
             /\ wakeup(f, chan)[q] \in {"putc", "uart_tx_r"} => f[q] \in {"putc", "uart_tx_r"}
  <2>1. CASE f[q] = chan
    <3>1. wakeup(f, chan)[q] = IF f[q] \in Channel THEN resume[f[q]] ELSE f[q]
      BY <1>1, <2>1
    <3> QED BY <1>2, <3>1, ResumePlace
  <2>2. CASE f[q] # chan
    BY <1>1, <1>2, <2>2
  <2> QED BY <2>1, <2>2
<1>4. wakeup(f, chan) \in [Proc -> Place]
  BY <1>3 DEF wakeup
<1> QED BY <1>3, <1>4

\* A step that leaves the chains alone.
LEMMA SameChains ==
  ASSUME Chains, Counts, requesters' = requesters,
         \A q \in requesters : left'[q] = left[q] /\ call'[q] = call[q],
         disk'.free = disk.free, disk'.next = disk.next, disk'.addr = disk.addr, disk'.ops = disk.ops,
         disk'.b = disk.b
  PROVE  Chains' /\ Counts'
<1>1. ASSUME NEW p \in requesters
      PROVE  /\ Linked(disk'.next, left'[p]) /\ Links(disk'.next, left'[p]) \cap disk'.free = {}
             /\ disk'.b[left'[p]] = p /\ disk'.addr[disk'.next[left'[p]]] = p /\ disk'.ops[left'[p]] = call'[p]
  BY DEF Chains
<1>2. ASSUME NEW p \in requesters, NEW q \in requesters, p # q
      PROVE  Links(disk'.next, left'[p]) \cap Links(disk'.next, left'[q]) = {}
  BY <1>2 DEF Chains
<1> QED BY <1>1, <1>2 DEF Chains, Counts

\* A step that leaves the requests alone.
LEMMA SameRequests ==
  ASSUME Chains, Counts, Transfers, Moved, disk' = disk, busy' = busy,
         dev'.seen = dev.seen, dev'.inflight = dev.inflight, dev'.store = dev.store,
         \A q \in Proc : pc'[q] \in {"buf", "rw_wait"} <=> pc[q] \in {"buf", "rw_wait"},
         \A q \in Proc : pc[q] \in {"buf", "rw_wait"} =>
                          left'[q] = left[q] /\ call'[q] = call[q] /\ data'[q] = data[q]
  PROVE  Chains' /\ Counts' /\ Transfers' /\ Moved'
<1>1. requesters' = requesters
  BY DEF requesters
<1>2. \A q \in requesters : left'[q] = left[q] /\ call'[q] = call[q] /\ data'[q] = data[q]
  BY DEF requesters
<1>3. waiting' = waiting /\ served' = served
  BY DEF waiting, served
<1>4. Chains' /\ Counts'
  BY <1>1, <1>2, SameChains
<1>5. Transfers'
  BY <1>1, <1>2, <1>3 DEF Transfers
<1>6. Moved'
  BY <1>1, <1>2, <1>3 DEF Moved, Transfers
<1> QED BY <1>4, <1>5, <1>6

\* A step that brings nobody to the disk.
LEMMA SameArgs ==
  ASSUME Args, \A q \in Proc : pc'[q] \in AtDisk => pc[q] \in AtDisk /\ call'[q] = call[q]
  PROVE  Args'
  BY DEF Args

\* A step of a process that is not at the disk, or that stays there.
Quiet ==
  /\ \A q \in Proc :
       /\ pc'[q] \in {"buf", "rw_wait"} <=> pc[q] \in {"buf", "rw_wait"}
       /\ pc'[q] \in AtDisk => pc[q] \in AtDisk
       /\ pc[q] \in AtDisk => left'[q] = left[q]
  /\ call' = call /\ UNCHANGED <<disk, data, busy>>
  /\ dev'.seen = dev.seen /\ dev'.inflight = dev.inflight /\ dev'.store = dev.store

\* Such a step keeps what is said of the requests.
LEMMA QuietStep ==
  ASSUME Args, Chains, Counts, Transfers, Moved, Quiet
  PROVE  Args' /\ Chains' /\ Counts' /\ Transfers' /\ Moved'
<1>1. \A q \in Proc : pc[q] \in {"buf", "rw_wait"} =>
        left'[q] = left[q] /\ call'[q] = call[q] /\ data'[q] = data[q]
  BY DEF Quiet, AtDisk
<1>2. Chains' /\ Counts' /\ Transfers' /\ Moved'
  BY <1>1, SameRequests DEF Quiet
<1>3. Args'
  BY SameArgs DEF Quiet
<1> QED BY <1>2, <1>3

\* The steps of processes at the console, the uart and the clock.
LEMMA ProcQuiet ==
  ASSUME ProcTypes, NEW p \in Proc,
         \/ usertrap_exit(p) \/ kill(p) \/ alloc_fail(p) \/ consolewrite(p) \/ uartputc(p) \/ uartstart(p)
         \/ consoleread(p) \/ read_sleep(p) \/ sys_sleep(p) \/ sleep_sleep(p)
  PROVE  ProcTypes' /\ Quiet
<1>0. /\ pc \in [Proc -> Place] /\ "free" \in Channel /\ "uart_tx_r" \in Channel
      /\ left \in [Proc -> Nat]
  BY DEF ProcTypes, Channel
<1>1. CASE usertrap_exit(p)
  BY <1>1 DEF usertrap_exit, ProcTypes, Quiet, diskVars
<1>2. CASE kill(p)
  <2>1. pc[p] \in Place
    BY <1>0
  <2>2. PICK l : l = IF pc[p] \in Channel THEN resume[pc[p]] ELSE pc[p]
    OBVIOUS
  <2>3. /\ l \in Place
        /\ l \in {"buf", "rw_wait"} <=> pc[p] \in {"buf", "rw_wait"}
        /\ l \in AtDisk => pc[p] \in AtDisk
        /\ l \in {"putc", "uart_tx_r"} => pc[p] \in {"putc", "uart_tx_r"}
    BY <2>1, <2>2, ResumePlace
  <2>4. pc' = [pc EXCEPT ![p] = l]
    BY <1>2, <2>2 DEF kill, goto
  <2>5. UNCHANGED <<prog, call, left, disk, data, busy, dev>> /\ killed' \subseteq Proc /\ victims' \subseteq Proc
    BY <1>2 DEF kill, diskVars, ProcTypes
  <2>6. ProcTypes'
    BY <1>0, <2>3, <2>4, <2>5 DEF ProcTypes
  <2>7. Quiet
    BY <1>0, <2>3, <2>4, <2>5 DEF Quiet
  <2> QED BY <2>6, <2>7
<1>3. CASE alloc_fail(p)
  <2>1. PICK f \in [Proc -> Place] :
          /\ pc' = [f EXCEPT ![p] = "free"]
          /\ \A q \in Proc :
               /\ f[q] \in {"buf", "rw_wait"} <=> pc[q] \in {"buf", "rw_wait"}
               /\ f[q] \in AtDisk => pc[q] \in AtDisk
               /\ f[q] \in {"putc", "uart_tx_r"} => pc[q] \in {"putc", "uart_tx_r"}
    <3>1. CASE disk.free = {}
      BY <1>0, <1>3, <3>1 DEF alloc_fail
    <3>2. CASE disk.free # {}
      BY <1>0, <1>3, <3>2, WakeupIs DEF alloc_fail
    <3> QED BY <3>1, <3>2
  <2>2. UNCHANGED <<prog, call, left, killed, victims, disk, data, busy, dev>> /\ pc[p] = "alloc"
    BY <1>3 DEF alloc_fail, diskVars, at
  <2>3. ProcTypes'
    BY <1>0, <2>1, <2>2 DEF ProcTypes, Place, Channel
  <2>4. Quiet
    BY <1>0, <2>1, <2>2 DEF Quiet, AtDisk
  <2> QED BY <2>3, <2>4
<1>4. CASE consolewrite(p)
  BY <1>4 DEF consolewrite, at, goto, ProcTypes, Quiet, diskVars, Place, Channel, AtDisk
<1>5. CASE uartputc(p)
  <2>1. /\ pc[p] = "putc" /\ left[p] > 0
        /\ UNCHANGED <<prog, call, killed, victims, disk, data, busy, dev>>
        /\ \/ pc' = [pc EXCEPT ![p] = "uart_tx_r"] /\ left' = left
           \/ pc' = [pc EXCEPT ![p] = "uartstart"] /\ left' = [left EXCEPT ![p] = @ - 1]
    BY <1>5 DEF uartputc, at, goto, diskVars, ProcTypes
  <2>2. ProcTypes'
    <3>1. pc' \in [Proc -> Place]
      BY <1>0, <2>1 DEF Place, Channel
    <3>2. left' \in [Proc -> Nat]
      BY <1>0, <2>1
    <3>3. \A q \in Proc : pc'[q] \in {"putc", "uart_tx_r"} => left'[q] > 0
      BY <1>0, <2>1 DEF ProcTypes
    <3> QED BY <2>1, <3>1, <3>2, <3>3 DEF ProcTypes
  <2>3. Quiet
    BY <1>0, <2>1 DEF Quiet, AtDisk
  <2> QED BY <2>2, <2>3
<1>6. CASE uartstart(p)
  <2>1. UNCHANGED <<prog, call, left, killed, victims, disk, data, busy, dev>> /\ pc[p] = "uartstart"
    BY <1>6 DEF uartstart, diskVars, at
  <2>2. pc' = wakeup(pc, "uart_tx_r") \/ pc' = [pc EXCEPT ![p] = "write"]
    BY <1>6 DEF uartstart, send, goto
  <2>3. CASE pc' = wakeup(pc, "uart_tx_r")
    BY <1>0, <2>1, <2>3, WakeupIs DEF ProcTypes, Quiet
  <2>4. CASE pc' = [pc EXCEPT ![p] = "write"]
    BY <1>0, <2>1, <2>4 DEF ProcTypes, Quiet, AtDisk, Place
  <2> QED BY <2>2, <2>3, <2>4
<1>7. CASE consoleread(p)
  <2>1. /\ pc[p] \in {"read", "read_next"}
        /\ UNCHANGED <<prog, call, killed, victims, disk, data, busy, dev>>
        /\ left' = left \/ (left[p] > 0 /\ left' = [left EXCEPT ![p] = @ - 1])
        /\ \E l \in {"user", "read_sleep", "read_next"} : pc' = [pc EXCEPT ![p] = l]
    BY <1>7 DEF consoleread, at, goto, diskVars
  <2>2. ProcTypes'
    <3>1. pc' \in [Proc -> Place]
      BY <1>0, <2>1 DEF Place, Channel
    <3>2. left' \in [Proc -> Nat]
      BY <1>0, <2>1
    <3>3. \A q \in Proc : pc'[q] \in {"putc", "uart_tx_r"} => left'[q] > 0
      BY <1>0, <2>1 DEF ProcTypes
    <3> QED BY <2>1, <3>1, <3>2, <3>3 DEF ProcTypes
  <2>3. Quiet
    BY <1>0, <2>1 DEF Quiet, AtDisk
  <2> QED BY <2>2, <2>3
<1>8. CASE read_sleep(p) \/ sys_sleep(p) \/ sleep_sleep(p)
  <2>1. /\ pc[p] \in {"read_sleep", "sleep", "sleep_wait", "sleep_sleep"}
        /\ UNCHANGED <<prog, call, left, killed, victims, disk, data, busy, dev>>
        /\ \E l \in {"user", "cons_r", "sleep_sleep", "ticks"} : pc' = [pc EXCEPT ![p] = l]
    BY <1>8 DEF read_sleep, sys_sleep, sleep_sleep, at, goto, diskVars
  <2>2. ProcTypes'
    BY <1>0, <2>1 DEF ProcTypes, Place, Channel
  <2>3. Quiet
    BY <1>0, <2>1 DEF Quiet, AtDisk
  <2> QED BY <2>2, <2>3
<1> QED BY <1>1, <1>2, <1>3, <1>4, <1>5, <1>6, <1>7, <1>8

\* The steps of the clock, of the uart and of its handler.
LEMMA DeviceQuiet ==
  ASSUME ProcTypes,
         clockintr \/ devintr_uart \/ uart_transmit \/ uart_receive \/ UNCHANGED vars
  PROVE  ProcTypes' /\ Quiet /\ UNCHANGED diskVars
<1>0. /\ pc \in [Proc -> Place] /\ "ticks" \in Channel /\ "cons_r" \in Channel /\ "uart_tx_r" \in Channel
      /\ left \in [Proc -> Nat]
  BY DEF ProcTypes, Channel
<1>1. CASE clockintr
  <2>1. /\ pc' = wakeup(pc, "ticks") /\ UNCHANGED <<prog, call, killed, victims, diskVars>>
        /\ left' \in [Proc -> Nat]
        /\ \A q \in Proc : pc[q] \notin {"ticks", "sleep_wait"} => left'[q] = left[q]
    BY <1>0, <1>1 DEF clockintr
  <2>2. ProcTypes'
    BY <1>0, <2>1, WakeupIs DEF ProcTypes
  <2>3. Quiet
    BY <1>0, <2>1, WakeupIs DEF Quiet, AtDisk, diskVars
  <2> QED BY <2>1, <2>2, <2>3
<1>2. CASE UNCHANGED <<prog, call, left, killed, victims, diskVars>>
           /\ (pc' = pc \/ pc' = wakeup(pc, "cons_r") \/ pc' = wakeup(pc, "uart_tx_r"))
  <2>1. ProcTypes'
    BY <1>0, <1>2, WakeupIs DEF ProcTypes
  <2>2. Quiet
    BY <1>0, <1>2, WakeupIs DEF Quiet, diskVars
  <2> QED BY <1>2, <2>1, <2>2
<1>3. ASSUME devintr_uart \/ uart_transmit \/ uart_receive \/ UNCHANGED vars
      PROVE  /\ UNCHANGED <<prog, call, left, killed, victims, diskVars>>
             /\ pc' = pc \/ pc' = wakeup(pc, "cons_r") \/ pc' = wakeup(pc, "uart_tx_r")
  <2>1. CASE uart_intr \/ uartputc_sync \/ uart_intr_send \/ uart_transmit \/ uart_receive \/ UNCHANGED vars
    BY <2>1 DEF uart_intr, uartputc_sync, uart_intr_send, uart_transmit, uart_receive, vars, procVars
  <2>2. CASE uart_intr_key
    BY <2>2 DEF uart_intr_key, consoleintr
  <2>3. CASE uart_intr_start
    BY <2>3 DEF uart_intr_start, send
  <2> QED BY <1>3, <2>1, <2>2, <2>3 DEF devintr_uart
<1> QED BY <1>1, <1>2, <1>3

----------------------------------------------------------------------------
\* A chain that is not touched.
LEMMA SameLinks ==
  ASSUME NEW nx, NEW ny, NEW i, Linked(nx, i), \A j \in Links(nx, i) : ny[j] = nx[j]
  PROVE  Linked(ny, i) /\ Links(ny, i) = Links(nx, i) /\ ny[i] = nx[i]
<1>1. ny[i] = nx[i] /\ ny[nx[i]] = nx[nx[i]] /\ ny[nx[nx[i]]] = nx[nx[nx[i]]]
  BY DEF Links
<1> QED BY <1>1 DEF Linked, Links

\* A record of the disk's registers.
LEMMA DevRecord ==
  ASSUME NEW A, NEW B, NEW C, NEW D, NEW x \in A, NEW y \in B, NEW z \in C, NEW w \in D
  PROVE  [store |-> x, seen |-> y, inflight |-> z, irq |-> w] \in [store : A, seen : B, inflight : C, irq : D]
  OBVIOUS

\* A record with the driver's fields, and their types.
DiskRecordOf(d) ==
  d = [free |-> d.free, next |-> d.next, addr |-> d.addr, ops |-> d.ops, status |-> d.status, b |-> d.b,
       avail |-> d.avail, avail_idx |-> d.avail_idx, used |-> d.used,
       used_ring_idx |-> d.used_ring_idx, used_idx |-> d.used_idx]
DiskFieldsOf(d) ==
  /\ d.free \in SUBSET Desc /\ d.next \in [Desc -> Desc \cup {None}] /\ d.addr \in [Desc -> Proc \cup {None}]
  /\ d.ops \in [Desc -> BlockCall \cup {NoCall}] /\ d.status \in [Desc -> {0, 255}]
  /\ d.b \in [Desc -> Proc \cup {None}] /\ d.avail \in Buffer(NUM, Desc) /\ d.avail_idx \in Index(IDX)
  /\ d.used \in Buffer(NUM, Desc) /\ d.used_ring_idx \in Index(IDX) /\ d.used_idx \in Index(IDX)

\* A record with the fields and the types is a state of the driver.
LEMMA DiskRecord ==
  ASSUME NEW d, DiskRecordOf(d), DiskFieldsOf(d)
  PROVE  d \in DiskState
  BY DEF DiskState, DiskRecordOf, DiskFieldsOf

\* The fields of the driver and of the disk.
LEMMA DiskFields ==
  ASSUME DiskTypes
  PROVE  /\ disk.free \subseteq Desc /\ disk.next \in [Desc -> Desc \cup {None}]
         /\ disk.addr \in [Desc -> Proc \cup {None}] /\ disk.ops \in [Desc -> BlockCall \cup {NoCall}]
         /\ disk.status \in [Desc -> {0, 255}] /\ disk.b \in [Desc -> Proc \cup {None}]
         /\ disk.avail \in Buffer(NUM, Desc) /\ disk.avail_idx \in Index(IDX)
         /\ disk.used \in Buffer(NUM, Desc) /\ disk.used_ring_idx \in Index(IDX) /\ disk.used_idx \in Index(IDX)
         /\ dev.store \in [Block -> Proc \cup {None}] /\ dev.seen \in Index(IDX) /\ dev.inflight \subseteq Desc
         /\ waiting \in Seq(Desc) /\ Len(waiting) = span(dev.seen, disk.avail_idx, IDX)
         /\ served \in Seq(Desc) /\ Len(served) = span(disk.used_idx, disk.used_ring_idx, IDX)
<1>1. /\ disk.free \subseteq Desc /\ disk.next \in [Desc -> Desc \cup {None}]
      /\ disk.addr \in [Desc -> Proc \cup {None}] /\ disk.ops \in [Desc -> BlockCall \cup {NoCall}]
      /\ disk.status \in [Desc -> {0, 255}] /\ disk.b \in [Desc -> Proc \cup {None}]
      /\ disk.avail \in Buffer(NUM, Desc) /\ disk.avail_idx \in Index(IDX)
      /\ disk.used \in Buffer(NUM, Desc) /\ disk.used_ring_idx \in Index(IDX) /\ disk.used_idx \in Index(IDX)
  BY DEF DiskTypes, DiskState
<1>2. dev.store \in [Block -> Proc \cup {None}] /\ dev.seen \in Index(IDX) /\ dev.inflight \subseteq Desc
  BY DEF DiskTypes, DevState
<1>3. /\ ring(disk.avail, NUM, IDX, dev.seen, disk.avail_idx) \in Seq(Desc)
      /\ Len(ring(disk.avail, NUM, IDX, dev.seen, disk.avail_idx)) = span(dev.seen, disk.avail_idx, IDX)
  <2>1. disk.avail \in Buffer(NUM, Desc) /\ dev.seen \in Index(IDX) /\ disk.avail_idx \in Index(IDX)
    BY <1>1, <1>2
  <2> QED BY ONLY <2>1, SizeFacts, RingSeq, RingLen
<1>4. /\ ring(disk.used, NUM, IDX, disk.used_idx, disk.used_ring_idx) \in Seq(Desc)
      /\ Len(ring(disk.used, NUM, IDX, disk.used_idx, disk.used_ring_idx)) = span(disk.used_idx, disk.used_ring_idx, IDX)
  BY <1>1, RingSeq, RingLen
<1> QED BY <1>1, <1>2, <1>3, <1>4 DEF waiting, served

\* The requesters are finitely many.
LEMMA RequestersFinite == IsFiniteSet(requesters) /\ Cardinality(requesters) \in Nat
<1>1. requesters \subseteq Proc /\ IsFiniteSet(Proc)
  BY DevicesAssumption DEF requesters
<1> QED BY <1>1, FS_Subset, FS_CardinalityType

\* A system call begins; a process that is not at the disk is no requester.
LEMMA SyscallStep ==
  ASSUME DInv, NEW p \in Proc, syscall(p)
  PROVE  DInv'
<1>1. /\ pc[p] = "user" /\ prog[p] \in Seq(BlockCall \cup CountCall) /\ prog[p] # <<>>
      /\ pc \in [Proc -> Place] /\ left \in [Proc -> Nat]
  BY DEF syscall, at, DInv, ProcTypes
<1>2. Head(prog[p]) \in BlockCall \cup CountCall /\ Tail(prog[p]) \in Seq(BlockCall \cup CountCall)
  BY <1>1
<1>3. PICK c \in BlockCall \cup CountCall :
        /\ c.op \in {"read_block", "write_block"} =>
             \A q \in Proc \ {p} : pc[q] \in AtDisk => call[q].arg # c.arg
        /\ call' = [call EXCEPT ![p] = c]
        /\ left' = [left EXCEPT ![p] = IF c.op \in {"read", "write", "sleep"} THEN c.arg ELSE 0]
        /\ data' = [data EXCEPT ![p] = IF c.op = "write_block" THEN p ELSE @]
        /\ pc' = [pc EXCEPT ![p] = IF c.op \in {"read_block", "write_block"} THEN "alloc" ELSE c.op]
  BY <1>2 DEF syscall, goto, AtDisk
<1>4. /\ prog' = [prog EXCEPT ![p] = Tail(@)]
      /\ UNCHANGED <<killed, victims, disk, dev, busy>>
  BY DEF syscall
<1>5. \/ c \in BlockCall /\ c.op \in {"read_block", "write_block"} /\ c.op \notin {"read", "write", "sleep"}
      \/ c \in CountCall /\ c.op \in {"read", "write", "sleep"} /\ c.arg \in Nat
           /\ c.op \notin {"read_block", "write_block"}
  BY DEF BlockCall, CountCall
<1>6. PICK l \in {"alloc", "read", "write", "sleep"} :
        pc' = [pc EXCEPT ![p] = l] /\ (l = "alloc" <=> c.op \in {"read_block", "write_block"})
  BY <1>3, <1>5
<1>7. ProcTypes'
  <2>1. pc' \in [Proc -> Place]
    BY <1>1, <1>6 DEF Place
  <2>2. left' \in [Proc -> Nat]
    BY <1>1, <1>3, <1>5
  <2>3. prog' \in [Proc -> Seq(BlockCall \cup CountCall)]
    BY <1>1, <1>2, <1>4 DEF DInv, ProcTypes
  <2>4. call' \in [Proc -> BlockCall \cup CountCall \cup {NoCall}]
    BY <1>3 DEF DInv, ProcTypes
  <2>5. \A q \in Proc : pc'[q] \in {"putc", "uart_tx_r"} => left'[q] > 0
    BY <1>1, <1>3, <1>6 DEF DInv, ProcTypes
  <2> QED BY <1>4, <2>1, <2>2, <2>3, <2>4, <2>5 DEF DInv, ProcTypes
<1>8. DiskTypes'
  BY <1>3, <1>4 DEF DInv, DiskTypes
<1>9. Args'
  <2>1. ASSUME NEW q \in Proc, pc'[q] \in AtDisk
        PROVE  IF q = p THEN call'[q] = c /\ c \in BlockCall ELSE pc[q] \in AtDisk /\ call'[q] = call[q]
    BY <1>1, <1>3, <1>5, <1>6, <2>1 DEF AtDisk, DInv, ProcTypes
  <2>2. pc'[p] \in AtDisk => \A q \in Proc \ {p} : pc[q] \in AtDisk => call[q].arg # c.arg
    BY <1>1, <1>3, <1>6 DEF AtDisk
  <2> QED BY <2>1, <2>2 DEF Args, DInv
<1>10. Chains' /\ Counts' /\ Transfers' /\ Moved'
  <2>1. \A q \in Proc : pc'[q] \in {"buf", "rw_wait"} <=> pc[q] \in {"buf", "rw_wait"}
    BY <1>1, <1>6
  <2>2. \A q \in Proc : pc[q] \in {"buf", "rw_wait"} =>
          left'[q] = left[q] /\ call'[q] = call[q] /\ data'[q] = data[q]
    BY <1>1, <1>3 DEF DInv, ProcTypes, DiskTypes
  <2>3. dev'.seen = dev.seen /\ dev'.inflight = dev.inflight /\ dev'.store = dev.store /\ disk' = disk /\ busy' = busy
    BY <1>4
  <2> QED BY <2>1, <2>2, <2>3, SameRequests DEF DInv
<1> QED BY <1>7, <1>8, <1>9, <1>10 DEF DInv

\* The request of a process is set up and put in the available ring.
LEMMA RequestStep ==
  ASSUME DInv, NEW p \in Proc, virtio_disk_rw(p)
  PROVE  DInv'
<1>1. PICK i : i = alloc3_desc
  OBVIOUS
<1>2. /\ pc[p] = "alloc" /\ Cardinality(disk.free) >= 3
      /\ disk' = request(p, i) /\ left' = [left EXCEPT ![p] = i[1]] /\ busy' = busy \cup {p}
      /\ pc' = [pc EXCEPT ![p] = "buf"]
      /\ UNCHANGED <<prog, call, killed, victims, dev, data>>
  BY <1>1 DEF virtio_disk_rw, at, goto
<1>3. /\ disk.free \subseteq Desc /\ disk.next \in [Desc -> Desc \cup {None}]
      /\ disk.addr \in [Desc -> Proc \cup {None}] /\ disk.ops \in [Desc -> BlockCall \cup {NoCall}]
      /\ disk.status \in [Desc -> {0, 255}] /\ disk.b \in [Desc -> Proc \cup {None}]
      /\ disk.avail \in Buffer(NUM, Desc) /\ disk.avail_idx \in Index(IDX)
      /\ disk.used \in Buffer(NUM, Desc) /\ disk.used_ring_idx \in Index(IDX) /\ disk.used_idx \in Index(IDX)
      /\ dev.seen \in Index(IDX) /\ dev.inflight \subseteq Desc
      /\ waiting \in Seq(Desc) /\ Len(waiting) = span(dev.seen, disk.avail_idx, IDX)
      /\ served \in Seq(Desc)
  BY DiskFields DEF DInv
<1>4. PICK i1 \in disk.free, i2 \in disk.free, i3 \in disk.free :
        i[1] = i1 /\ i[2] = i2 /\ i[3] = i3 /\ i1 # i2 /\ i1 # i3 /\ i2 # i3
  BY <1>1, <1>2, <1>3, Alloc3
<1>5. i1 \in Desc /\ i2 \in Desc /\ i3 \in Desc /\ pc \in [Proc -> Place] /\ left \in [Proc -> Nat] /\ i1 \in Nat
  BY <1>3, <1>4 DEF DInv, ProcTypes, Desc
<1>6. /\ disk'.free = disk.free \ {i1, i2, i3}
      /\ disk'.next = [disk.next EXCEPT ![i1] = i2, ![i2] = i3, ![i3] = None]
      /\ disk'.addr = [disk.addr EXCEPT ![i2] = p]
      /\ disk'.ops = [disk.ops EXCEPT ![i1] = call[p]]
      /\ disk'.status = [disk.status EXCEPT ![i1] = 255]
      /\ disk'.b = [disk.b EXCEPT ![i1] = p]
      /\ disk'.avail = stored(disk.avail, NUM, disk.avail_idx, i1)
      /\ disk'.avail_idx = (disk.avail_idx + 1) % IDX
      /\ disk'.used = disk.used /\ disk'.used_ring_idx = disk.used_ring_idx /\ disk'.used_idx = disk.used_idx
  BY <1>2, <1>4 DEF request, stored, DInv, DiskTypes, DiskState
<1>7. call[p] \in BlockCall
  BY <1>2 DEF DInv, Args, AtDisk
<1>8. /\ p \notin requesters /\ requesters' = requesters \cup {p}
      /\ \A q \in requesters : q \in Proc /\ q # p /\ left'[q] = left[q]
      /\ left'[p] = i1
  BY <1>2, <1>4, <1>5 DEF requesters
<1>9. \A q \in requesters : Links(disk.next, left[q]) \cap {i1, i2, i3} = {} /\ left[q] \in Desc
  BY <1>4 DEF DInv, Chains, Linked
<1>10. \A id \in Entries(waiting) \cup dev.inflight \cup Entries(served) :
         id \in Desc \ {i1, i2, i3} /\ disk.b[id] \in requesters /\ disk.b[id] \in busy /\ left[disk.b[id]] = id
  <2>1. \A id \in Entries(waiting) \cup dev.inflight \cup Entries(served) :
          disk.b[id] \in requesters /\ disk.b[id] \in busy /\ left[disk.b[id]] = id
    BY DEF DInv, Transfers
  <2>2. \A q \in requesters : left[q] \in Desc \ {i1, i2, i3}
    BY <1>9 DEF Links
  <2> QED BY <2>1, <2>2
<1>11. ProcTypes'
  <2>1. pc' \in [Proc -> Place] /\ left' \in [Proc -> Nat]
    BY <1>2, <1>4, <1>5 DEF Place, Channel
  <2>2. \A q \in Proc : pc'[q] \in {"putc", "uart_tx_r"} => left'[q] > 0
    BY <1>2, <1>5 DEF DInv, ProcTypes
  <2> QED BY <1>2, <2>1, <2>2 DEF DInv, ProcTypes
<1>12. span(dev.seen, disk.avail_idx, IDX) < NUM /\ span(dev.seen, disk.avail_idx, IDX) < IDX - 1
  <2>1. IsFiniteSet(Desc \ {i1, i2, i3}) /\ Cardinality(Desc \ {i1, i2, i3}) = NUM - 3
    BY <1>4, <1>5, DescCount, ThreeLess
  <2>2. Entries(waiting) \subseteq Desc \ {i1, i2, i3}
    BY <1>10
  <2>3. Len(waiting) <= NUM - 3
    BY <1>3, <2>1, <2>2, OnceLen DEF DInv, Transfers
  <2>4. NUM <= IDX
    BY DevicesAssumption
  <2>5. Len(waiting) \in Nat
    BY <1>3
  <2> QED BY <1>3, <2>3, <2>4, <2>5
<1>13. /\ waiting' = Append(waiting, i1) /\ disk'.avail \in Buffer(NUM, Desc) /\ served' = served
  <2>1. /\ ring(stored(disk.avail, NUM, disk.avail_idx, i1), NUM, IDX, dev.seen, (disk.avail_idx + 1) % IDX)
             = Append(ring(disk.avail, NUM, IDX, dev.seen, disk.avail_idx), i1)
        /\ stored(disk.avail, NUM, disk.avail_idx, i1) \in Buffer(NUM, Desc)
    BY ONLY <1>3, <1>5, <1>12, SizeFacts, RingPut
  <2> QED BY <1>2, <1>6, <2>1 DEF waiting, served
<1>14. (disk.avail_idx + 1) % IDX \in Index(IDX)
  BY <1>3, SpanStep
<1>15. /\ disk'.next[i1] = i2 /\ disk'.next[i2] = i3 /\ disk'.next[i3] = None
       /\ \A j \in Desc \ {i1, i2, i3} : disk'.next[j] = disk.next[j]
       /\ disk'.next \in [Desc -> Desc \cup {None}]
  <2>1. i2 \in Desc \cup {None} /\ i3 \in Desc \cup {None} /\ None \in Desc \cup {None}
    BY <1>5
  <2>2. PICK f, g : f = disk.next /\ g = disk'.next
    OBVIOUS
  <2>3. f \in [Desc -> Desc \cup {None}] /\ g = [f EXCEPT ![i1] = i2, ![i2] = i3, ![i3] = None]
    BY <1>3, <1>6, <2>2
  <2>4. g[i1] = i2 /\ g[i2] = i3 /\ g[i3] = None /\ \A j \in Desc \ {i1, i2, i3} : g[j] = f[j]
    BY ONLY <1>4, <1>5, <2>3
  <2>5. g \in [Desc -> Desc \cup {None}]
    BY ONLY <1>5, <2>1, <2>3
  <2> QED BY ONLY <2>2, <2>4, <2>5
<1>16. DiskTypes'
  <2>1. disk'.free \in SUBSET Desc /\ disk'.next \in [Desc -> Desc \cup {None}]
    BY <1>3, <1>6, <1>15
  <2>2. /\ disk'.addr \in [Desc -> Proc \cup {None}] /\ disk'.ops \in [Desc -> BlockCall \cup {NoCall}]
        /\ disk'.status \in [Desc -> {0, 255}] /\ disk'.b \in [Desc -> Proc \cup {None}]
    BY <1>3, <1>5, <1>6, <1>7
  <2>3. DiskRecordOf(disk')
    BY <1>2 DEF request, DInv, DiskTypes, DiskState, DiskRecordOf
  <2>4. DiskFieldsOf(disk')
    BY <1>3, <1>6, <1>13, <1>14, <2>1, <2>2 DEF DiskFieldsOf
  <2>5. disk' \in DiskState
    BY <2>3, <2>4, DiskRecord
  <2> QED BY <1>2, <2>5 DEF DInv, DiskTypes
<1>17. Args'
  <2>1. \A q \in Proc : pc'[q] \in AtDisk => pc[q] \in AtDisk /\ call'[q] = call[q]
    BY <1>2, <1>5 DEF AtDisk
  <2> QED BY <2>1, SameArgs DEF DInv
<1>18. Chains'
  <2>1. Linked(disk'.next, i1) /\ Links(disk'.next, i1) = {i1, i2, i3}
    BY <1>4, <1>5, <1>15 DEF Linked, Links
  <2>2. ASSUME NEW q \in requesters
        PROVE  /\ Linked(disk'.next, left[q]) /\ Links(disk'.next, left[q]) = Links(disk.next, left[q])
               /\ disk'.next[left[q]] = disk.next[left[q]]
    <3>1. Linked(disk.next, left[q]) /\ Links(disk.next, left[q]) \subseteq Desc
      BY DEF DInv, Chains, Linked, Links
    <3>2. \A j \in Links(disk.next, left[q]) : disk'.next[j] = disk.next[j]
      BY <1>9, <1>15, <3>1
    <3>3. PICK f, g : f = disk.next /\ g = disk'.next
      OBVIOUS
    <3>4. Linked(f, left[q]) /\ \A j \in Links(f, left[q]) : g[j] = f[j]
      BY <3>1, <3>2, <3>3
    <3>5. Linked(g, left[q]) /\ Links(g, left[q]) = Links(f, left[q]) /\ g[left[q]] = f[left[q]]
      BY <3>4, SameLinks
    <3> QED BY <3>3, <3>5
  <2>3. ASSUME NEW q \in requesters
        PROVE  /\ Linked(disk'.next, left'[q]) /\ Links(disk'.next, left'[q]) \cap disk'.free = {}
               /\ disk'.b[left'[q]] = q /\ disk'.addr[disk'.next[left'[q]]] = q /\ disk'.ops[left'[q]] = call'[q]
    <3>1. /\ Links(disk.next, left[q]) \cap disk.free = {} /\ Linked(disk.next, left[q])
          /\ disk.b[left[q]] = q /\ disk.addr[disk.next[left[q]]] = q /\ disk.ops[left[q]] = call[q]
      BY DEF DInv, Chains
    <3>2. left[q] \in Desc \ {i1, i2, i3} /\ disk.next[left[q]] \in Desc \ {i1, i2, i3} /\ left'[q] = left[q]
      BY <1>8, <1>9, <3>1 DEF Linked, Links
    <3>3. Links(disk'.next, left'[q]) \cap disk'.free = {}
      BY <1>6, <2>2, <3>1, <3>2
    <3>4. disk'.b[left'[q]] = q /\ disk'.addr[disk'.next[left'[q]]] = q /\ disk'.ops[left'[q]] = call'[q]
      BY <1>2, <1>3, <1>6, <2>2, <3>1, <3>2
    <3> QED BY <2>2, <3>2, <3>3, <3>4
  <2>4. /\ Linked(disk'.next, left'[p]) /\ Links(disk'.next, left'[p]) \cap disk'.free = {}
        /\ disk'.b[left'[p]] = p /\ disk'.addr[disk'.next[left'[p]]] = p /\ disk'.ops[left'[p]] = call'[p]
    <3>1. left'[p] = i1 /\ disk'.next[left'[p]] = i2
      BY <1>8, <1>15
    <3>2. disk'.b[i1] = p /\ disk'.addr[i2] = p /\ disk'.ops[i1] = call'[p]
      BY <1>2, <1>3, <1>5, <1>6
    <3>3. Linked(disk'.next, left'[p]) /\ Links(disk'.next, left'[p]) \cap disk'.free = {}
      BY <1>6, <2>1, <3>1
    <3> QED BY <3>1, <3>2, <3>3
  <2>5. ASSUME NEW q \in requesters', NEW r \in requesters', q # r
        PROVE  Links(disk'.next, left'[q]) \cap Links(disk'.next, left'[r]) = {}
    <3>1. CASE q = p
      BY <1>8, <1>9, <2>1, <2>2, <2>5, <3>1
    <3>2. CASE r = p
      BY <1>8, <1>9, <2>1, <2>2, <2>5, <3>2
    <3>3. CASE q # p /\ r # p
      BY <1>8, <2>2, <2>5, <3>3 DEF DInv, Chains
    <3> QED BY <3>1, <3>2, <3>3
  <2> QED BY <1>8, <2>3, <2>4, <2>5 DEF Chains
<1>19. Counts'
  <2>1. Cardinality(disk'.free) = Cardinality(disk.free) - 3
    <3>1. IsFiniteSet(disk.free)
      BY <1>3, DescCount
    <3> QED BY ONLY <1>4, <1>6, <3>1, ThreeLess
  <2>2. Cardinality(requesters') = Cardinality(requesters) + 1
    BY <1>8, RequestersFinite, FS_AddElement
  <2> QED BY <2>1, <2>2, RequestersFinite DEF DInv, Counts
<1>20. Transfers'
  <2>1. Once(waiting') /\ Entries(waiting') = Entries(waiting) \cup {i1}
    <3>1. i1 \notin Entries(waiting)
      BY <1>10
    <3> QED BY <1>3, <1>5, <1>13, <3>1, AppendOnce DEF DInv, Transfers
  <2>2. \A id \in Entries(waiting) \cup dev.inflight \cup Entries(served) :
          disk'.b[id] = disk.b[id] /\ left'[disk.b[id]] = left[disk.b[id]]
    BY <1>3, <1>6, <1>8, <1>10
  <2>3. disk'.b[i1] = p /\ left'[p] = i1
    BY <1>3, <1>5, <1>6, <1>8
  <2>4. busy' \subseteq requesters'
    BY <1>2, <1>8 DEF DInv, Transfers
  <2> QED BY <1>2, <1>10, <1>13, <2>1, <2>2, <2>3, <2>4 DEF DInv, Transfers
<1>21. Moved'
  <2>1. \A id \in Entries(served) : disk'.b[id] = disk.b[id] /\ disk'.status[id] = disk.status[id]
    BY <1>3, <1>6, <1>10
  <2>2. requesters' \ busy' = requesters \ busy
    BY <1>2, <1>8
  <2> QED BY <1>2, <1>13, <2>1, <2>2 DEF DInv, Moved
<1> QED BY <1>11, <1>16, <1>17, <1>18, <1>19, <1>20, <1>21 DEF DInv

\* A process finds its request finished, and frees its chain.
LEMMA FinishStep ==
  ASSUME DInv, NEW p \in Proc, rw_wait(p), finished(p)
  PROVE  DInv'
<1> DEFINE C == Links(disk.next, left[p])
<1>1. /\ disk.free \subseteq Desc /\ disk.next \in [Desc -> Desc \cup {None}]
      /\ disk.addr \in [Desc -> Proc \cup {None}] /\ disk.ops \in [Desc -> BlockCall \cup {NoCall}]
      /\ disk.status \in [Desc -> {0, 255}] /\ disk.b \in [Desc -> Proc \cup {None}]
      /\ disk.avail \in Buffer(NUM, Desc) /\ disk.avail_idx \in Index(IDX)
      /\ disk.used \in Buffer(NUM, Desc) /\ disk.used_ring_idx \in Index(IDX) /\ disk.used_idx \in Index(IDX)
  BY DiskFields DEF DInv
<1>2. /\ pc[p] = "rw_wait" /\ p \notin busy /\ p \in requesters /\ pc \in [Proc -> Place] /\ left \in [Proc -> Nat]
      /\ "free" \in Channel
  BY DEF rw_wait, at, finished, requesters, DInv, ProcTypes, Channel
<1>3. /\ Linked(disk.next, left[p]) /\ C \cap disk.free = {} /\ C \subseteq Desc /\ left[p] \in C /\ left[p] \in Desc
      /\ chain(left[p]) = C /\ Cardinality(C) = 3
  <2>1. Linked(disk.next, left[p]) /\ C \cap disk.free = {}
    BY <1>2 DEF DInv, Chains
  <2> QED BY <2>1, ChainIs DEF Linked, Links
<1>4. /\ left' = [left EXCEPT ![p] = 0] /\ pc' = [wakeup(pc, "free") EXCEPT ![p] = "user"]
      /\ UNCHANGED <<prog, call, killed, victims, dev, data, busy>>
  BY DEF rw_wait
<1>5. /\ disk'.free = disk.free \cup C
      /\ disk'.next = [j \in Desc |-> IF j \in C THEN None ELSE disk.next[j]]
      /\ disk'.addr = [j \in Desc |-> IF j \in C THEN None ELSE disk.addr[j]]
      /\ disk'.b = [disk.b EXCEPT ![left[p]] = None]
      /\ disk'.ops = disk.ops /\ disk'.status = disk.status /\ disk'.avail = disk.avail
      /\ disk'.avail_idx = disk.avail_idx /\ disk'.used = disk.used
      /\ disk'.used_ring_idx = disk.used_ring_idx /\ disk'.used_idx = disk.used_idx
      /\ DiskRecordOf(disk')
  <2>1. PICK D : D = chain(left[p]) /\ D = C
    BY <1>3
  <2>2. disk' = [disk EXCEPT !.b[left[p]] = None, !.free = @ \cup D,
                             !.next = [j \in Desc |-> IF j \in D THEN None ELSE @[j]],
                             !.addr = [j \in Desc |-> IF j \in D THEN None ELSE @[j]]]
    BY <2>1 DEF rw_wait
  <2>3. disk \in DiskState
    BY DEF DInv, DiskTypes
  <2>4. /\ disk'.free = disk.free \cup D
        /\ disk'.next = [j \in Desc |-> IF j \in D THEN None ELSE disk.next[j]]
        /\ disk'.addr = [j \in Desc |-> IF j \in D THEN None ELSE disk.addr[j]]
        /\ disk'.b = [disk.b EXCEPT ![left[p]] = None]
        /\ disk'.ops = disk.ops /\ disk'.status = disk.status /\ disk'.avail = disk.avail
        /\ disk'.avail_idx = disk.avail_idx /\ disk'.used = disk.used
        /\ disk'.used_ring_idx = disk.used_ring_idx /\ disk'.used_idx = disk.used_idx
    BY ONLY <2>2, <2>3 DEF DiskState
  <2>5. DiskRecordOf(disk')
    BY ONLY <2>2, <2>3 DEF DiskState, DiskRecordOf
  <2> HIDE DEF C
  <2> QED BY ONLY <2>1, <2>4, <2>5
<1>6. /\ wakeup(pc, "free") \in [Proc -> Place]
      /\ \A q \in Proc :
           /\ wakeup(pc, "free")[q] \in {"buf", "rw_wait"} <=> pc[q] \in {"buf", "rw_wait"}
           /\ wakeup(pc, "free")[q] \in AtDisk => pc[q] \in AtDisk
           /\ wakeup(pc, "free")[q] \in {"putc", "uart_tx_r"} => pc[q] \in {"putc", "uart_tx_r"}
  BY <1>2, WakeupIs
<1>7. /\ pc' \in [Proc -> Place] /\ pc'[p] = "user"
      /\ \A q \in Proc \ {p} :
           /\ pc'[q] \in {"buf", "rw_wait"} <=> pc[q] \in {"buf", "rw_wait"}
           /\ pc'[q] \in AtDisk => pc[q] \in AtDisk
           /\ pc'[q] \in {"putc", "uart_tx_r"} => pc[q] \in {"putc", "uart_tx_r"}
  BY <1>4, <1>6 DEF Place
<1>8. /\ requesters' = requesters \ {p}
      /\ \A q \in requesters' : q \in Proc /\ left'[q] = left[q]
  BY <1>2, <1>4, <1>7 DEF requesters
<1>9. ASSUME NEW q \in requesters'
      PROVE  /\ Links(disk.next, left[q]) \cap C = {} /\ left[q] \in Desc \ C
             /\ disk.next[left[q]] \in Desc \ C
             /\ Linked(disk.next, left[q]) /\ Links(disk.next, left[q]) \cap disk.free = {}
             /\ disk.b[left[q]] = q /\ disk.addr[disk.next[left[q]]] = q /\ disk.ops[left[q]] = call[q]
  <2>1. q \in requesters /\ q # p
    BY <1>8
  <2>2. /\ Linked(disk.next, left[q]) /\ Links(disk.next, left[q]) \cap disk.free = {}
        /\ disk.b[left[q]] = q /\ disk.addr[disk.next[left[q]]] = q /\ disk.ops[left[q]] = call[q]
        /\ Links(disk.next, left[q]) \cap C = {}
    BY <1>2, <2>1 DEF DInv, Chains
  <2>3. /\ left[q] \in Links(disk.next, left[q]) /\ disk.next[left[q]] \in Links(disk.next, left[q])
        /\ left[q] \in Desc /\ disk.next[left[q]] \in Desc
    BY <2>2 DEF Linked, Links
  <2> QED BY <2>2, <2>3
<1> HIDE DEF C
<1>10. ProcTypes'
  <2>1. left' \in [Proc -> Nat]
    BY <1>2, <1>4
  <2>2. \A q \in Proc : pc'[q] \in {"putc", "uart_tx_r"} => left'[q] > 0
    BY <1>2, <1>4, <1>7 DEF DInv, ProcTypes
  <2> QED BY <1>4, <1>7, <2>1, <2>2 DEF DInv, ProcTypes
<1>11. DiskTypes'
  <2>1. /\ disk'.next \in [Desc -> Desc \cup {None}] /\ disk'.addr \in [Desc -> Proc \cup {None}]
        /\ disk'.b \in [Desc -> Proc \cup {None}] /\ disk'.free \in SUBSET Desc
    BY <1>1, <1>3, <1>5
  <2>2. DiskFieldsOf(disk')
    BY <1>1, <1>5, <2>1 DEF DiskFieldsOf
  <2>3. disk' \in DiskState
    BY <1>5, <2>2, DiskRecord
  <2> QED BY <1>4, <2>3 DEF DInv, DiskTypes
<1>12. Args'
  <2>1. \A q \in Proc : pc'[q] \in AtDisk => pc[q] \in AtDisk /\ call'[q] = call[q]
    BY <1>2, <1>4, <1>7 DEF AtDisk
  <2> QED BY <2>1, SameArgs DEF DInv
<1>13. Chains'
  <2>1. ASSUME NEW q \in requesters'
        PROVE  /\ Linked(disk'.next, left[q]) /\ Links(disk'.next, left[q]) = Links(disk.next, left[q])
               /\ disk'.next[left[q]] = disk.next[left[q]]
    <3>1. Links(disk.next, left[q]) \subseteq Desc \ C
      BY <1>9 DEF Linked, Links
    <3>2. PICK f, g : f = disk.next /\ g = disk'.next
      OBVIOUS
    <3>3. Linked(f, left[q]) /\ \A j \in Links(f, left[q]) : g[j] = f[j]
      BY <1>5, <1>9, <3>1, <3>2
    <3>4. Linked(g, left[q]) /\ Links(g, left[q]) = Links(f, left[q]) /\ g[left[q]] = f[left[q]]
      BY <3>3, SameLinks
    <3> QED BY <3>2, <3>4
  <2>2. ASSUME NEW q \in requesters'
        PROVE  /\ Linked(disk'.next, left'[q]) /\ Links(disk'.next, left'[q]) \cap disk'.free = {}
               /\ disk'.b[left'[q]] = q /\ disk'.addr[disk'.next[left'[q]]] = q /\ disk'.ops[left'[q]] = call'[q]
    <3>1. left'[q] = left[q] /\ left[q] # left[p]
      BY <1>3, <1>8, <1>9
    <3>2. disk'.b[left[q]] = disk.b[left[q]] /\ disk'.addr[disk.next[left[q]]] = disk.addr[disk.next[left[q]]]
      BY <1>1, <1>5, <1>9, <3>1
    <3>3. Links(disk'.next, left[q]) \cap disk'.free = {}
      BY <1>5, <1>9, <2>1
    <3> QED BY <1>4, <1>5, <1>9, <2>1, <3>1, <3>2, <3>3
  <2>3. ASSUME NEW q \in requesters', NEW r \in requesters', q # r
        PROVE  Links(disk'.next, left'[q]) \cap Links(disk'.next, left'[r]) = {}
    BY <1>8, <2>1, <2>3 DEF DInv, Chains
  <2> QED BY <2>2, <2>3 DEF Chains
<1>14. Counts'
  <2>1. Cardinality(disk'.free) = Cardinality(disk.free) + 3
    <3>1. IsFiniteSet(disk.free) /\ IsFiniteSet(C) /\ disk.free \cap C = {} /\ Cardinality(disk.free) \in Nat
      BY <1>1, <1>3, DescCount
    <3>2. Cardinality(disk.free \cup C) = Cardinality(disk.free) + Cardinality(C) - Cardinality(disk.free \cap C)
      BY ONLY <3>1, FS_Union
    <3>3. Cardinality(disk.free \cap C) = 0
      BY <3>1, FS_EmptySet
    <3> QED BY <1>3, <1>5, <3>1, <3>2, <3>3
  <2>2. Cardinality(requesters') = Cardinality(requesters) - 1
    BY <1>2, <1>8, RequestersFinite, FS_RemoveElement
  <2> QED BY <2>1, <2>2, RequestersFinite DEF DInv, Counts
<1>15. waiting' = waiting /\ served' = served
  BY <1>4, <1>5 DEF waiting, served
<1>16. \A id \in Entries(waiting) \cup dev.inflight \cup Entries(served) :
         /\ disk.b[id] \in busy /\ left[disk.b[id]] = id /\ disk.b[id] \in requesters'
         /\ disk'.b[id] = disk.b[id] /\ left'[disk.b[id]] = id
  <2>1. SUFFICES ASSUME NEW id \in Entries(waiting) \cup dev.inflight \cup Entries(served)
                 PROVE  /\ disk.b[id] \in busy /\ left[disk.b[id]] = id /\ disk.b[id] \in requesters'
                        /\ disk'.b[id] = disk.b[id] /\ left'[disk.b[id]] = id
    OBVIOUS
  <2>2. disk.b[id] \in busy /\ left[disk.b[id]] = id /\ disk.b[id] \in requesters
    BY DEF DInv, Transfers
  <2>3. disk.b[id] \in requesters'
    BY <1>2, <1>8, <2>2
  <2>4. id \in Desc /\ id # left[p] /\ left'[disk.b[id]] = id
    BY <1>3, <1>8, <1>9, <2>2, <2>3
  <2> QED BY <1>1, <1>5, <2>2, <2>3, <2>4
<1>17. Transfers'
  <2>1. busy' \subseteq requesters'
    BY <1>2, <1>4, <1>8 DEF DInv, Transfers
  <2> QED BY <1>4, <1>15, <1>16, <2>1 DEF DInv, Transfers
<1>18. Moved'
  BY <1>4, <1>5, <1>8, <1>15, <1>16 DEF DInv, Moved
<1> QED BY <1>10, <1>11, <1>12, <1>13, <1>14, <1>17, <1>18 DEF DInv

\* Nothing changes for processes when they and what they have do not.
LEMMA SameProcs ==
  ASSUME ProcTypes, Args, UNCHANGED procVars
  PROVE  ProcTypes' /\ Args' /\ requesters' = requesters
  BY DEF ProcTypes, Args, procVars, requesters

\* The disk takes a request.
LEMMA TakeStep ==
  ASSUME DInv, disk_take
  PROVE  DInv'
<1>1. /\ disk.avail \in Buffer(NUM, Desc) /\ disk.avail_idx \in Index(IDX) /\ dev.seen \in Index(IDX)
      /\ dev.store \in [Block -> Proc \cup {None}] /\ dev.inflight \subseteq Desc
      /\ waiting \in Seq(Desc) /\ dev.seen # disk.avail_idx
  BY DiskFields DEF DInv, disk_take
<1>2. PICK id : id = disk.avail[dev.seen % NUM]
  OBVIOUS
<1>3. /\ waiting # <<>> /\ id = Head(waiting) /\ id \in Desc
      /\ ring(disk.avail, NUM, IDX, (dev.seen + 1) % IDX, disk.avail_idx) = Tail(waiting)
  BY ONLY <1>1, <1>2, SizeFacts, RingGet DEF waiting
<1>4. /\ dev' = [store |-> dev.store, seen |-> (dev.seen + 1) % IDX, inflight |-> dev.inflight \cup {id}, irq |-> dev.irq]
      /\ dev'.store = dev.store /\ dev'.seen = (dev.seen + 1) % IDX /\ dev'.inflight = dev.inflight \cup {id}
      /\ dev.irq \in BOOLEAN
  BY <1>2 DEF disk_take, DInv, DiskTypes, DevState
<1>5. UNCHANGED <<procVars, disk, data, busy>>
  BY DEF disk_take
<1>6. ProcTypes' /\ Args' /\ requesters' = requesters
  BY <1>5, SameProcs DEF DInv
<1>7. DiskTypes'
  <2>1. (dev.seen + 1) % IDX \in Index(IDX) /\ dev.inflight \cup {id} \in SUBSET Desc
    BY <1>1, <1>3, SpanStep
  <2>2. dev' \in DevState
    BY <1>1, <1>4, <2>1, DevRecord, Zenon DEF DevState
  <2> QED BY <1>5, <2>2 DEF DInv, DiskTypes
<1>8. waiting' = Tail(waiting) /\ served' = served
  BY <1>3, <1>4, <1>5 DEF waiting, served
<1>9. /\ Once(waiting') /\ Entries(waiting') = Entries(waiting) \ {id} /\ id \in Entries(waiting)
  BY <1>1, <1>3, <1>8, TailOnce DEF DInv, Transfers
<1>10. Transfers'
  BY <1>4, <1>5, <1>6, <1>8, <1>9 DEF DInv, Transfers, procVars
<1>11. Moved'
  BY <1>4, <1>5, <1>6, <1>8 DEF DInv, Moved, procVars
<1>12. Chains' /\ Counts'
  BY <1>5, <1>6, SameChains DEF DInv, procVars
<1> QED BY <1>6, <1>7, <1>10, <1>11, <1>12 DEF DInv

\* The disk serves a request: the block is moved between the requester's own
\* buffer and the disk, and nobody else's is touched.
LEMMA ServeStep ==
  ASSUME DInv, NEW id \in Desc, disk_serve(id)
  PROVE  DInv'
<1>1. /\ disk.next \in [Desc -> Desc \cup {None}]
      /\ disk.status \in [Desc -> {0, 255}] /\ disk.b \in [Desc -> Proc \cup {None}]
      /\ disk.used \in Buffer(NUM, Desc) /\ disk.used_ring_idx \in Index(IDX) /\ disk.used_idx \in Index(IDX)
      /\ dev.store \in [Block -> Proc \cup {None}] /\ dev.seen \in Index(IDX) /\ dev.inflight \subseteq Desc
      /\ served \in Seq(Desc) /\ Len(served) = span(disk.used_idx, disk.used_ring_idx, IDX)
      /\ data \in [Proc -> Proc \cup {None}] /\ disk \in DiskState
  BY DiskFields DEF DInv, DiskTypes
<1>2. PICK p : p = disk.b[id]
  OBVIOUS
<1>3. id \in dev.inflight /\ p \in busy /\ left[p] = id /\ p \in requesters /\ p \in Proc
  BY <1>2 DEF disk_serve, DInv, Transfers, requesters
<1>4. /\ Linked(disk.next, id) /\ disk.addr[disk.next[id]] = p /\ disk.ops[id] = call[p]
      /\ call[p] \in BlockCall
  BY <1>3 DEF DInv, Chains, Args, requesters, AtDisk
<1>5. PICK blk \in Block : blk = call[p].arg
  BY <1>4 DEF BlockCall
<1>6. PICK v \in Proc \cup {None} : v = IF call[p].op = "read_block" THEN dev.store[blk] ELSE data[p]
  BY <1>1, <1>3
<1>7. data' = [data EXCEPT ![p] = v]
  <2>1. data' = [data EXCEPT ![p] = IF call[p].op = "read_block" THEN dev.store[blk] ELSE @]
    BY <1>4, <1>5 DEF disk_serve
  <2> QED BY <1>1, <1>6, <2>1
<1>8. /\ dev' = [store |-> [dev.store EXCEPT ![blk] = v], seen |-> dev.seen, inflight |-> dev.inflight \ {id}, irq |-> TRUE]
      /\ dev'.store = [dev.store EXCEPT ![blk] = v] /\ dev'.seen = dev.seen /\ dev'.inflight = dev.inflight \ {id}
  <2>1. dev' = [dev EXCEPT !.store[blk] = IF call[p].op = "read_block" THEN @ ELSE data[p],
                           !.inflight = @ \ {id}, !.irq = TRUE]
    BY <1>4, <1>5 DEF disk_serve
  <2>2. dev \in DevState
    BY DEF DInv, DiskTypes
  <2>3. dev' = [dev EXCEPT !.store[blk] = v, !.inflight = @ \ {id}, !.irq = TRUE]
    BY <1>1, <1>6, <2>1, <2>2 DEF DevState
  <2> QED BY <2>2, <2>3 DEF DevState
<1>9. /\ disk' = [disk EXCEPT !.status[id] = 0, !.used[disk.used_ring_idx % NUM] = id, !.used_ring_idx = (@ + 1) % IDX]
      /\ UNCHANGED <<procVars, busy>>
  BY DEF disk_serve
<1>10. /\ disk'.status = [disk.status EXCEPT ![id] = 0]
       /\ disk'.used = stored(disk.used, NUM, disk.used_ring_idx, id)
       /\ disk'.used_ring_idx = (disk.used_ring_idx + 1) % IDX
       /\ disk'.free = disk.free /\ disk'.next = disk.next /\ disk'.addr = disk.addr /\ disk'.ops = disk.ops
       /\ disk'.b = disk.b /\ disk'.avail = disk.avail /\ disk'.avail_idx = disk.avail_idx
       /\ disk'.used_idx = disk.used_idx
  BY ONLY <1>1, <1>9 DEF DiskState, stored
<1>11. ProcTypes' /\ Args' /\ requesters' = requesters
  BY <1>9, SameProcs DEF DInv
<1>12. /\ id \notin Entries(served)
       /\ \A i \in Entries(served) :
            i \in Desc \ Links(disk.next, id) /\ disk.b[i] \in requesters \ {p}
  <2>1. id \notin Entries(served)
    BY <1>3 DEF DInv, Transfers
  <2>2. ASSUME NEW i \in Entries(served)
        PROVE  i \in Desc \ Links(disk.next, id) /\ disk.b[i] \in requesters \ {p}
    <3>1. PICK q : q = disk.b[i]
      OBVIOUS
    <3>2. q \in busy /\ q \in requesters /\ left[q] = i /\ i # id /\ q # p
      BY <1>3, <2>1, <3>1 DEF DInv, Transfers
    <3>3. Links(disk.next, left[q]) \cap Links(disk.next, left[p]) = {} /\ Linked(disk.next, left[q])
      BY <1>3, <3>2 DEF DInv, Chains
    <3>4. i \in Links(disk.next, left[q]) /\ i \in Desc
      BY <3>2, <3>3 DEF Linked, Links
    <3> QED BY <1>3, <3>1, <3>2, <3>3, <3>4
  <2> QED BY <2>1, <2>2
<1>13. span(disk.used_idx, disk.used_ring_idx, IDX) < NUM /\ span(disk.used_idx, disk.used_ring_idx, IDX) < IDX - 1
  <2>1. PICK i2, i3 : i2 = disk.next[id] /\ i3 = disk.next[disk.next[id]]
    OBVIOUS
  <2>2. i2 \in Desc /\ i3 \in Desc /\ id # i2 /\ id # i3 /\ i2 # i3 /\ Links(disk.next, id) = {id, i2, i3}
    BY <1>4, <2>1 DEF Linked, Links
  <2>3. IsFiniteSet(Desc \ {id, i2, i3}) /\ Cardinality(Desc \ {id, i2, i3}) = NUM - 3
    BY <2>2, DescCount, ThreeLess
  <2>4. Entries(served) \subseteq Desc \ {id, i2, i3}
    BY <1>12, <2>2
  <2>5. Len(served) <= NUM - 3
    BY <1>1, <2>3, <2>4, OnceLen DEF DInv, Transfers
  <2>6. NUM <= IDX
    BY DevicesAssumption
  <2>7. Len(served) \in Nat
    BY <1>1
  <2> QED BY <1>1, <2>5, <2>6, <2>7
<1>14. served' = Append(served, id) /\ disk'.used \in Buffer(NUM, Desc) /\ waiting' = waiting
  <2>1. /\ ring(stored(disk.used, NUM, disk.used_ring_idx, id), NUM, IDX, disk.used_idx, (disk.used_ring_idx + 1) % IDX)
             = Append(ring(disk.used, NUM, IDX, disk.used_idx, disk.used_ring_idx), id)
        /\ stored(disk.used, NUM, disk.used_ring_idx, id) \in Buffer(NUM, Desc)
    <3>1. id \in Desc
      OBVIOUS
    <3> QED BY ONLY <1>1, <1>13, <3>1, SizeFacts, RingPut
  <2> QED BY <1>8, <1>10, <2>1 DEF waiting, served
<1>15. Once(served') /\ Entries(served') = Entries(served) \cup {id}
  BY <1>1, <1>12, <1>14, AppendOnce DEF DInv, Transfers
<1>16. DiskTypes'
  <2>1. (disk.used_ring_idx + 1) % IDX \in Index(IDX)
    BY <1>1, SpanStep
  <2>2. DiskRecordOf(disk')
    BY ONLY <1>1, <1>9 DEF DiskState, DiskRecordOf
  <2>3. disk'.status \in [Desc -> {0, 255}]
    BY <1>1, <1>10
  <2>4. DiskFieldsOf(disk')
    BY ONLY <1>1, <1>10, <1>14, <2>1, <2>3 DEF DiskFieldsOf, DiskState
  <2>5. disk' \in DiskState
    BY <2>2, <2>4, DiskRecord
  <2>6. [dev.store EXCEPT ![blk] = v] \in [Block -> Proc \cup {None}] /\ dev.inflight \ {id} \in SUBSET Desc
    BY <1>1
  <2>7. TRUE \in BOOLEAN
    BY Zenon
  <2>8. dev' \in DevState
    BY <1>1, <1>8, <2>6, <2>7, DevRecord, Zenon DEF DevState
  <2>9. data' \in [Proc -> Proc \cup {None}]
    BY <1>1, <1>7
  <2> QED BY <2>5, <2>8, <2>9 DEF DiskTypes
<1>17. Chains' /\ Counts'
  BY <1>9, <1>10, <1>11, SameChains DEF DInv, procVars
<1>18. Transfers'
  BY <1>2, <1>3, <1>8, <1>9, <1>10, <1>11, <1>14, <1>15 DEF DInv, Transfers, procVars
<1>19. Moved'
  <2>1. data'[p] = dev'.store[call[p].arg] /\ disk'.status[id] = 0 /\ disk'.b[id] = p
    BY <1>1, <1>2, <1>3, <1>5, <1>7, <1>8, <1>10
  <2>2. ASSUME NEW q \in requesters \ {p}, data[q] = dev.store[call[q].arg]
        PROVE  data'[q] = dev'.store[call[q].arg]
    <3>1. q \in Proc /\ q # p /\ call[q] \in BlockCall /\ call[q].arg # blk
      BY <1>3, <1>5 DEF DInv, Args, AtDisk, requesters
    <3>2. call[q].arg \in Block
      BY <3>1 DEF BlockCall
    <3> QED BY <1>1, <1>3, <1>7, <1>8, <2>2, <3>1, <3>2
  <2>3. ASSUME NEW i \in Entries(served)
        PROVE  disk'.status[i] = 0 /\ data'[disk.b[i]] = dev'.store[call[disk.b[i]].arg]
    <3>1. i \in Desc /\ disk.b[i] \in requesters \ {p} /\ i # id
      BY <1>12
    <3>2. disk.status[i] = 0 /\ data[disk.b[i]] = dev.store[call[disk.b[i]].arg]
      BY DEF DInv, Moved
    <3> QED BY <1>1, <1>10, <2>2, <3>1, <3>2
  <2>4. ASSUME NEW q \in requesters \ busy PROVE data'[q] = dev'.store[call[q].arg]
    <3>1. q \in requesters \ {p} /\ data[q] = dev.store[call[q].arg]
      BY <1>3 DEF DInv, Moved
    <3> QED BY <2>2, <3>1
  <2> QED BY <1>9, <1>10, <1>11, <1>15, <2>1, <2>3, <2>4 DEF Moved, procVars
<1> QED BY <1>11, <1>16, <1>17, <1>18, <1>19 DEF DInv

\* virtio_disk_intr() tells a process that its request is finished.
LEMMA UsedStep ==
  ASSUME DInv, disk_intr_used
  PROVE  DInv'
<1>1. /\ disk.used \in Buffer(NUM, Desc) /\ disk.used_ring_idx \in Index(IDX) /\ disk.used_idx \in Index(IDX)
      /\ served \in Seq(Desc) /\ disk.used_idx # disk.used_ring_idx
      /\ disk \in DiskState /\ pc \in [Proc -> Place]
  BY DiskFields DEF DInv, DiskTypes, ProcTypes, disk_intr_used
<1>2. PICK id : id = disk.used[disk.used_idx % NUM]
  OBVIOUS
<1>3. /\ served # <<>> /\ id = Head(served) /\ id \in Desc
      /\ ring(disk.used, NUM, IDX, (disk.used_idx + 1) % IDX, disk.used_ring_idx) = Tail(served)
  BY ONLY <1>1, <1>2, SizeFacts, RingGet DEF served
<1>4. Once(Tail(served)) /\ Entries(Tail(served)) = Entries(served) \ {id} /\ id \in Entries(served)
  BY <1>1, <1>3, TailOnce DEF DInv, Transfers
<1>5. PICK p : p = disk.b[id]
  OBVIOUS
<1>6. p \in busy /\ left[p] = id /\ p \in requesters /\ data[p] = dev.store[call[p].arg]
  BY <1>4, <1>5 DEF DInv, Transfers, Moved
<1>7. /\ busy' = busy \ {p}
      /\ pc' = [q \in Proc |-> IF q = p /\ pc[q] = "buf" THEN "rw_wait" ELSE pc[q]]
      /\ disk' = [disk EXCEPT !.used_idx = (@ + 1) % IDX]
      /\ UNCHANGED <<prog, call, left, killed, victims, dev, data>>
  BY <1>2, <1>5 DEF disk_intr_used
<1>8. /\ disk'.used_idx = (disk.used_idx + 1) % IDX
      /\ disk'.status = disk.status /\ disk'.used = disk.used /\ disk'.used_ring_idx = disk.used_ring_idx
      /\ disk'.free = disk.free /\ disk'.next = disk.next /\ disk'.addr = disk.addr /\ disk'.ops = disk.ops
      /\ disk'.b = disk.b /\ disk'.avail = disk.avail /\ disk'.avail_idx = disk.avail_idx
  BY ONLY <1>1, <1>7 DEF DiskState
<1>9. requesters' = requesters
  BY <1>1, <1>7 DEF requesters
<1>10. ProcTypes'
  <2>1. pc' \in [Proc -> Place]
    BY <1>1, <1>7 DEF Place
  <2>2. \A q \in Proc : pc'[q] \in {"putc", "uart_tx_r"} => left'[q] > 0
    BY <1>7 DEF DInv, ProcTypes
  <2> QED BY <1>7, <2>1, <2>2 DEF DInv, ProcTypes
<1>11. Args'
  <2>1. \A q \in Proc : pc'[q] \in AtDisk => pc[q] \in AtDisk /\ call'[q] = call[q]
    BY <1>7 DEF AtDisk
  <2> QED BY <2>1, SameArgs DEF DInv
<1>12. DiskTypes'
  <2>1. (disk.used_idx + 1) % IDX \in Index(IDX)
    BY <1>1, SpanStep
  <2>2. disk' \in DiskState
    BY <1>1, <1>7, <2>1 DEF DiskState
  <2> QED BY <1>7, <2>2 DEF DInv, DiskTypes
<1>13. Chains' /\ Counts'
  BY <1>7, <1>8, <1>9, SameChains DEF DInv
<1>14. served' = Tail(served) /\ waiting' = waiting
  BY <1>3, <1>7, <1>8 DEF served, waiting
<1>15. Transfers'
  <2>1. ASSUME NEW i \in Entries(waiting) \cup dev.inflight \cup Entries(served), i # id
        PROVE  disk.b[i] \in busy \ {p} /\ left[disk.b[i]] = i
    BY <1>6, <2>1 DEF DInv, Transfers
  <2>2. id \notin Entries(waiting) /\ id \notin dev.inflight
    BY <1>4 DEF DInv, Transfers
  <2> QED BY <1>4, <1>7, <1>8, <1>9, <1>14, <2>1, <2>2 DEF DInv, Transfers
<1>16. Moved'
  BY <1>4, <1>6, <1>7, <1>8, <1>9, <1>14 DEF DInv, Moved
<1> QED BY <1>10, <1>11, <1>12, <1>13, <1>15, <1>16 DEF DInv

\* No request at first.
LEMMA InitDisk == Init => DInv
<1> SUFFICES ASSUME Init PROVE DInv
  OBVIOUS
<1>1. /\ pc = [p \in Proc |-> "user"] /\ call = [p \in Proc |-> NoCall] /\ left = [p \in Proc |-> 0]
      /\ killed = {} /\ busy = {} /\ disk = virtio_disk_init /\ data = [p \in Proc |-> None]
      /\ dev = [store |-> [b \in Block |-> None], seen |-> 0, inflight |-> {}, irq |-> FALSE]
  BY DEF Init, NoCall
<1>2. requesters = {} /\ \A p \in Proc : pc[p] \notin AtDisk
  BY <1>1 DEF requesters, AtDisk
<1>3. 0 \in Index(IDX) /\ span(0, 0, IDX) = 0 /\ 0 \in Desc
  BY DEF Index, span, Desc
<1>4. ProcTypes
  <2>1. prog \in [Proc -> Seq(BlockCall \cup CountCall)] /\ victims \subseteq Proc
    BY DevicesAssumption DEF Init
  <2> QED BY <1>1, <2>1 DEF ProcTypes, Place
<1>5. DiskTypes
  <2>1. disk \in DiskState
    BY <1>1, <1>3 DEF virtio_disk_init, DiskState, NoCall, Buffer, Index, Desc
  <2>2. [b \in Block |-> None] \in [Block -> Proc \cup {None}] /\ {} \in SUBSET Desc
    OBVIOUS
  <2>3. FALSE \in BOOLEAN
    BY Zenon
  <2>4. dev \in DevState
    BY <1>1, <1>3, <2>2, <2>3, DevRecord, Zenon DEF DevState
  <2> QED BY <1>1, <2>1, <2>4 DEF DiskTypes
<1>6. /\ disk.free = Desc /\ disk.avail_idx = 0 /\ disk.used_idx = 0 /\ disk.used_ring_idx = 0
      /\ dev.seen = 0 /\ dev.inflight = {}
  BY <1>1 DEF virtio_disk_init
<1>7. waiting = <<>> /\ served = <<>>
  BY <1>3, <1>6 DEF waiting, served, ring
<1>8. Args /\ Chains
  BY <1>2 DEF Args, Chains
<1>9. Counts
  <2>1. Cardinality(requesters) = 0 /\ Cardinality(disk.free) = NUM
    BY <1>2, <1>6, FS_EmptySet, DescCount
  <2> QED BY <2>1 DEF Counts
<1>10. Entries(<<>>) = {} /\ Once(<<>>)
  BY DEF Entries, Once
<1>11. Transfers
  BY <1>1, <1>2, <1>6, <1>7, <1>10 DEF Transfers
<1>12. Moved
  BY <1>2, <1>7, <1>10 DEF Moved
<1> QED BY <1>4, <1>5, <1>8, <1>9, <1>11, <1>12 DEF DInv

\* Every step preserves the invariant.
LEMMA DiskStep == DInv /\ [Next]_vars => DInv'
<1> SUFFICES ASSUME DInv, [Next]_vars PROVE DInv'
  OBVIOUS
<1>0. /\ ProcTypes /\ DiskTypes /\ Args /\ Chains /\ Counts /\ Transfers /\ Moved
  BY DEF DInv
<1>1. ASSUME ProcTypes', Quiet, dev' \in DevState PROVE DInv'
  <2>1. DiskTypes'
    BY <1>0, <1>1 DEF DiskTypes, Quiet
  <2> QED BY <1>0, <1>1, <2>1, QuietStep DEF DInv
<1>2. dev \in DevState
  BY <1>0 DEF DiskTypes
<1>3. ASSUME NEW p \in Proc,
             \/ usertrap_exit(p) \/ kill(p) \/ alloc_fail(p) \/ consolewrite(p) \/ uartputc(p) \/ uartstart(p)
             \/ consoleread(p) \/ read_sleep(p) \/ sys_sleep(p) \/ sleep_sleep(p)
      PROVE  DInv'
  <2>1. dev' = dev
    BY <1>3 DEF usertrap_exit, kill, alloc_fail, consolewrite, uartputc, uartstart, consoleread, read_sleep,
                sys_sleep, sleep_sleep, diskVars
  <2>2. ProcTypes' /\ Quiet
    BY <1>0, <1>3, ProcQuiet
  <2> QED BY <1>1, <1>2, <2>1, <2>2
<1>4. ASSUME clockintr \/ devintr_uart \/ uart_transmit \/ uart_receive \/ UNCHANGED vars PROVE DInv'
  BY <1>0, <1>1, <1>2, <1>4, DeviceQuiet DEF diskVars
<1>5. ASSUME NEW p \in Proc, rw_wait(p) PROVE DInv'
  <2>1. CASE finished(p)
    BY <1>5, <2>1, FinishStep
  <2>2. CASE ~finished(p)
    <3>1. /\ pc' = [pc EXCEPT ![p] = "buf"] /\ pc[p] = "rw_wait"
          /\ UNCHANGED <<prog, call, left, killed, victims, disk, dev, data, busy>>
      BY <1>5, <2>2 DEF rw_wait, goto, at
    <3>2. ProcTypes'
      BY <1>0, <3>1 DEF ProcTypes, Place, Channel
    <3>3. Quiet
      BY <1>0, <3>1 DEF Quiet, ProcTypes, AtDisk
    <3> QED BY <1>1, <1>2, <3>1, <3>2, <3>3
  <2> QED BY <2>1, <2>2
<1>6. ASSUME disk_intr \/ disk_intr_end PROVE DInv'
  <2>1. /\ UNCHANGED <<procVars, disk, data, busy>>
        /\ dev' = dev \/ dev' = [dev EXCEPT !.irq = FALSE]
    BY <1>6 DEF disk_intr, disk_intr_end
  <2>2. dev'.seen = dev.seen /\ dev'.inflight = dev.inflight /\ dev'.store = dev.store
    BY <1>2, <2>1 DEF DevState
  <2>3. dev' \in DevState
    <3>1. CASE dev' = dev
      BY <1>2, <3>1
    <3>2. CASE dev' = [dev EXCEPT !.irq = FALSE]
      <4>1. /\ dev' = [store |-> dev.store, seen |-> dev.seen, inflight |-> dev.inflight, irq |-> FALSE]
            /\ dev.store \in [Block -> Proc \cup {None}] /\ dev.seen \in Index(IDX) /\ dev.inflight \in SUBSET Desc
        BY <1>2, <3>2 DEF DevState
      <4>2. FALSE \in BOOLEAN
        BY Zenon
      <4> QED BY <4>1, <4>2, DevRecord, Zenon DEF DevState
    <3> QED BY <2>1, <3>1, <3>2
  <2>4. ProcTypes'
    BY <1>0, <2>1, SameProcs
  <2>5. Quiet
    BY <2>1, <2>2 DEF Quiet, procVars
  <2> QED BY <1>1, <2>3, <2>4, <2>5
<1> QED BY <1>3, <1>4, <1>5, <1>6, SyscallStep, RequestStep, TakeStep, ServeStep, UsedStep
        DEF Next, ProcStep, disk_step, devintr_disk

\* What the invariants say of the driver.
LEMMA DiskFacts == DInv /\ Transmit /\ Input => DiskCorrect
<1> SUFFICES ASSUME DInv, Transmit, Input PROVE DiskCorrect
  OBVIOUS
<1>1. TypeOK
  <2>1. disk.free \subseteq Desc /\ dev.inflight \subseteq Desc
    BY DiskFields DEF DInv
  <2>2. busy \subseteq Proc
    BY DEF DInv, Transfers, requesters
  <2>3. cons.r \in 0..(U - 1) /\ cons.w \in 0..(U - 1) /\ cons.e \in 0..(U - 1)
        /\ minus(cons.e, cons.r) <= INPUT_BUF_SIZE
    BY DEF Input, Index, minus, span
  <2>4. minus(uart.w, uart.r) <= UART_TX_BUF_SIZE /\ Len(port.fifo) <= 2
    BY DEF Transmit, minus, span
  <2> QED BY <2>1, <2>2, <2>3, <2>4 DEF TypeOK, DInv, ProcTypes, Place
<1>2. ASSUME NEW p \in requesters
      PROVE  /\ chain(left[p]) \cap disk.free = {} /\ Cardinality(chain(left[p])) = 3
             /\ \A q \in requesters \ {p} : chain(left[p]) \cap chain(left[q]) = {}
             /\ disk.b[left[p]] = p
             /\ (pc[p] = "rw_wait" /\ finished(p)) => data[p] = dev.store[call[p].arg]
  <2>1. \A q \in requesters : chain(left[q]) = Links(disk.next, left[q]) /\ Cardinality(chain(left[q])) = 3
    BY ChainIs DEF DInv, Chains
  <2>2. chain(left[p]) \cap disk.free = {} /\ disk.b[left[p]] = p
    BY <2>1 DEF DInv, Chains
  <2>3. \A q \in requesters \ {p} : chain(left[p]) \cap chain(left[q]) = {}
    BY <2>1 DEF DInv, Chains
  <2>4. finished(p) => data[p] = dev.store[call[p].arg]
    BY DEF DInv, Moved, finished
  <2> QED BY <2>1, <2>2, <2>3, <2>4
<1>3. ASSUME disk.used_idx # disk.used_ring_idx, NEW id, id = disk.used[disk.used_idx % NUM]
      PROVE  disk.status[id] = 0 /\ disk.b[id] \in requesters \cap busy
  <2>1. /\ disk.used \in Buffer(NUM, Desc) /\ disk.used_ring_idx \in Index(IDX) /\ disk.used_idx \in Index(IDX)
        /\ served \in Seq(Desc)
    BY DiskFields DEF DInv
  <2>2. served # <<>> /\ id = Head(served)
    BY ONLY <1>3, <2>1, SizeFacts, RingGet DEF served
  <2>3. id \in Entries(served)
    BY <2>1, <2>2, TailOnce DEF DInv, Transfers
  <2> QED BY <2>3 DEF DInv, Transfers, Moved
<1>4. Cardinality(disk.free) = NUM - 3 * Cardinality(requesters)
  BY DEF DInv, Counts
<1> QED BY <1>1, <1>2, <1>3, <1>4 DEF DiskCorrect

\* A request the driver takes for finished is, and has moved its own block;
\* descriptors are neither lost nor shared.
THEOREM RequestsCorrect == Spec => []DiskCorrect
  BY InitRings, OutputStep, InputStep, InitDisk, DiskStep, DiskFacts, PTL DEF Spec
=============================================================================
