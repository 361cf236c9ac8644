--------------------------- MODULE RadioNodeProofs ---------------------------
(***************************************************************************)
(* Proofs about RadioNode, for any FIFO, any depth of recursion, any       *)
(* number of packets and timers, and a main program that does any of what  *)
(* the sketches do: unless the main program itself sends or sets the       *)
(* address with interrupts enabled, the chip is never shared with an       *)
(* interrupt; and unless an interrupt has cut into that, the chip receives *)
(* when all is done, though each access to it is a step of its own.        *)
(***************************************************************************)
EXTENDS RadioNode, SequenceTheorems, TLAPS

\* Frames that have the next one below them as their continuation: nrf24_idle_mode
\* called by nrf24_tx, setAddress or the end of a transmission, and what nrf24_tx
\* does after it.
Dips == {"idle", "rxOff", "rxKeep"}

\* Frames of functions that have called another.
Waits == {"available", "read", "checked", "fragment", "sent", "attach", "sei", "level"}

\* What may be directly below a frame.
Under(f) ==
  IF f \in {"idle", "rxOff"} THEN {"rxKeep", "rxAddr", "rxMode"}
  ELSE IF f = "rxKeep" THEN {"txConfig"}
  ELSE Waits

\* Frames that lead back to reception.
Returning == {"rxKeep", "rxAddr", "rxMode", "rxConfig", "rxPipe", "rxCe", "rxOn"}

\* Every frame is above one that may have called it.
WellNested(q) ==
  /\ q # <<>> => q[1] \notin Dips
  /\ \A i \in 2 .. Len(q) : q[i - 1] \in Under(q[i])

\* Only the first frame of the main program enables interrupts, and until it does
\* they are disabled and there is none.
Masked ==
  /\ \A i \in 2 .. Len(stack["main"]) : stack["main"][i] \notin {"attach", "sei"}
  /\ (stack["main"] # <<>> /\ stack["main"][1] \in {"attach", "sei"})
       => (I = FALSE /\ stack["isr"] = <<>>)

\* The part of the invariant about stacks: and unless an interrupt has cut into
\* the main program, one of the two is idle.
StackInv ==
  /\ stack \in [Contexts -> Seq(Frames)]
  /\ \A c \in Contexts : WellNested(stack[c])
  /\ Masked
  /\ cut \/ stack["main"] = <<>> \/ stack["isr"] = <<>>

\* The part about nrf24_in_rx, which holds even after an interrupt has cut in: it is
\* down only while a context is on its way back to reception.
Comes(c) == \E i \in 1 .. Len(stack[c]) : stack[c][i] \in Returning

ReturnInv == in_rx = TRUE \/ Comes("main") \/ Comes("isr")

FlagsType ==
  /\ in_rx \in BOOLEAN /\ PRIM_RX \in BOOLEAN /\ CE \in BOOLEAN
  /\ EN_RXADDR \in {0, 1}

\* What the context that runs may rely on, by the frame it is in.
Good == PRIM_RX = TRUE /\ EN_RXADDR = 1 /\ CE = TRUE /\ in_rx = TRUE

Sending == {"txMode", "idle", "txConfig", "txPipe", "payload", "txCe", "result", "txDone"}
Calm == Frames \ (Sending \cup Dips \cup Returning)

RightAt(f) ==
  /\ f \in Calm => Good
  /\ f \in Sending => in_rx = TRUE
  /\ f = "rxAddr" => in_rx = FALSE
  /\ f = "rxMode" => (Good \/ in_rx = FALSE)
  /\ f \in {"rxPipe", "rxCe", "rxOn"} => PRIM_RX = TRUE
  /\ f \in {"rxCe", "rxOn"} => EN_RXADDR = 1
  /\ f = "rxOn" => CE = TRUE

\* The part about the chip: unless an interrupt has cut in, it is where the one
\* context that is not idle has brought it, and receives when there is none.
ModeInv ==
  /\ \A c \in Contexts : (~cut /\ stack[c] # <<>>) => RightAt(Top(c))
  /\ (~cut /\ stack["main"] = <<>> /\ stack["isr"] = <<>>) => Good

IInv == StackInv /\ ReturnInv /\ FlagsType /\ ModeInv

-----------------------------------------------------------------------------
\* s may take the place of frame f.
Nested(f, s) ==
  /\ \A i \in 1 .. Len(s) : s[i] \notin {"attach", "sei"}
  /\ s # <<>> => (Under(s[1]) = Under(f) /\ (s[1] \in Dips => f \in Dips))
  /\ \A i \in 2 .. Len(s) : s[i - 1] \in Under(s[i])

\* What replacing the innermost frame does to the stacks.
LEMMA BecomeFrames ==
  ASSUME StackInv, NEW c \in Contexts, NEW f, Inside(c, f),
         NEW s \in Seq(Frames), Become(c, s)
  PROVE  /\ c = Active /\ stack[c] \in Seq(Frames) /\ stack[c] # <<>>
         /\ Len(stack[c]) \in Nat \ {0} /\ stack[c][Len(stack[c])] = f
         /\ stack' = [stack EXCEPT ![c] = stack'[c]]
         /\ stack'[c] \in Seq(Frames)
         /\ Len(stack'[c]) = Len(stack[c]) - 1 + Len(s)
         /\ \A i \in 1 .. (Len(stack[c]) - 1) : stack'[c][i] = stack[c][i]
         /\ \A i \in 1 .. Len(s) : stack'[c][Len(stack[c]) - 1 + i] = s[i]
<1>1. stack[c] \in Seq(Frames) /\ stack[c] # <<>> /\ c = Active
      /\ stack[c][Len(stack[c])] = f
  BY DEF StackInv, Inside, Top, Depth
<1>2. Len(stack[c]) \in Nat \ {0}
  BY <1>1
<1>. DEFINE b == Below(c)
<1>3. /\ b \in Seq(Frames) /\ Len(b) = Len(stack[c]) - 1
      /\ \A i \in 1 .. (Len(stack[c]) - 1) : b[i] = stack[c][i]
  BY <1>1, <1>2 DEF Below, Depth
<1>4. stack' = [stack EXCEPT ![c] = b \o s] /\ stack'[c] = b \o s
  BY DEF Become, StackInv
<1>. HIDE DEF b
<1>6. b \in Seq(Frames)
  BY <1>3
<1>5. /\ b \o s \in Seq(Frames) /\ Len(b \o s) = Len(b) + Len(s)
      /\ \A i \in 1 .. Len(b) : (b \o s)[i] = b[i]
      /\ \A i \in 1 .. Len(s) : (b \o s)[Len(b) + i] = s[i]
  BY <1>6
<1>. QED
  BY <1>1, <1>2, <1>3, <1>4, <1>5

\* Where the frames that are put in are in the stack that results.
LEMMA Shifted ==
  ASSUME NEW n \in Nat \ {0}, NEW k \in Nat, NEW i \in 2 .. (n - 1 + k), i > n
  PROVE  /\ i - n + 1 \in 2 .. k /\ i - n + 1 \in 1 .. k /\ (i - n + 1) - 1 \in 1 .. k
         /\ n - 1 + (i - n + 1) = i /\ n - 1 + ((i - n + 1) - 1) = i - 1
OBVIOUS

\* Frames that may take the place of the innermost one leave a well nested stack.
LEMMA NestedStep ==
  ASSUME NEW q \in Seq(Frames), NEW t \in Seq(Frames), NEW s \in Seq(Frames), NEW f,
         q # <<>>, q[Len(q)] = f, WellNested(q), Nested(f, s),
         Len(t) = Len(q) - 1 + Len(s),
         \A i \in 1 .. (Len(q) - 1) : t[i] = q[i],
         \A i \in 1 .. Len(s) : t[Len(q) - 1 + i] = s[i]
  PROVE  /\ WellNested(t)
         /\ (s # <<>>) => (t # <<>> /\ t[Len(t)] = s[Len(s)])
         /\ (s = <<>> /\ t # <<>>) => t[Len(t)] \in Under(f)
         /\ (s = <<>> /\ t = <<>>) => f \notin Dips
<1>. DEFINE n == Len(q)
<1>0. n \in Nat \ {0} /\ Len(s) \in Nat /\ Len(t) \in Nat /\ Len(t) = n - 1 + Len(s)
  OBVIOUS
<1>s. s # <<>> <=> Len(s) # 0
  OBVIOUS
<1>t. t # <<>> <=> Len(t) # 0
  OBVIOUS
<1>1. /\ q[n] = f /\ q[1] \notin Dips
      /\ \A i \in 2 .. n : q[i - 1] \in Under(q[i])
  BY DEF WellNested
<1>2. /\ \A i \in 1 .. (n - 1) : t[i] = q[i]
      /\ \A i \in 1 .. Len(s) : t[n - 1 + i] = s[i]
  OBVIOUS
<1>3. /\ s # <<>> => (Under(s[1]) = Under(f) /\ (s[1] \in Dips => f \in Dips))
      /\ \A i \in 2 .. Len(s) : s[i - 1] \in Under(s[i])
  BY DEF Nested
<1>. HIDE DEF n
<1>4. n > 1 => (q[n - 1] \in Under(f) /\ t[n - 1] = q[n - 1])
  <2>1. n > 1 => (n \in 2 .. n /\ n - 1 \in 1 .. (n - 1))
    BY <1>0
  <2>. QED
    BY <1>1, <1>2, <2>1
<1>5. t # <<>> => t[1] \notin Dips
  <2>. SUFFICES ASSUME t # <<>> PROVE t[1] \notin Dips
    OBVIOUS
  <2>1. CASE n > 1
    <3>1. 1 \in 1 .. (n - 1)
      BY <1>0, <2>1
    <3>. QED
      BY <1>1, <1>2, <3>1
  <2>2. CASE n = 1
    <3>1. s # <<>> /\ 1 \in 1 .. Len(s)
      BY <1>0, <1>s, <1>t, <2>2
    <3>2. t[1] = s[1]
      <4>1. t[n - 1 + 1] = s[1]
        BY <1>2, <3>1
      <4>. QED
        BY <2>2, <4>1
    <3>3. f \notin Dips
      BY <1>1, <2>2
    <3>. QED
      BY <1>3, <3>1, <3>2, <3>3
  <2>. QED
    BY <1>0, <2>1, <2>2
<1>6. ASSUME NEW i \in 2 .. Len(t) PROVE t[i - 1] \in Under(t[i])
  <2>1. CASE i < n
    <3>1. i \in 2 .. n /\ i \in 1 .. (n - 1) /\ i - 1 \in 1 .. (n - 1)
      BY <1>0, <2>1
    <3>2. t[i] = q[i] /\ t[i - 1] = q[i - 1] /\ q[i - 1] \in Under(q[i])
      BY <1>1, <1>2, <3>1
    <3>. QED
      BY <3>2
  <2>2. CASE i = n
    <3>1. s # <<>> /\ 1 \in 1 .. Len(s) /\ n > 1
      BY <1>0, <1>6, <1>s, <2>2
    <3>2. t[i] = s[1]
      <4>1. t[n - 1 + 1] = s[1]
        BY <1>2, <3>1
      <4>2. n - 1 + 1 = i
        BY <1>0, <2>2
      <4>. QED
        BY <4>1, <4>2
    <3>3. t[i - 1] \in Under(f)
      BY <1>4, <2>2, <3>1
    <3>. QED
      BY <1>3, <3>1, <3>2, <3>3
  <2>3. CASE i > n
    <3>1. PICK j : j = i - n + 1
      OBVIOUS
    <3>2. j \in 2 .. Len(s) /\ j \in 1 .. Len(s) /\ j - 1 \in 1 .. Len(s)
          /\ n - 1 + j = i /\ n - 1 + (j - 1) = i - 1
      <4>1. i \in 2 .. (n - 1 + Len(s))
        BY <1>0, <1>6
      <4>. QED
        BY <1>0, <2>3, <3>1, <4>1, Shifted
    <3>3. t[i] = s[j] /\ t[i - 1] = s[j - 1]
      BY <1>2, <3>2
    <3>. QED
      BY <1>3, <3>2, <3>3
  <2>. QED
    BY <1>0, <2>1, <2>2, <2>3
<1>7. s # <<>> => (t # <<>> /\ t[Len(t)] = s[Len(s)])
  <2>1. s # <<>> => (Len(s) \in 1 .. Len(s) /\ Len(t) = n - 1 + Len(s) /\ Len(t) # 0)
    BY <1>0, <1>s
  <2>. QED
    BY <1>2, <1>t, <2>1
<1>8. s = <<>> /\ t # <<>> => t[Len(t)] \in Under(f)
  <2>1. (s = <<>> /\ t # <<>>) => (Len(t) = n - 1 /\ n > 1)
    BY <1>0, <1>s, <1>t
  <2>. QED
    BY <1>4, <2>1
<1>9. s = <<>> /\ t = <<>> => f \notin Dips
  <2>1. (s = <<>> /\ t = <<>>) => n = 1
    BY <1>0, <1>s, <1>t
  <2>. QED
    BY <1>1, <2>1
<1>10. WellNested(t)
  BY <1>5, <1>6 DEF WellNested
<1>. QED
  BY <1>7, <1>8, <1>9, <1>10

\* A step of a context: frames that may follow take the place of its innermost.
LEMMA StackStep ==
  ASSUME StackInv, NEW c \in Contexts, NEW f, Inside(c, f), f \notin {"attach", "sei"},
         NEW s \in Seq(Frames), Become(c, s), Nested(f, s), UNCHANGED <<I, cut>>
  PROVE  StackInv'
<1>. DEFINE q == stack[c]
            t == stack'[c]
<1>1. /\ c = Active /\ q \in Seq(Frames) /\ q # <<>>
      /\ Len(q) \in Nat \ {0} /\ q[Len(q)] = f
      /\ stack' = [stack EXCEPT ![c] = t]
      /\ t \in Seq(Frames)
      /\ Len(t) = Len(q) - 1 + Len(s)
      /\ \A i \in 1 .. (Len(q) - 1) : t[i] = q[i]
      /\ \A i \in 1 .. Len(s) : t[Len(q) - 1 + i] = s[i]
  BY BecomeFrames
<1>2. WellNested(q)
  BY DEF StackInv
<1>3. WellNested(t)
  <2>. HIDE DEF q, t
  <2>. QED
    BY <1>1, <1>2, NestedStep
<1>4. stack' \in [Contexts -> Seq(Frames)]
  BY <1>1 DEF StackInv
<1>5. \A x \in Contexts : x # c => stack'[x] = stack[x]
  BY <1>1 DEF StackInv
<1>6. \A x \in Contexts : WellNested(stack'[x])
  BY <1>3, <1>5 DEF StackInv
<1>7. cut' \/ stack'["main"] = <<>> \/ stack'["isr"] = <<>>
  BY <1>1, <1>5 DEF StackInv, Contexts
<1>8. CASE c = "isr"
  <2>1. stack'["main"] = stack["main"]
    BY <1>5, <1>8 DEF Contexts
  <2>2. stack["main"] # <<>> => stack["main"][1] \notin {"attach", "sei"}
    BY <1>1, <1>8 DEF StackInv, Masked
  <2>3. Masked'
    BY <2>1, <2>2 DEF StackInv, Masked
  <2>. QED
    BY <1>4, <1>6, <1>7, <2>3 DEF StackInv
<1>9. CASE c = "main"
  <2>1. stack["isr"] = <<>> /\ stack'["isr"] = <<>>
    BY <1>1, <1>5, <1>9 DEF Active, Contexts
  <2>2. \A i \in 1 .. Len(s) : s[i] \notin {"attach", "sei"}
    BY DEF Nested
  <2>3. \A i \in 2 .. Len(q) : q[i] \notin {"attach", "sei"}
    BY <1>9 DEF StackInv, Masked
  <2>4. (q[1] \in {"attach", "sei"}) => I = FALSE
    BY <1>1, <1>9 DEF StackInv, Masked
  <2>. HIDE DEF q, t
  <2>5. ASSUME NEW i \in 1 .. Len(t), t[i] \in {"attach", "sei"}
        PROVE  i = 1 /\ q[1] \in {"attach", "sei"}
    <3>1. CASE i < Len(q)
      <4>1. t[i] = q[i] /\ i \in 1 .. Len(q)
        BY <1>1, <2>5, <3>1
      <4>2. i \notin 2 .. Len(q)
        BY <2>3, <2>5, <4>1
      <4>3. i = 1
        BY <1>1, <4>1, <4>2
      <4>. QED
        BY <2>5, <4>1, <4>3
    <3>2. CASE ~(i < Len(q))
      <4>0. PICK n \in Nat \ {0} : n = Len(q)
        BY <1>1
      <4>1. i \in Int /\ i <= n - 1 + Len(s) /\ i >= n /\ Len(s) \in Nat
        BY <1>1, <2>5, <3>2, <4>0
      <4>2. i - n + 1 \in 1 .. Len(s) /\ n - 1 + (i - n + 1) = i
        BY <4>0, <4>1
      <4>3. \A k \in 1 .. Len(s) : t[n - 1 + k] = s[k]
        BY <1>1, <4>0
      <4>4. t[i] = s[i - n + 1]
        BY <4>2, <4>3
      <4>. QED
        BY <2>2, <2>5, <4>2, <4>4
    <3>. QED
      BY <3>1, <3>2
  <2>6. \A i \in 2 .. Len(t) : t[i] \notin {"attach", "sei"}
    BY <1>1, <2>5
  <2>7. (t # <<>> /\ t[1] \in {"attach", "sei"}) => I = FALSE
    <3>0. t \in Seq(Frames)
      BY <1>1
    <3>1. t # <<>> => 1 \in 1 .. Len(t)
      BY <3>0
    <3>. QED
      BY <2>4, <2>5, <3>1
  <2>8. stack'["main"] = t /\ I' = I
    BY <1>9 DEF t
  <2>9. Masked'
    BY <2>1, <2>6, <2>7, <2>8 DEF Masked
  <2>. QED
    BY <1>4, <1>6, <1>7, <2>9 DEF StackInv
<1>. QED
  BY <1>8, <1>9 DEF Contexts

\* A step keeps nrf24_in_rx set, or a context that comes back to reception.
LEMMA ReturnStep ==
  ASSUME StackInv, ReturnInv, NEW c \in Contexts, NEW f, Inside(c, f),
         NEW s \in Seq(Frames), Become(c, s),
         \/ in_rx' = TRUE
         \/ f = "rxOff" /\ s = <<>>
         \/ \E i \in 1 .. Len(s) : s[i] \in Returning
         \/ in_rx' = in_rx /\ f \notin Returning
  PROVE  ReturnInv'
<1>. DEFINE q == stack[c]
            t == stack'[c]
<1>1. /\ q \in Seq(Frames) /\ q # <<>>
      /\ Len(q) \in Nat \ {0} /\ q[Len(q)] = f
      /\ stack' = [stack EXCEPT ![c] = t]
      /\ t \in Seq(Frames)
      /\ Len(t) = Len(q) - 1 + Len(s)
      /\ \A i \in 1 .. (Len(q) - 1) : t[i] = q[i]
      /\ \A i \in 1 .. Len(s) : t[Len(q) - 1 + i] = s[i]
  BY BecomeFrames
<1>2. \A x \in Contexts : x # c => stack'[x] = stack[x]
  BY <1>1 DEF StackInv
<1>3. ASSUME NEW i \in 1 .. Len(t), t[i] \in Returning PROVE ReturnInv'
  <2>1. Comes(c)'
    BY <1>3 DEF Comes
  <2>. QED
    BY <2>1 DEF ReturnInv, Contexts
<1>4. ASSUME NEW i \in 1 .. (Len(q) - 1), q[i] \in Returning PROVE ReturnInv'
  <2>. HIDE DEF q, t
  <2>1. i \in 1 .. Len(t) /\ t[i] \in Returning
    <3>1. Len(s) \in Nat
      OBVIOUS
    <3>. QED
      BY <1>1, <1>4, <3>1
  <2>. QED
    BY <1>3, <2>1
<1>5. CASE in_rx' = TRUE
  BY <1>5 DEF ReturnInv
<1>6. CASE f = "rxOff" /\ s = <<>>
  <2>1. WellNested(q)
    BY DEF StackInv
  <2>. HIDE DEF q
  <2>2. Len(q) # 1
    BY <1>1, <1>6, <2>1 DEF WellNested, Dips
  <2>l. PICK n \in Nat \ {0} : n = Len(q)
    BY <1>1
  <2>m. n \in 2 .. n /\ n - 1 \in 1 .. (n - 1)
    BY <2>l, <2>2
  <2>3. Len(q) \in 2 .. Len(q) /\ Len(q) - 1 \in 1 .. (Len(q) - 1)
    BY <2>l, <2>m
  <2>4. q[Len(q) - 1] \in Under(f)
    BY <1>1, <2>1, <2>3 DEF WellNested
  <2>5. q[Len(q) - 1] \in Returning
    BY <1>6, <2>4 DEF Under, Returning
  <2>. QED
    BY <1>4, <2>3, <2>5
<1>7. ASSUME NEW i \in 1 .. Len(s), s[i] \in Returning PROVE ReturnInv'
  <2>. HIDE DEF q, t
  <2>l. Len(q) \in Nat \ {0} /\ Len(t) = Len(q) - 1 + Len(s) /\ Len(s) \in Nat
    BY <1>1
  <2>0. PICK j \in Int : j = Len(q) - 1 + i
    BY <2>l
  <2>2. t[j] = s[i]
    BY <1>1, <2>0
  <2>1. j \in 1 .. Len(t) /\ t[j] \in Returning
    BY <1>7, <2>l, <2>0, <2>2
  <2>. QED
    BY <1>3, <2>1
<1>8. CASE in_rx' = in_rx /\ f \notin Returning
  <2>1. CASE in_rx = TRUE
    BY <1>8, <2>1 DEF ReturnInv
  <2>2. ASSUME NEW x \in Contexts, Comes(x) PROVE ReturnInv'
    <3>1. CASE x = c
      <4>1. PICK i \in 1 .. Len(q) : q[i] \in Returning
        BY <2>2, <3>1 DEF Comes
      <4>. HIDE DEF q
      <4>2. i # Len(q)
        BY <1>1, <1>8, <4>1
      <4>3. i \in 1 .. (Len(q) - 1)
        BY <1>1, <4>2
      <4>. QED
        BY <1>4, <4>1, <4>3
    <3>2. CASE x # c
      <4>1. Comes(x)'
        BY <1>2, <2>2, <3>2 DEF Comes
      <4>. QED
        BY <4>1 DEF ReturnInv, Contexts
    <3>. QED
      BY <3>1, <3>2
  <2>. QED
    BY <2>1, <2>2 DEF ReturnInv, Contexts
<1>. QED
  BY <1>5, <1>6, <1>7, <1>8

\* A step brings the chip where the frame that follows expects it.
LEMMA ModeStep ==
  ASSUME StackInv, NEW c \in Contexts, NEW f, Inside(c, f),
         NEW s \in Seq(Frames), Become(c, s), Nested(f, s), UNCHANGED cut,
         (~cut /\ s # <<>>) => RightAt(s[Len(s)])',
         (~cut /\ s = <<>>) => \A g \in Under(f) : RightAt(g)',
         (~cut /\ s = <<>> /\ f \notin Dips) => Good'
  PROVE  ModeInv'
<1>. DEFINE q == stack[c]
            t == stack'[c]
<1>1. /\ c = Active /\ q \in Seq(Frames) /\ q # <<>>
      /\ Len(q) \in Nat \ {0} /\ q[Len(q)] = f
      /\ stack' = [stack EXCEPT ![c] = t]
      /\ t \in Seq(Frames)
      /\ Len(t) = Len(q) - 1 + Len(s)
      /\ \A i \in 1 .. (Len(q) - 1) : t[i] = q[i]
      /\ \A i \in 1 .. Len(s) : t[Len(q) - 1 + i] = s[i]
  BY BecomeFrames
<1>2. WellNested(q)
  BY DEF StackInv
<1>3. /\ (s # <<>>) => (t # <<>> /\ t[Len(t)] = s[Len(s)])
      /\ (s = <<>> /\ t # <<>>) => t[Len(t)] \in Under(f)
      /\ (s = <<>> /\ t = <<>>) => f \notin Dips
  <2>. HIDE DEF q, t
  <2>. QED
    BY <1>1, <1>2, NestedStep
<1>4. ASSUME ~cut PROVE \A x \in Contexts : x # c => stack'[x] = <<>>
  BY <1>1, <1>4 DEF StackInv, Contexts
<1>. PICK h : h = t[Len(t)]
  OBVIOUS
<1>5. ASSUME ~cut, t # <<>> PROVE RightAt(h)'
  <2>1. CASE s # <<>>
    <3>1. h = s[Len(s)]
      BY <1>3, <2>1
    <3>. QED
      BY <1>5, <2>1, <3>1
  <2>2. CASE s = <<>>
    <3>1. h \in Under(f)
      BY <1>3, <1>5, <2>2
    <3>. QED
      BY <1>5, <2>2, <3>1
  <2>. QED
    BY <2>1, <2>2
<1>6. ASSUME ~cut, t = <<>> PROVE Good'
  <2>1. s = <<>> /\ f \notin Dips
    BY <1>3, <1>6
  <2>. QED
    BY <1>6, <2>1
<1>8. cut' = cut
  OBVIOUS
<1>7. ASSUME NEW x \in Contexts, ~cut', stack'[x] # <<>> PROVE RightAt(Top(x))'
  <2>1. x = c
    BY <1>4, <1>7, <1>8
  <2>2. Top(x)' = h
    BY <2>1 DEF Top, Depth
  <2>3. RightAt(h)'
    BY <1>5, <1>7, <1>8, <2>1
  <2>. QED
    BY <2>2, <2>3 DEF RightAt, Good
<1>9. (~cut' /\ stack'["main"] = <<>> /\ stack'["isr"] = <<>>) => Good'
  BY <1>6, <1>8 DEF Contexts
<1>. QED
  BY <1>7, <1>9 DEF ModeInv

\* A step that leaves frames which may follow, keeps a way back to reception and
\* brings the chip where they expect it, keeps the invariant.
LEMMA Moves ==
  ASSUME IInv, NEW c \in Contexts, NEW f, Inside(c, f), f \notin {"attach", "sei"},
         NEW s \in Seq(Frames), Become(c, s), Nested(f, s), UNCHANGED <<I, cut>>,
         FlagsType',
         \/ in_rx' = TRUE
         \/ f = "rxOff" /\ s = <<>>
         \/ \E i \in 1 .. Len(s) : s[i] \in Returning
         \/ in_rx' = in_rx /\ f \notin Returning,
         (RightAt(f) /\ s # <<>>) => RightAt(s[Len(s)])',
         (RightAt(f) /\ s = <<>>) => \A g \in Under(f) : RightAt(g)',
         (RightAt(f) /\ s = <<>> /\ f \notin Dips) => Good'
  PROVE  IInv'
<1>1. StackInv'
  BY StackStep DEF IInv
<1>2. ReturnInv'
  BY ReturnStep DEF IInv
<1>3. ~cut => RightAt(f)
  <2>1. stack[c] # <<>> /\ Top(c) = f
    BY DEF Inside
  <2>. QED
    BY <2>1 DEF IInv, ModeInv
<1>4. ModeInv'
  BY <1>3, ModeStep DEF IInv
<1>. QED
  BY <1>1, <1>2, <1>4 DEF IInv

\* Frames that are neither called back below another nor enable interrupts.
Simple == Frames \ (Dips \cup {"attach", "sei"})

\* What one, two or no frames may take the place of.
LEMMA NestedFrames ==
  /\ \A f : Nested(f, <<>>) /\ <<>> \in Seq(Frames)
  /\ \A f, g \in Simple : Nested(f, <<g>>) /\ <<g>> \in Seq(Frames)
  /\ \A f, g \in Simple : \A w \in Simple \cap Waits :
       Nested(f, <<w, g>>) /\ <<w, g>> \in Seq(Frames)
<1>1. \A f : Nested(f, <<>>) /\ <<>> \in Seq(Frames)
  BY DEF Nested
<1>2. ASSUME NEW f \in Simple, NEW g \in Simple
      PROVE  Nested(f, <<g>>) /\ <<g>> \in Seq(Frames)
  <2>1. PICK s : s = <<g>>
    OBVIOUS
  <2>2. Len(s) = 1 /\ s[1] = g /\ s \in Seq(Frames)
    BY <2>1 DEF Simple
  <2>3. Under(g) = Waits /\ Under(f) = Waits /\ g \notin Dips /\ g \notin {"attach", "sei"}
    BY DEF Simple, Under, Dips
  <2>. QED
    BY <2>1, <2>2, <2>3 DEF Nested
<1>3. ASSUME NEW f \in Simple, NEW g \in Simple, NEW w \in Simple \cap Waits
      PROVE  Nested(f, <<w, g>>) /\ <<w, g>> \in Seq(Frames)
  <2>1. PICK s : s = <<w, g>>
    OBVIOUS
  <2>2. Len(s) = 2 /\ s[1] = w /\ s[2] = g /\ s \in Seq(Frames)
    BY <2>1 DEF Simple
  <2>3. /\ Under(w) = Waits /\ Under(g) = Waits /\ Under(f) = Waits
        /\ w \notin Dips /\ {w, g} \cap {"attach", "sei"} = {}
    BY DEF Simple, Under, Dips
  <2>4. \A i \in 2 .. Len(s) : i = 2 /\ s[i - 1] = w /\ s[i] = g
    BY <2>2
  <2>5. \A i \in 2 .. Len(s) : s[i - 1] \in Under(s[i])
    BY <2>3, <2>4
  <2>6. \A i \in 1 .. Len(s) : s[i] \notin {"attach", "sei"}
    <3>1. w \notin {"attach", "sei"} /\ g \notin {"attach", "sei"}
      BY <2>3
    <3>2. \A i \in 1 .. Len(s) : s[i] = w \/ s[i] = g
      BY <2>2
    <3>. QED
      BY <3>1, <3>2
  <2>. QED
    BY <2>1, <2>2, <2>3, <2>5, <2>6 DEF Nested
<1>. QED
  BY <1>1, <1>2, <1>3

\* Which frame is of which kind.
LEMMA FrameKinds ==
  /\ ChipFrames \ Dips \subseteq Simple /\ PlainFrames \ {"attach", "sei"} \subseteq Simple
  /\ Waits \subseteq Calm
  /\ {"available", "read", "clear", "more", "attach", "sei", "level", "handler", "handle",
      "checked", "fragment", "eval", "sent"} \subseteq Calm
BY DEF Simple, Frames, ChipFrames, PlainFrames, Dips, Waits, Calm, Sending, Returning

\* Where all is calm the chip receives.
LEMMA CalmGood ==
  /\ \A f \in Calm : RightAt(f) <=> Good
  /\ \A f : Good /\ f \notin {"rxAddr"} => RightAt(f)
BY DEF RightAt, Good, Calm, Sending, Dips, Returning

\* A frame that leaves the chip and nrf24_in_rx alone, and where the chip receives
\* before and after.
LEMMA CalmStep ==
  ASSUME IInv, NEW c \in Contexts, NEW f \in Calm \cap Simple, Inside(c, f),
         NEW s \in Seq(Frames), Become(c, s), Nested(f, s),
         UNCHANGED <<I, cut, mode, in_rx>>,
         s # <<>> => s[Len(s)] # "rxAddr"
  PROVE  IInv'
<1>1. FlagsType'
  BY DEF IInv, FlagsType, mode
<1>2. in_rx' = in_rx /\ f \notin Returning /\ f \notin {"attach", "sei"} /\ f \notin Dips
  BY DEF Calm, Simple
<1>3. RightAt(f) => Good'
  BY CalmGood DEF Good, mode
<1>4. s # <<>> => (Good' => RightAt(s[Len(s)])')
  BY DEF RightAt, Good
<1>5. Good' => \A g \in Under(f) : RightAt(g)'
  BY <1>2 DEF RightAt, Good, Under, Dips, Waits
<1>. QED
  BY <1>1, <1>2, <1>3, <1>4, <1>5, Moves

\* The frames of radioOpDone, of handling a message and of what follows a send.
LEMMA CalmActions ==
  ASSUME IInv, NEW c \in Contexts,
         \/ Available(c) \/ NotAvailable(c) \/ Read(c) \/ ReadNothing(c) \/ Clear(c)
         \/ More(c) \/ Handle(c) \/ Checked(c) \/ Fragment(c) \/ Eval(c) \/ Sent(c)
         \/ Handler(c) \/ Level(c)
  PROVE  IInv'
<1>. USE FrameKinds, NestedFrames
<1>0. /\ {"available", "read", "clear", "more", "level", "handler", "handle", "checked",
           "fragment", "eval", "sent"} \subseteq Calm \cap Simple
      /\ {"rxMode", "txMode"} \subseteq Simple
      /\ {"available", "read", "checked", "sent", "level"} \subseteq Simple \cap Waits
  BY DEF ChipFrames, PlainFrames, Dips, Waits
<1>1. ASSUME NEW f \in Calm \cap Simple, Inside(c, f), Become(c, <<>>),
             UNCHANGED <<I, cut, mode, in_rx>>
      PROVE  IInv'
  BY <1>1, CalmStep
<1>2. ASSUME NEW f \in Calm \cap Simple, Inside(c, f), NEW g \in Simple, g # "rxAddr",
             Become(c, <<g>>), UNCHANGED <<I, cut, mode, in_rx>>
      PROVE  IInv'
  <2>1. PICK s : s = <<g>>
    OBVIOUS
  <2>2. Len(s) = 1 /\ s[Len(s)] = g /\ Nested(f, s) /\ s \in Seq(Frames)
    BY <2>1
  <2>. QED
    BY <1>2, <2>1, <2>2, CalmStep
<1>3. ASSUME NEW f \in Calm \cap Simple, Inside(c, f), NEW w \in Simple \cap Waits,
             NEW g \in Simple, g # "rxAddr",
             Become(c, <<w, g>>), UNCHANGED <<I, cut, mode, in_rx>>
      PROVE  IInv'
  <2>1. PICK s : s = <<w, g>>
    OBVIOUS
  <2>2. Len(s) = 2 /\ s[Len(s)] = g /\ Nested(f, s) /\ s \in Seq(Frames)
    BY <2>1
  <2>. QED
    BY <1>3, <2>1, <2>2, CalmStep
<1>4. CASE Available(c)
  BY <1>0, <1>3, <1>4 DEF Available, DrainFrames, irq, chip
<1>5. CASE NotAvailable(c)
  BY <1>0, <1>2, <1>5 DEF NotAvailable, irq, chip
<1>6. CASE Read(c)
  BY <1>0, <1>2, <1>6 DEF Read, irq
<1>7. CASE ReadNothing(c)
  BY <1>0, <1>3, <1>7 DEF ReadNothing, irq, chip
<1>8. CASE Clear(c)
  BY <1>0, <1>2, <1>8 DEF Clear
<1>9. CASE More(c)
  BY <1>0, <1>2, <1>3, <1>9 DEF More, irq, chip
<1>10. CASE Handle(c)
  BY <1>0, <1>2, <1>3, <1>10 DEF Handle, irq, chip
<1>11. CASE Checked(c)
  BY <1>0, <1>1, <1>11 DEF Checked, irq, chip
<1>12. CASE Fragment(c)
  BY <1>0, <1>2, <1>12 DEF Fragment, irq, chip
<1>13. CASE Eval(c)
  BY <1>0, <1>2, <1>3, <1>13 DEF Eval, irq, chip
<1>14. CASE Sent(c)
  BY <1>0, <1>1, <1>2, <1>14 DEF Sent, irq, chip
<1>15. CASE Handler(c)
  BY <1>0, <1>1, <1>2, <1>15 DEF Handler, HandlerFrames, irq, chip
<1>16. CASE Level(c)
  BY <1>0, <1>1, <1>3, <1>16 DEF Level, LevelFrames, irq, chip
<1>. QED
  BY <1>4, <1>5, <1>6, <1>7, <1>8, <1>9, <1>10, <1>11, <1>12, <1>13, <1>14, <1>15, <1>16

\* A frame followed by one other.
LEMMA OneFrame ==
  ASSUME IInv, NEW c \in Contexts, NEW f, Inside(c, f), NEW g,
         \/ f \in Simple /\ g \in Simple
         \/ f = "idle" /\ g = "rxOff",
         Become(c, <<g>>), UNCHANGED <<I, cut>>, FlagsType',
         in_rx' = TRUE \/ g \in Returning \/ (in_rx' = in_rx /\ f \notin Returning),
         RightAt(f) => RightAt(g)'
  PROVE  IInv'
<1>1. PICK s : s = <<g>>
  OBVIOUS
<1>2. Len(s) = 1 /\ s[1] = g /\ s # <<>> /\ s \in Seq(Frames)
  <2>1. g \in Frames
    BY DEF Simple, Frames, ChipFrames
  <2>. QED
    BY <1>1, <2>1
<1>3. Nested(f, s)
  <2>1. Under(g) = Under(f) /\ (g \in Dips => f \in Dips) /\ g \notin {"attach", "sei"}
    BY DEF Simple, Under, Dips
  <2>. QED
    BY <1>2, <2>1 DEF Nested
<1>4. f \notin {"attach", "sei"}
  BY DEF Simple
<1>5. \/ in_rx' = TRUE
      \/ \E i \in 1 .. Len(s) : s[i] \in Returning
      \/ in_rx' = in_rx /\ f \notin Returning
  BY <1>2
<1>6. (RightAt(f) /\ s # <<>>) => RightAt(s[Len(s)])'
  BY <1>2
<1>. QED
  BY <1>1, <1>2, <1>3, <1>4, <1>5, <1>6, Moves

\* nrf24_rx_mode, nrf24_idle_mode and what setAddress does between them.
LEMMA ModeActions ==
  ASSUME IInv, NEW c \in Contexts,
         \/ RxMode(c) \/ RxConfig(c) \/ RxPipe(c) \/ RxCe(c) \/ RxOn(c)
         \/ Idle(c) \/ RxOff(c) \/ RxAddr(c)
  PROVE  IInv'
<1>. USE FrameKinds, NestedFrames
<1>0. /\ {"rxMode", "rxConfig", "rxPipe", "rxCe", "rxOn", "rxAddr"} \subseteq Simple
      /\ in_rx \in BOOLEAN /\ PRIM_RX \in BOOLEAN /\ CE \in BOOLEAN /\ EN_RXADDR \in {0, 1}
  BY DEF ChipFrames, Dips, IInv, FlagsType
<1>1. CASE RxMode(c)
  <2>1. Inside(c, "rxMode") /\ UNCHANGED <<I, cut, mode, in_rx>> /\ FlagsType'
    BY <1>0, <1>1 DEF RxMode, irq, chip, mode, FlagsType
  <2>2. CASE in_rx = TRUE
    <3>1. Become(c, <<>>)
      BY <1>1, <2>2 DEF RxMode
    <3>2. RightAt("rxMode") => Good'
      BY <2>1, <2>2 DEF RightAt, Good, mode
    <3>3. Good' => \A g \in Under("rxMode") : RightAt(g)'
      BY DEF Under, RightAt, Good, Waits
    <3>. QED
      BY <2>1, <2>2, <3>1, <3>2, <3>3, Moves
  <2>3. CASE in_rx = FALSE
    <3>1. Become(c, <<"rxConfig">>)
      BY <1>1, <2>3 DEF RxMode
    <3>2. RightAt("rxConfig")'
      BY DEF RightAt, Calm, Sending, Returning
    <3>. QED
      BY <1>0, <2>1, <3>1, <3>2, OneFrame DEF Returning
  <2>. QED
    BY <1>0, <2>2, <2>3
<1>2. CASE RxConfig(c)
  <2>1. FlagsType' /\ RightAt("rxPipe")'
    BY <1>0, <1>2 DEF RxConfig, FlagsType, RightAt, Calm, Sending, Returning
  <2>. QED
    BY <1>0, <1>2, <2>1, OneFrame DEF RxConfig, irq, Returning
<1>3. CASE RxPipe(c)
  <2>1. FlagsType' /\ (RightAt("rxPipe") => RightAt("rxCe")')
    BY <1>0, <1>3 DEF RxPipe, FlagsType, RightAt, Calm, Sending, Returning
  <2>. QED
    BY <1>0, <1>3, <2>1, OneFrame DEF RxPipe, irq, Returning
<1>4. CASE RxCe(c)
  <2>1. FlagsType' /\ (RightAt("rxCe") => RightAt("rxOn")')
    BY <1>0, <1>4 DEF RxCe, FlagsType, RightAt, Calm, Sending, Returning
  <2>. QED
    BY <1>0, <1>4, <2>1, OneFrame DEF RxCe, irq, Returning
<1>5. CASE RxOn(c)
  <2>1. FlagsType' /\ (RightAt("rxOn") => Good')
    BY <1>0, <1>5 DEF RxOn, FlagsType, RightAt, Good, chip, mode
  <2>2. Good' => \A g \in Under("rxOn") : RightAt(g)'
    BY DEF Under, RightAt, Good, Waits
  <2>3. Inside(c, "rxOn") /\ Become(c, <<>>) /\ UNCHANGED <<I, cut>> /\ in_rx' = TRUE
    BY <1>5 DEF RxOn, irq
  <2>. QED
    BY <2>1, <2>2, <2>3, Moves
<1>6. CASE Idle(c)
  <2>1. FlagsType' /\ RightAt("rxOff")' /\ in_rx' = in_rx
    BY <1>0, <1>6 DEF Idle, FlagsType, RightAt, Calm, Sending, Dips
  <2>2. "idle" \notin Returning
    BY DEF Returning
  <2>. QED
    BY <1>6, <2>1, <2>2, OneFrame DEF Idle, irq
<1>7. CASE RxOff(c)
  <2>1. FlagsType' /\ \A g \in Under("rxOff") : RightAt(g)'
    BY <1>0, <1>7
    DEF RxOff, FlagsType, Under, RightAt, Calm, Sending, Dips, Returning, chip, mode
  <2>2. "rxOff" \in Dips
    BY DEF Dips
  <2>3. Inside(c, "rxOff") /\ Become(c, <<>>) /\ UNCHANGED <<I, cut>>
    BY <1>7 DEF RxOff, irq
  <2>. QED
    BY <2>1, <2>2, <2>3, Moves
<1>8. CASE RxAddr(c)
  <2>1. FlagsType' /\ (RightAt("rxAddr") => RightAt("rxMode")')
    BY <1>0, <1>8 DEF RxAddr, FlagsType, RightAt, Calm, Sending, Returning, chip, mode
  <2>. QED
    BY <1>0, <1>8, <2>1, OneFrame DEF RxAddr, irq, Returning
<1>. QED
  BY <1>1, <1>2, <1>3, <1>4, <1>5, <1>6, <1>7, <1>8

\* The frames of nrf24_tx: those that put others above themselves first.
LEMMA TxModeStep ==
  ASSUME IInv, NEW c \in Contexts, TxMode(c)
  PROVE  IInv'
<1>0. /\ {"txMode", "txConfig"} \subseteq Simple
      /\ in_rx \in BOOLEAN /\ PRIM_RX \in BOOLEAN /\ CE \in BOOLEAN /\ EN_RXADDR \in {0, 1}
  BY FrameKinds DEF ChipFrames, Dips, IInv, FlagsType
<1>1. Inside(c, "txMode") /\ UNCHANGED <<I, cut, mode, in_rx>> /\ FlagsType'
  BY <1>0 DEF TxMode, irq, chip, mode, FlagsType
<1>2. "txMode" \notin Returning
  BY DEF Returning
<1>3. CASE in_rx = TRUE
  <2>0. PICK s : s = <<"txConfig", "rxKeep", "idle">>
    OBVIOUS
  <2>1. /\ Len(s) = 3 /\ s[1] = "txConfig" /\ s[2] = "rxKeep" /\ s[3] = "idle"
        /\ s \in Seq(Frames)
    BY <2>0 DEF Frames, ChipFrames
  <2>2. Become(c, s)
    BY <1>3, <2>0 DEF TxMode
  <2>3. Nested("txMode", s)
    <3>1. \A i \in 2 .. Len(s) : s[i - 1] \in Under(s[i])
      <4>1. \A i \in 2 .. Len(s) : i = 2 \/ i = 3
        BY <2>1
      <4>2. s[1] \in Under(s[2]) /\ s[2] \in Under(s[3])
        BY <2>1 DEF Under
      <4>. QED
        BY <4>1, <4>2
    <3>2. \A i \in 1 .. Len(s) : s[i] \notin {"attach", "sei"}
      BY <2>1
    <3>3. Under(s[1]) = Under("txMode") /\ s[1] \notin Dips
      BY <2>1 DEF Under, Dips
    <3>. QED
      BY <3>1, <3>2, <3>3 DEF Nested
  <2>4. RightAt("txMode") => RightAt(s[Len(s)])'
    BY <1>1, <2>1 DEF RightAt, Calm, Sending, Dips
  <2>5. s # <<>> /\ in_rx' = TRUE
    BY <1>1, <1>3, <2>1
  <2>. QED
    BY <1>1, <2>1, <2>2, <2>3, <2>4, <2>5, Moves
<1>4. CASE in_rx = FALSE
  <2>1. Become(c, <<"txConfig">>)
    BY <1>4 DEF TxMode
  <2>2. RightAt("txMode") => RightAt("txConfig")'
    BY <1>1 DEF RightAt, Calm, Sending
  <2>. QED
    BY <1>0, <1>1, <1>2, <2>1, <2>2, OneFrame
<1>. QED
  BY <1>0, <1>3, <1>4

LEMMA TxDoneStep ==
  ASSUME IInv, NEW c \in Contexts, TxDone(c)
  PROVE  IInv'
<1>0. /\ {"txDone", "fragment"} \subseteq Simple
      /\ in_rx \in BOOLEAN /\ PRIM_RX \in BOOLEAN /\ CE \in BOOLEAN /\ EN_RXADDR \in {0, 1}
  BY FrameKinds DEF ChipFrames, PlainFrames, Dips, IInv, FlagsType
<1>1. Inside(c, "txDone") /\ UNCHANGED <<I, cut, mode, in_rx>> /\ FlagsType'
  BY <1>0 DEF TxDone, irq, chip, mode, FlagsType
<1>2. "txDone" \notin Returning /\ (RightAt("txDone") => in_rx = TRUE)
  BY DEF Returning, RightAt, Sending
<1>3. CASE in_rx = TRUE
  <2>0. PICK s : s = <<"fragment", "rxMode", "rxOff">>
    OBVIOUS
  <2>1. /\ Len(s) = 3 /\ s[1] = "fragment" /\ s[2] = "rxMode" /\ s[3] = "rxOff"
        /\ s \in Seq(Frames)
    BY <2>0 DEF Frames, ChipFrames, PlainFrames
  <2>2. Become(c, s)
    BY <1>3, <2>0 DEF TxDone, FramesAfterTx
  <2>3. Nested("txDone", s)
    <3>1. \A i \in 2 .. Len(s) : s[i - 1] \in Under(s[i])
      <4>1. \A i \in 2 .. Len(s) : i = 2 \/ i = 3
        BY <2>1
      <4>2. s[1] \in Under(s[2]) /\ s[2] \in Under(s[3])
        BY <2>1 DEF Under, Waits
      <4>. QED
        BY <4>1, <4>2
    <3>2. \A i \in 1 .. Len(s) : s[i] \notin {"attach", "sei"}
      BY <2>1
    <3>3. Under(s[1]) = Under("txDone") /\ s[1] \notin Dips
      BY <2>1 DEF Under, Dips
    <3>. QED
      BY <3>1, <3>2, <3>3 DEF Nested
  <2>4. RightAt(s[Len(s)])'
    BY <2>1 DEF RightAt, Calm, Sending, Dips
  <2>5. s # <<>> /\ in_rx' = TRUE
    BY <1>1, <1>3, <2>1
  <2>. QED
    BY <1>1, <2>1, <2>2, <2>3, <2>4, <2>5, Moves
<1>4. CASE in_rx = FALSE
  <2>1. Become(c, <<"fragment">>)
    BY <1>4 DEF TxDone, FramesAfterTx
  <2>2. RightAt("txDone") => RightAt("fragment")'
    BY <1>2, <1>4
  <2>. QED
    BY <1>0, <1>1, <1>2, <2>1, <2>2, OneFrame
<1>. QED
  BY <1>0, <1>3, <1>4

LEMMA TxActions ==
  ASSUME IInv, NEW c \in Contexts,
         \/ TxMode(c) \/ RxKeep(c) \/ TxConfig(c) \/ TxPipe(c) \/ Payload(c) \/ TxCe(c)
         \/ Result(c) \/ TxDone(c)
  PROVE  IInv'
<1>0. /\ {"txConfig", "txPipe", "payload", "txCe", "result", "txDone"}
           \subseteq Simple \ Returning
      /\ in_rx \in BOOLEAN /\ PRIM_RX \in BOOLEAN /\ CE \in BOOLEAN /\ EN_RXADDR \in {0, 1}
  BY FrameKinds DEF ChipFrames, Dips, IInv, FlagsType, Returning
<1>1. ASSUME NEW f \in Sending \cap (Simple \ Returning), NEW g \in Sending \cap Simple,
             Inside(c, f), Become(c, <<g>>), UNCHANGED <<I, cut, in_rx>>, FlagsType'
      PROVE  IInv'
  <2>1. RightAt(f) => RightAt(g)'
    BY <1>1 DEF RightAt, Calm, Sending
  <2>. QED
    BY <1>1, <2>1, OneFrame
<1>2. {"txConfig", "txPipe", "payload", "txCe", "result", "txDone"}
        \subseteq Sending \cap (Simple \ Returning)
  BY <1>0 DEF Sending
<1>3. CASE RxKeep(c)
  <2>1. FlagsType' /\ \A g \in Under("rxKeep") : RightAt(g)'
    BY <1>0, <1>3 DEF RxKeep, FlagsType, Under, RightAt, Calm, Sending, chip, mode
  <2>2. "rxKeep" \in Dips
    BY DEF Dips
  <2>3. Inside(c, "rxKeep") /\ Become(c, <<>>) /\ UNCHANGED <<I, cut>> /\ in_rx' = TRUE
    BY <1>3 DEF RxKeep, irq
  <2>. QED
    BY <2>1, <2>2, <2>3, NestedFrames, Moves
<1>4. CASE TxConfig(c)
  BY <1>0, <1>1, <1>2, <1>4 DEF TxConfig, FlagsType, irq
<1>5. CASE TxPipe(c)
  BY <1>0, <1>1, <1>2, <1>5 DEF TxPipe, FlagsType, irq
<1>6. CASE Payload(c)
  BY <1>0, <1>1, <1>2, <1>6 DEF Payload, FlagsType, irq, chip, mode
<1>7. CASE TxCe(c)
  BY <1>0, <1>1, <1>2, <1>7 DEF TxCe, FlagsType, irq
<1>8. CASE Result(c)
  BY <1>0, <1>1, <1>2, <1>8 DEF Result, FlagsType, irq
<1>. QED
  BY <1>3, <1>4, <1>5, <1>6, <1>7, <1>8, TxModeStep, TxDoneStep

LEMMA StepInvariant ==
  ASSUME IInv, NEW c \in Contexts, Step(c)
  PROVE  IInv'
BY CalmActions, ModeActions, TxActions DEF Step

-----------------------------------------------------------------------------
\* A stack of one or two frames.
LEMMA ShortNested ==
  /\ WellNested(<<>>)
  /\ \A f \in Simple \cup {"attach", "sei"} : WellNested(<<f>>)
  /\ WellNested(<<"attach", "available">>) /\ WellNested(<<"sei", "available">>)
  /\ WellNested(<<"level", "handler">>) /\ WellNested(<<"rxAddr", "idle">>)
<1>1. WellNested(<<>>)
  BY DEF WellNested
<1>2. ASSUME NEW f \in Simple \cup {"attach", "sei"} PROVE WellNested(<<f>>)
  <2>1. f \notin Dips
    BY DEF Simple, Dips
  <2>. QED
    BY <2>1 DEF WellNested
<1>3. ASSUME NEW f, NEW g, f \notin Dips, f \in Under(g) PROVE WellNested(<<f, g>>)
  <2>1. PICK s : s = <<f, g>>
    OBVIOUS
  <2>2. s # <<>> /\ s[1] = f /\ s[2] = g /\ Len(s) = 2
    BY <2>1
  <2>3. \A i \in 2 .. Len(s) : i = 2
    BY <2>2
  <2>. QED
    BY <1>3, <2>1, <2>2, <2>3 DEF WellNested
<1>4. /\ {"attach", "sei", "level", "rxAddr"} \cap Dips = {}
      /\ "attach" \in Under("available") /\ "sei" \in Under("available")
      /\ "level" \in Under("handler") /\ "rxAddr" \in Under("idle")
  BY DEF Dips, Under, Waits
<1>. QED
  BY <1>1, <1>2, <1>3, <1>4

LEMMA InitInvariant == Init => IInv
<1>. SUFFICES ASSUME Init PROVE IInv
  OBVIOUS
<1>. PICK m : m = <<"attach", "available">>
  OBVIOUS
<1>0. /\ m \in Seq(Frames) /\ Len(m) = 2 /\ m[1] = "attach" /\ m[2] = "available"
      /\ WellNested(m) /\ m # <<>>
  BY ShortNested DEF Frames, ChipFrames, PlainFrames
<1>1. /\ stack["main"] = m
      /\ stack["isr"] = <<>>
      /\ stack \in [Contexts -> Seq(Frames)]
  BY <1>0 DEF Init, Contexts
<1>2. StackInv
  <2>1. \A i \in 2 .. Len(m) : m[i] \notin {"attach", "sei"}
    <3>1. \A i \in 2 .. Len(m) : i = 2
      BY <1>0
    <3>. QED
      BY <1>0, <3>1
  <2>2. I = FALSE
    BY DEF Init
  <2>3. Masked
    BY <1>1, <2>1, <2>2 DEF Masked
  <2>. QED
    BY <1>0, <1>1, <2>3, ShortNested DEF StackInv, Contexts
<1>3. ReturnInv /\ FlagsType /\ Good
  BY DEF Init, ReturnInv, FlagsType, Good
<1>4. ModeInv
  <2>1. ASSUME NEW c \in Contexts, stack[c] # <<>> PROVE RightAt(Top(c))
    <3>1. c = "main" /\ Top(c) = "available"
      BY <1>0, <1>1, <2>1 DEF Contexts, Top, Depth
    <3>. QED
      BY <1>3, <3>1, CalmGood
  <2>. QED
    BY <1>3, <2>1 DEF ModeInv
<1>. QED
  BY <1>2, <1>3, <1>4 DEF IInv

\* Interrupts are enabled again only when the main program has no other frame.
LEMMA EnableInterrupts ==
  ASSUME IInv, NEW f \in {"attach", "sei"}, Inside("main", f), Become("main", <<>>),
         UNCHANGED <<mode, in_rx, cut>>
  PROVE  IInv'
<1>. USE DEF Contexts
<1>1. stack["main"] \in Seq(Frames) /\ stack["main"] # <<>> /\ stack["isr"] = <<>>
      /\ stack["main"][Len(stack["main"])] = f
  BY DEF IInv, StackInv, Inside, Active, Top, Depth
<1>2. Len(stack["main"]) = 1
  <2>1. Len(stack["main"]) \in Nat \ {0}
    BY <1>1
  <2>2. Len(stack["main"]) \notin 2 .. Len(stack["main"])
    BY <1>1 DEF IInv, StackInv, Masked
  <2>3. PICK n \in Nat \ {0} : n = Len(stack["main"])
    BY <2>1
  <2>4. n \notin 2 .. n => n = 1
    OBVIOUS
  <2>. QED
    BY <2>2, <2>3, <2>4
<1>3. Below("main") \o <<>> = <<>>
  BY <1>1, <1>2 DEF Below, Depth
<1>4. stack' = [stack EXCEPT !["main"] = <<>>]
  BY <1>3 DEF Become
<1>5. stack'["main"] = <<>> /\ stack'["isr"] = <<>> /\ stack' \in [Contexts -> Seq(Frames)]
  BY <1>1, <1>4 DEF IInv, StackInv
<1>6. StackInv'
  BY <1>5, ShortNested DEF StackInv, Masked
<1>7. ~cut => Good
  <2>1. Top("main") = f /\ f \in Calm
    BY <1>1, FrameKinds DEF Top, Depth
  <2>2. ~cut => RightAt(f)
    BY <1>1, <2>1 DEF IInv, ModeInv
  <2>. QED
    BY <2>1, <2>2, CalmGood
<1>8. ModeInv'
  BY <1>5, <1>7 DEF ModeInv, Good, mode
<1>9. in_rx = TRUE
  <2>1. f \notin Returning
    BY DEF Returning
  <2>2. \A i \in 1 .. Len(stack["main"]) : stack["main"][i] = f
    BY <1>1, <1>2
  <2>. QED
    BY <1>1, <2>1, <2>2 DEF IInv, ReturnInv, Comes
<1>10. ReturnInv' /\ FlagsType'
  BY <1>9 DEF IInv, ReturnInv, FlagsType, mode
<1>. QED
  BY <1>6, <1>8, <1>10 DEF IInv

\* With no frame anywhere nrf24_in_rx is set, and unless something was cut into the
\* chip receives.
LEMMA IdleReceives ==
  ASSUME IInv, stack["main"] = <<>>, stack["isr"] = <<>>
  PROVE  in_rx = TRUE /\ (~cut => Good)
BY DEF IInv, ReturnInv, Comes, ModeInv

\* An interrupt begins: it counts as cut into what the main program does.
LEMMA InterruptBegins ==
  ASSUME IInv, NEW s \in Seq(Frames), WellNested(s), s # <<>>,
         ~(I = FALSE), stack["isr"] = <<>>,
         stack' = [stack EXCEPT !["isr"] = s],
         UNCHANGED <<I, mode, in_rx>>,
         (stack["main"] # <<>>) => cut',
         (~cut' /\ stack["main"] = <<>>) => RightAt(s[Len(s)])'
  PROVE  IInv'
<1>. USE DEF Contexts
<1>1. /\ stack'["isr"] = s /\ stack'["main"] = stack["main"]
      /\ stack' \in [Contexts -> Seq(Frames)]
  BY DEF IInv, StackInv
<1>2. Masked'
  <2>1. stack["main"] = <<>> \/ stack["main"][1] \notin {"attach", "sei"}
    BY DEF IInv, StackInv, Masked
  <2>. QED
    BY <1>1, <2>1 DEF IInv, StackInv, Masked
<1>3. StackInv'
  BY <1>1, <1>2 DEF IInv, StackInv
<1>4. ReturnInv'
  <2>1. CASE in_rx = TRUE
    BY <2>1 DEF ReturnInv
  <2>2. CASE Comes("main")
    BY <1>1, <2>2 DEF ReturnInv, Comes
  <2>3. ~Comes("isr")
    BY DEF Comes
  <2>. QED
    BY <2>1, <2>2, <2>3 DEF IInv, ReturnInv
<1>5. ModeInv'
  BY <1>1 DEF ModeInv, Top, Depth
<1>6. FlagsType'
  BY DEF IInv, FlagsType, mode
<1>. QED
  BY <1>3, <1>4, <1>5, <1>6 DEF IInv

\* The main program begins to use the radio.
LEMMA MainBegins ==
  ASSUME IInv, MainIdle, NEW s \in Seq(Frames), WellNested(s), s # <<>>,
         stack' = [stack EXCEPT !["main"] = s],
         UNCHANGED <<mode, in_rx>>,
         \A i \in 2 .. Len(s) : s[i] \notin {"attach", "sei"},
         s[1] \in {"attach", "sei"} => I' = FALSE,
         ~cut' => RightAt(s[Len(s)])'
  PROVE  IInv'
<1>. USE DEF Contexts
<1>1. /\ stack'["main"] = s /\ stack'["isr"] = <<>>
      /\ stack' \in [Contexts -> Seq(Frames)]
  BY DEF IInv, StackInv, MainIdle
<1>2. StackInv'
  BY <1>1, ShortNested DEF StackInv, Masked
<1>3. in_rx = TRUE
  BY IdleReceives DEF MainIdle
<1>4. ReturnInv' /\ FlagsType'
  BY <1>3 DEF IInv, ReturnInv, FlagsType, mode
<1>5. ModeInv'
  BY <1>1 DEF ModeInv, Top, Depth
<1>. QED
  BY <1>2, <1>4, <1>5 DEF IInv

LEMMA GpioStep == IInv /\ GpioInterrupt => IInv'
<1>. SUFFICES ASSUME IInv, GpioInterrupt PROVE IInv'
  OBVIOUS
<1>1. /\ ~(I = FALSE) /\ stack["isr"] = <<>> /\ UNCHANGED <<I, mode, in_rx>>
      /\ cut => cut'
  BY DEF GpioInterrupt, chip
<1>2. CASE RX_DR
  <2>1. PICK s : s = <<"level", "handler">>
    OBVIOUS
  <2>2. s \in Seq(Frames) /\ s # <<>> /\ s[Len(s)] = "handler" /\ WellNested(s)
    BY <2>1, ShortNested DEF Frames, PlainFrames
  <2>3. stack' = [stack EXCEPT !["isr"] = s] /\ ((stack["main"] # <<>>) => cut')
    BY <1>2, <2>1 DEF GpioInterrupt
  <2>4. (~cut' /\ stack["main"] = <<>>) => RightAt("handler")'
    <3>1. (~cut' /\ stack["main"] = <<>>) => Good'
      BY <1>1, IdleReceives DEF Good, mode
    <3>2. Good' => RightAt("handler")'
      BY DEF Good, RightAt, Calm, Sending, Returning, Dips
    <3>. QED
      BY <3>1, <3>2
  <2>. QED
    BY <1>1, <2>2, <2>3, <2>4, InterruptBegins
<1>3. CASE ~RX_DR
  <2>1. stack' = stack
    <3>1. stack' = [stack EXCEPT !["isr"] = <<>>]
      BY <1>3 DEF GpioInterrupt
    <3>. QED
      BY <1>1, <3>1 DEF IInv, StackInv, Contexts
  <2>2. StackInv'
    BY <1>1, <2>1 DEF IInv, StackInv, Masked
  <2>3. ReturnInv' /\ FlagsType'
    BY <1>1, <2>1 DEF IInv, ReturnInv, Comes, FlagsType, mode
  <2>4. \A f : RightAt(f) => RightAt(f)'
    BY <1>1 DEF RightAt, Good, mode
  <2>5. ModeInv'
    BY <1>1, <2>1, <2>4 DEF IInv, ModeInv, Top, Depth, Good, mode
  <2>. QED
    BY <2>2, <2>3, <2>5 DEF IInv
<1>. QED
  BY <1>2, <1>3

LEMMA TimerStep == IInv /\ TimerInterrupt => IInv'
<1>. SUFFICES ASSUME IInv, TimerInterrupt PROVE IInv'
  OBVIOUS
<1>1. /\ ~(I = FALSE) /\ stack["isr"] = <<>> /\ UNCHANGED <<I, mode, in_rx>>
      /\ (stack["main"] # <<>>) => cut'
  BY DEF TimerInterrupt, chip, irq
<1>2. PICK s : s = <<"txMode">>
  OBVIOUS
<1>3. s \in Seq(Frames) /\ s # <<>> /\ s[Len(s)] = "txMode"
  BY <1>2 DEF Frames, ChipFrames
<1>4. "txMode" \in Simple
  BY FrameKinds DEF ChipFrames, Dips
<1>5. WellNested(s)
  BY <1>2, <1>4, ShortNested
<1>6. stack' = [stack EXCEPT !["isr"] = s]
  BY <1>2 DEF TimerInterrupt
<1>7. stack["main"] = <<>> => RightAt("txMode")'
  <2>1. stack["main"] = <<>> => in_rx' = TRUE
    BY <1>1, IdleReceives
  <2>. QED
    BY <2>1 DEF RightAt, Calm, Sending
<1>. QED
  BY <1>1, <1>3, <1>5, <1>6, <1>7, InterruptBegins

LEMMA MainActions == IInv /\ (MainSend \/ MainSetAddress \/ MainRadioRun) => IInv'
<1>1. ASSUME IInv, MainSend PROVE IInv'
  <2>1. PICK s : s = <<"txMode">>
    OBVIOUS
  <2>2. s \in Seq(Frames) /\ s # <<>> /\ Len(s) = 1 /\ s[1] = "txMode"
    BY <2>1 DEF Frames, ChipFrames
  <2>3. "txMode" \in Simple
    BY FrameKinds DEF ChipFrames, Dips
  <2>4. WellNested(s)
    BY <2>1, <2>3, ShortNested
  <2>5. MainIdle /\ stack' = [stack EXCEPT !["main"] = s] /\ UNCHANGED <<mode, in_rx>>
    BY <1>1, <2>1 DEF MainSend, chip
  <2>6. in_rx' = TRUE
    BY <1>1, <2>5, IdleReceives DEF MainIdle
  <2>7. RightAt("txMode")'
    BY <2>6 DEF RightAt, Calm, Sending
  <2>8. \A i \in 2 .. Len(s) : s[i] \notin {"attach", "sei"}
    BY <2>2
  <2>. QED
    BY <1>1, <2>2, <2>4, <2>5, <2>7, <2>8, MainBegins
<1>2. ASSUME IInv, MainSetAddress PROVE IInv'
  <2>1. PICK s : s = <<"rxAddr", "idle">>
    OBVIOUS
  <2>2. /\ s \in Seq(Frames) /\ s # <<>> /\ Len(s) = 2 /\ s[1] = "rxAddr" /\ s[2] = "idle"
        /\ WellNested(s)
    BY <2>1, ShortNested DEF Frames, ChipFrames
  <2>5. MainIdle /\ stack' = [stack EXCEPT !["main"] = s] /\ UNCHANGED <<mode, in_rx>>
    BY <1>2, <2>1 DEF MainSetAddress, chip
  <2>6. in_rx' = TRUE
    BY <1>2, <2>5, IdleReceives DEF MainIdle
  <2>7. RightAt("idle")'
    BY <2>6 DEF RightAt, Calm, Sending
  <2>8. \A i \in 2 .. Len(s) : s[i] \notin {"attach", "sei"}
    <3>1. \A i \in 2 .. Len(s) : i = 2
      BY <2>2
    <3>. QED
      BY <2>2, <3>1
  <2>. QED
    BY <1>2, <2>2, <2>5, <2>7, <2>8, MainBegins
<1>3. ASSUME IInv, MainRadioRun PROVE IInv'
  <2>1. PICK s : s = <<"sei", "available">>
    OBVIOUS
  <2>2. /\ s \in Seq(Frames) /\ s # <<>> /\ Len(s) = 2 /\ s[1] = "sei" /\ s[2] = "available"
        /\ WellNested(s)
    BY <2>1, ShortNested DEF Frames, ChipFrames, PlainFrames
  <2>5. /\ MainIdle /\ stack' = [stack EXCEPT !["main"] = s]
        /\ UNCHANGED <<mode, in_rx, cut>> /\ I' = FALSE
    BY <1>3, <2>1 DEF MainRadioRun, CliInRadioRun, chip
  <2>6. ~cut' => Good'
    BY <1>3, <2>5, IdleReceives DEF MainIdle, Good, mode
  <2>7. Good' => RightAt("available")'
    BY DEF Good, RightAt, Calm, Sending, Returning, Dips
  <2>8. \A i \in 2 .. Len(s) : s[i] \notin {"attach", "sei"}
    <3>1. \A i \in 2 .. Len(s) : i = 2
      BY <2>2
    <3>. QED
      BY <2>2, <3>1
  <2>. QED
    BY <1>3, <2>2, <2>5, <2>6, <2>7, <2>8, MainBegins
<1>. QED
  BY <1>1, <1>2, <1>3

LEMMA QuietActions == IInv /\ (PacketArrives \/ UNCHANGED vars) => IInv'
<1>. SUFFICES ASSUME IInv, UNCHANGED <<stack, I, mode, in_rx, cut>> PROVE IInv'
  BY DEF PacketArrives, vars, irq, chip
<1>1. StackInv' /\ ReturnInv'
  BY DEF IInv, StackInv, Masked, ReturnInv, Comes
<1>2. \A f : RightAt(f) => RightAt(f)'
  BY DEF RightAt, Good, mode
<1>3. ModeInv'
  BY <1>2 DEF IInv, ModeInv, Top, Depth, Good, mode
<1>4. FlagsType'
  BY DEF IInv, FlagsType, mode
<1>. QED
  BY <1>1, <1>3, <1>4 DEF IInv

LEMMA NextInvariant == IInv /\ [Next]_vars => IInv'
<1>. SUFFICES ASSUME IInv, [Next]_vars PROVE IInv'
  OBVIOUS
<1>1. ASSUME Attach \/ Sei PROVE IInv'
  BY <1>1, EnableInterrupts DEF Attach, Sei, chip
<1>. QED
  BY <1>1, GpioStep, TimerStep, MainActions, QuietActions, StepInvariant DEF Next

\* Unless the main program meddles, one of the two contexts has no frame, and
\* so no use of the chip.
LEMMA OneAtATime == IInv => ChipIdleInOpDone
<1>. SUFFICES ASSUME IInv, ~MainMeddles
              PROVE  ~(InUse("isr") /\ InUse("main"))
  BY DEF ChipIdleInOpDone
<1>1. stack["main"] = <<>> \/ stack["isr"] = <<>>
  BY DEF IInv, StackInv, Masked, MainMeddles
<1>2. \A c \in Contexts : stack[c] = <<>> => ~InUse(c)
  BY DEF InUse
<1>. QED
  BY <1>1, <1>2 DEF Contexts

\* The invariant that the theorems below rest on.
LEMMA Invariant == Spec => []IInv
<1>. QED
  BY InitInvariant, NextInvariant, PTL DEF Spec

\* Whatever the sketch does, an interrupt that comes while the main program is
\* initialising the node or running the radio's loop does not find it in the middle of
\* a use of the chip; where the main program itself sends or sets the address, nothing
\* is said (Sensorino.cpp:84, 87-98, 119-136).
THEOREM ChipIdle == Spec => []ChipIdleInOpDone
<1>. QED
  BY Invariant, OneAtATime, PTL

\* With every access to the chip a step of its own, and interrupts between those of the
\* main program: when no flow uses the radio the chip receives and the driver knows
\* it, unless an interrupt cut into what the main program last did with the radio
\* (mini-radiohead.cpp:224-256, 298-369; Sensorino.cpp:87-98).
THEOREM AlwaysReceives == Spec => []ReceivesWhenIdle
<1>1. IInv => ReceivesWhenIdle
  <2>1. ASSUME IInv, stack = [c \in Contexts |-> <<>>], ~cut PROVE Receiving /\ in_rx
    <3>1. stack["main"] = <<>> /\ stack["isr"] = <<>>
      BY <2>1 DEF Contexts
    <3>2. Good
      BY <2>1, <3>1, IdleReceives
    <3>. QED
      BY <3>2 DEF Good, Receiving
  <2>. QED
    BY <2>1 DEF ReceivesWhenIdle
<1>. QED
  BY <1>1, Invariant, PTL
=============================================================================
