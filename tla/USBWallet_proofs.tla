-------------------------- MODULE USBWallet_proofs --------------------------
(***************************************************************************)
(* Proofs about USBWallet, for any number of callers, refreshers, sessions *)
(* and derivation bases.                                                   *)
(***************************************************************************)
EXTENDS USBWallet, Enumeration_proofs, TLAPS

-----------------------------------------------------------------------------
(* Types *)

WalletState ==
    [device : BOOLEAN, app : Apps \cup {"offline"}, paths : SUBSET (Nat \X Nat),
     next : [Bases -> Nat], chain : BOOLEAN, quit : Nat]

OwnerState == [pc : {"idle"}] \cup [pc : {"health", "derive", "close"}, ch : Nat]

HeartbeatState == [pc : {"idle"}] \cup [pc : {"select", "wait", "exchange", "teardown"}, ch : Nat]

DeriverState ==
    [pc : {"idle"}] \cup [pc : {"select", "throttle", "failed"}, ch : Nat]
      \cup [pc : {"asked", "exchange"}, by : Callers]
      \cup [pc : {"insert"}, by : Callers, ok : BOOLEAN, accs : SUBSET (Nat \X Nat), next : [Bases -> Nat]]

Kinds == {"tx", "typed", "personal"}

\* What is left of a message that is being sent: all of a typed message, otherwise a number
\* of whole blocks and the last one.
LeftToSend(m) ==
    IF m.kind = "typed" THEN m.len = TypedLength /\ m.sent = 0
    ELSE /\ m.len \in PayloadLengths
         /\ \E j \in Nat : m.len - m.sent = j * BlockSize(m.len) + (m.len % BlockSize(m.len))

MessageState == [pc : {"send", "confirm"}, kind : Kinds, sent : Nat, len : Nat]
CallState ==
    [pc : {"idle", "accounts", "derive", "exchange", "pin", "done"}]
      \cup [pc : {"sign", "pend"}, kind : Kinds]
      \cup {m \in MessageState : IF m.pc = "send" THEN LeftToSend(m) ELSE m.sent = m.len}

WalletType ==
    /\ bound \in Instances
    /\ w \in WalletState
    /\ opens \in 0..MaxOpens
    /\ owner \in OwnerState
    /\ hb \in [Opens -> HeartbeatState]
    /\ sd \in [Opens -> DeriverState]
    /\ call \in [Callers -> CallState]

LEMMA BoundFacts ==
    ASSUME bound \in Instances
    PROVE  /\ bound.callers \subseteq Callers /\ bound.refreshers \subseteq Refreshers
           /\ bound.opens \in Nat /\ bound.opens <= MaxOpens /\ MaxOpens \in Nat
           /\ bound.bases \in Nat /\ bound.index \in Nat
           /\ Bases \subseteq Nat /\ LastBase \in Bases
<1>1. bound \in [callers : SUBSET Callers, refreshers : SUBSET Refreshers, plugs : BOOLEAN, signing : BOOLEAN,
                 opens : 0..MaxOpens, bases : 1..MaxBases, index : 0..MaxIndex, faults : Nat]
      /\ MaxOpens \in Nat /\ MaxBases \in Nat /\ MaxIndex \in Nat
  BY WalletAssumption
<1>2. bound.opens \in 0..MaxOpens /\ bound.bases \in 1..MaxBases /\ bound.index \in 0..MaxIndex
      /\ bound.callers \in SUBSET Callers /\ bound.refreshers \in SUBSET Refreshers
  BY <1>1
<1>. QED BY <1>1, <1>2 DEF Bases, LastBase

LEMMA WalletTypeInit == Init => WalletType
<1> SUFFICES ASSUME Init PROVE WalletType
  OBVIOUS
<1>1. MaxOpens \in Nat
  BY WalletAssumption
<1>2. w \in WalletState
  BY DEF Init, WalletState
<1>3. bound \in Instances /\ opens \in 0..MaxOpens
  BY <1>1 DEF Init
<1>4. owner \in OwnerState /\ hb \in [Opens -> HeartbeatState] /\ sd \in [Opens -> DeriverState]
  BY DEF Init, Idle, OwnerState, HeartbeatState, DeriverState
<1>5. call \in [Callers -> CallState]
  BY DEF Init, Idle, CallState
<1>. QED BY <1>2, <1>3, <1>4, <1>5 DEF WalletType

\* The actions of a step, without the grouping of Next.
LEMMA NextCases ==
    ASSUME Next, bound \in Instances
    PROVE  /\ ~panicked
           /\ \/ Open \/ Close \/ CloseFinish
              \/ \E on \in BOOLEAN : SelfDerive(on)
              \/ \E g \in Opens :
                   \/ CloseHealth(g) \/ CloseDerive(g)
                   \/ HeartbeatTick(g) \/ HeartbeatTakeComms(g) \/ HeartbeatExchange(g) \/ HeartbeatTeardown(g)
                   \/ SelfDeriveSkip(g) \/ SelfDeriveTakeComms(g) \/ SelfDeriveExchange(g)
                   \/ SelfDeriveInsert(g) \/ SelfDeriveThrottled(g)
              \/ \E c \in Callers :
                   \/ \E g \in Opens : Accounts(c, g)
                   \/ Derive(c) \/ DeriveTakeComms(c) \/ DeriveExchange(c) \/ DerivePin(c)
                   \/ \E kind \in Kinds : Sign(c, kind)
                   \/ SignTakeComms(c) \/ SignSend(c) \/ SignAnswer(c) \/ SignDone(c)
                   \/ \E len \in PayloadLengths : SignPend(c, len)
              \/ \E r \in Refreshers : RefreshStart(r) \/ RefreshEnumerate(r) \/ RefreshMerge(r)
              \/ \E id \in 1..hub.created : OtherWalletFails(id)
              \/ \E u \in Urls : Plug(u)
<1>1. bound.callers \subseteq Callers /\ bound.refreshers \subseteq Refreshers
  BY BoundFacts
<1>2. \A c : SignTx(c) \/ SignData(c) \/ SignText(c) => \E kind \in Kinds : Sign(c, kind)
  BY DEF SignTx, SignData, SignText, Kinds
<1>. QED BY <1>1, <1>2, Zenon DEF Next, OwnerStep, CloseStep, Heartbeat, SelfDeriver, CallStart, CallStep, HubStep

\* Which actions change which part of the state.
LEMMA Frames ==
    ASSUME Next, bound \in Instances
    PROVE  /\ bound' = bound
           /\ \/ UNCHANGED <<w, opens>> \/ Open \/ CloseFinish \/ (\E on \in BOOLEAN : SelfDerive(on))
              \/ \E g \in Opens : HeartbeatTeardown(g) \/ SelfDeriveExchange(g) \/ SelfDeriveInsert(g)
              \/ \E c \in Callers : DerivePin(c)
           /\ \/ UNCHANGED owner \/ Close \/ CloseFinish
              \/ \E g \in Opens : CloseHealth(g) \/ CloseDerive(g)
           /\ \/ UNCHANGED hb \/ Open
              \/ \E g \in Opens : CloseHealth(g) \/ HeartbeatTick(g) \/ HeartbeatTakeComms(g)
                                  \/ HeartbeatExchange(g) \/ HeartbeatTeardown(g)
           /\ \/ UNCHANGED sd \/ Open
              \/ \E g \in Opens : CloseDerive(g) \/ SelfDeriveSkip(g) \/ SelfDeriveTakeComms(g) \/ SelfDeriveExchange(g)
                                  \/ SelfDeriveInsert(g) \/ SelfDeriveThrottled(g) \/ (\E c \in Callers : Accounts(c, g))
           /\ \/ UNCHANGED call
              \/ \E g \in Opens : SelfDeriveSkip(g) \/ SelfDeriveInsert(g) \/ (\E c \in Callers : Accounts(c, g))
              \/ \E c \in Callers : \/ Derive(c) \/ DeriveTakeComms(c) \/ DeriveExchange(c) \/ DerivePin(c)
                                    \/ \E kind \in Kinds : Sign(c, kind)
                                    \/ SignTakeComms(c) \/ SignSend(c) \/ SignAnswer(c) \/ SignDone(c)
                                    \/ \E len \in PayloadLengths : SignPend(c, len)
<1>. USE NextCases DEF history, hubVars, locks
<1>1. bound' = bound
  BY ZenonT(60) DEF Open, Close, CloseFinish, SelfDerive, CloseHealth, CloseDerive, HeartbeatTick,
       HeartbeatTakeComms, HeartbeatExchange, HeartbeatTeardown, SelfDeriveSkip, SelfDeriveTakeComms, SelfDeriveExchange,
       SelfDeriveInsert, SelfDeriveThrottled, Accounts, Derive, DeriveTakeComms, DeriveExchange, DerivePin, Sign,
       SignTakeComms, SignSend, SignAnswer, SignDone, SignPend, RefreshStart, RefreshEnumerate, RefreshMerge,
       OtherWalletFails, Plug
<1>2. \/ UNCHANGED <<w, opens>> \/ Open \/ CloseFinish \/ (\E on \in BOOLEAN : SelfDerive(on))
      \/ \E g \in Opens : HeartbeatTeardown(g) \/ SelfDeriveExchange(g) \/ SelfDeriveInsert(g)
      \/ \E c \in Callers : DerivePin(c)
  BY ZenonT(60) DEF Close, CloseHealth, CloseDerive, HeartbeatTick,
       HeartbeatTakeComms, HeartbeatExchange, SelfDeriveSkip, SelfDeriveTakeComms,
       SelfDeriveThrottled, Accounts, Derive, DeriveTakeComms, DeriveExchange, Sign,
       SignTakeComms, SignSend, SignAnswer, SignDone, SignPend, RefreshStart, RefreshEnumerate, RefreshMerge,
       OtherWalletFails, Plug
<1>3. \/ UNCHANGED owner \/ Close \/ CloseFinish
      \/ \E g \in Opens : CloseHealth(g) \/ CloseDerive(g)
  BY Zenon DEF Open, SelfDerive, HeartbeatTick,
       HeartbeatTakeComms, HeartbeatExchange, HeartbeatTeardown, SelfDeriveSkip, SelfDeriveTakeComms, SelfDeriveExchange,
       SelfDeriveInsert, SelfDeriveThrottled, Accounts, Derive, DeriveTakeComms, DeriveExchange, DerivePin, Sign,
       SignTakeComms, SignSend, SignAnswer, SignDone, SignPend, RefreshStart, RefreshEnumerate, RefreshMerge,
       OtherWalletFails, Plug
<1>4. \/ UNCHANGED hb \/ Open
      \/ \E g \in Opens : CloseHealth(g) \/ HeartbeatTick(g) \/ HeartbeatTakeComms(g)
                          \/ HeartbeatExchange(g) \/ HeartbeatTeardown(g)
  BY Zenon DEF Close, CloseFinish, SelfDerive, CloseDerive, SelfDeriveSkip, SelfDeriveTakeComms, SelfDeriveExchange,
       SelfDeriveInsert, SelfDeriveThrottled, Accounts, Derive, DeriveTakeComms, DeriveExchange, DerivePin, Sign,
       SignTakeComms, SignSend, SignAnswer, SignDone, SignPend, RefreshStart, RefreshEnumerate, RefreshMerge,
       OtherWalletFails, Plug
<1>5. \/ UNCHANGED sd \/ Open
      \/ \E g \in Opens : CloseDerive(g) \/ SelfDeriveSkip(g) \/ SelfDeriveTakeComms(g) \/ SelfDeriveExchange(g)
                          \/ SelfDeriveInsert(g) \/ SelfDeriveThrottled(g) \/ (\E c \in Callers : Accounts(c, g))
  BY Zenon DEF Close, CloseFinish, SelfDerive, CloseHealth, HeartbeatTick,
       HeartbeatTakeComms, HeartbeatExchange, HeartbeatTeardown, Derive, DeriveTakeComms, DeriveExchange, DerivePin, Sign,
       SignTakeComms, SignSend, SignAnswer, SignDone, SignPend, RefreshStart, RefreshEnumerate, RefreshMerge,
       OtherWalletFails, Plug
<1>6. \/ UNCHANGED call
      \/ \E g \in Opens : SelfDeriveSkip(g) \/ SelfDeriveInsert(g) \/ (\E c \in Callers : Accounts(c, g))
      \/ \E c \in Callers : \/ Derive(c) \/ DeriveTakeComms(c) \/ DeriveExchange(c) \/ DerivePin(c)
                            \/ \E kind \in Kinds : Sign(c, kind)
                            \/ SignTakeComms(c) \/ SignSend(c) \/ SignAnswer(c) \/ SignDone(c)
                            \/ \E len \in PayloadLengths : SignPend(c, len)
  BY Zenon DEF Open, Close, CloseFinish, SelfDerive, CloseHealth, CloseDerive, HeartbeatTick,
       HeartbeatTakeComms, HeartbeatExchange, HeartbeatTeardown, SelfDeriveTakeComms, SelfDeriveExchange,
       SelfDeriveThrottled, RefreshStart, RefreshEnumerate, RefreshMerge,
       OtherWalletFails, Plug
<1>. QED BY <1>1, <1>2, <1>3, <1>4, <1>5, <1>6, Zenon

-----------------------------------------------------------------------------
(* Blocks *)

LEMMA BlockSizeFacts ==
    ASSUME NEW len \in PayloadLengths
    PROVE  /\ len \in Nat
           /\ BlockSize(len) \in 1..MaxBlock
           /\ len % BlockSize(len) > Eip155Size
<1>1. len \in Nat /\ MaxBlock = 255 /\ Eip155Size = 3
  BY WalletAssumption DEF MaxBlock, Eip155Size
<1>. DEFINE Good == {d \in Nat : MaxBlock - d \in 1..MaxBlock /\ len % (MaxBlock - d) > Eip155Size}
<1>2. Good # {}
  <2>1. PICK k \in 1..MaxBlock : len % k > Eip155Size
    BY BlockAssumption
  <2>2. MaxBlock - (MaxBlock - k) = k /\ MaxBlock - k \in Nat
    BY <1>1
  <2>. QED BY <2>1, <2>2
<1>3. PICK d \in Good : \A e \in Good : d <= e
  <2>1. Good \subseteq Nat
    OBVIOUS
  <2>. QED BY <1>2, <2>1, LeastNatural
<1>4. \A j \in ((MaxBlock - d) + 1)..MaxBlock : len % j <= Eip155Size
  <2> SUFFICES ASSUME NEW j \in ((MaxBlock - d) + 1)..MaxBlock PROVE len % j <= Eip155Size
    OBVIOUS
  <2>1. d \in Nat /\ j \in 1..MaxBlock /\ MaxBlock - j < d /\ MaxBlock - j \in Nat /\ MaxBlock - (MaxBlock - j) = j
    BY <1>1, <1>3
  <2>2. MaxBlock - j \notin Good
    BY <1>3, <2>1
  <2>3. ~(len % j > Eip155Size)
    BY <2>1, <2>2
  <2>4. len % j \in Nat
    BY <1>1, <2>1
  <2>. QED BY <1>1, <2>3, <2>4
<1>5. \E k \in 1..MaxBlock : len % k > Eip155Size /\ \A j \in (k + 1)..MaxBlock : len % j <= Eip155Size
  BY <1>3, <1>4
<1>. QED BY <1>1, <1>5 DEF BlockSize

\* One block: it is not empty and no longer than what is left, it is the last one only if it
\* is long enough, and otherwise it leaves whole blocks and the last one.
LEMMA NextBlockFacts ==
    ASSUME NEW m \in MessageState, LeftToSend(m)
    PROVE  /\ NextBlock(m) \in Nat \ {0}
           /\ m.sent + NextBlock(m) = m.len => NextBlock(m) > Eip155Size
           /\ m.sent + NextBlock(m) # m.len => LeftToSend([m EXCEPT !.sent = m.sent + NextBlock(m), !.pc = "send"])
<1>. DEFINE n == NextBlock(m)
<1>1. m.sent \in Nat /\ m.len \in Nat /\ Eip155Size = 3 /\ TypedLength = 85
  BY DEF MessageState, Eip155Size, TypedLength
<1>2. CASE m.kind = "typed"
  BY <1>1, <1>2 DEF LeftToSend, NextBlock
<1>3. CASE m.kind # "typed"
  <2>. DEFINE k == BlockSize(m.len)
              last == m.len % k
  <2>1. m.len \in PayloadLengths
    BY <1>3 DEF LeftToSend
  <2>2. PICK j \in Nat : m.len - m.sent = j * k + last
    BY <1>3 DEF LeftToSend
  <2>3. k \in 1..255 /\ last > 3
    BY <2>1, BlockSizeFacts, <1>1 DEF MaxBlock
  <2>4. last \in Nat /\ last < k
    BY <1>1, <2>3
  <2>5. n = IF k > m.len - m.sent THEN m.len - m.sent ELSE k
    BY <1>3 DEF NextBlock
  <2>. HIDE DEF k, last, n
  <2>6. CASE j = 0
    <3>1. m.len - m.sent = last
      BY <2>2, <2>3, <2>4, <2>6
    <3>. QED BY <1>1, <2>3, <2>4, <2>5, <3>1 DEF n
  <2>7. CASE j # 0
    <3>1. PICK i \in Nat : j = i + 1
      <4>1. j - 1 \in Nat /\ j = (j - 1) + 1
        BY <2>7
      <4>. QED BY <4>1
    <3>2. j * k = i * k + k /\ i * k \in Nat
      BY <2>3, <3>1
    <3>3. m.len - m.sent = (i * k + k) + last
      BY <2>2, <3>2
    <3>4. n = k /\ m.sent + n # m.len /\ m.len - (m.sent + n) = i * k + last
      BY <1>1, <2>3, <2>4, <2>5, <3>2, <3>3
    <3>. DEFINE m2 == [m EXCEPT !.sent = m.sent + n, !.pc = "send"]
    <3>5. m2.kind # "typed" /\ m2.len = m.len /\ m2.sent = m.sent + n
      BY <1>3 DEF MessageState
    <3>. HIDE DEF m2
    <3>6. LeftToSend(m2)
      BY <2>1, <3>4, <3>5 DEF LeftToSend, k, last
    <3>. QED BY <1>1, <2>3, <3>4, <3>6 DEF n, m2
  <2>. QED BY <2>6, <2>7
<1>. QED BY <1>2, <1>3

\* The shape of what a caller is in the middle of.
LEMMA CallShape ==
    ASSUME NEW s \in CallState
    PROVE  /\ s.pc \in {"idle", "accounts", "derive", "exchange", "pin", "done"} =>
                s \in [pc : {"idle", "accounts", "derive", "exchange", "pin", "done"}]
           /\ s.pc \in {"sign", "pend"} => s \in [pc : {"sign", "pend"}, kind : Kinds]
           /\ s.pc \in {"send", "confirm"} => s \in MessageState
           /\ s.pc = "send" => LeftToSend(s)
           /\ s.pc = "confirm" => s.sent = s.len
BY DEF CallState, MessageState

LEMMA CallTypeStep ==
    ASSUME WalletType, Next
    PROVE  call' \in [Callers -> CallState]
<1>1. call \in [Callers -> CallState] /\ bound \in Instances
  BY DEF WalletType
<1>2. CASE UNCHANGED call
  BY <1>1, <1>2
<1>3. ASSUME NEW g \in Opens, SelfDeriveSkip(g) \/ SelfDeriveInsert(g)
      PROVE  call' \in [Callers -> CallState]
  BY <1>1, <1>3 DEF SelfDeriveSkip, SelfDeriveInsert, Reply, CallState, Idle
<1>4. ASSUME NEW c \in Callers,
             \/ \E g \in Opens : Accounts(c, g)
             \/ Derive(c) \/ DerivePin(c) \/ SignAnswer(c) \/ SignDone(c)
      PROVE  call' \in [Callers -> CallState]
  BY <1>1, <1>4 DEF Accounts, Derive, DerivePin, SignAnswer, SignDone, CallState, Idle
<1>5. ASSUME NEW c \in Callers, DeriveExchange(c) PROVE call' \in [Callers -> CallState]
  BY <1>1, <1>5 DEF DeriveExchange, CallState, Idle
<1>6. ASSUME NEW c \in Callers, NEW kind \in Kinds, Sign(c, kind) PROVE call' \in [Callers -> CallState]
  BY <1>1, <1>6 DEF Sign, CallState
<1>7. ASSUME NEW c \in Callers, DeriveTakeComms(c) PROVE call' \in [Callers -> CallState]
  <2>1. call[c] \in [pc : {"idle", "accounts", "derive", "exchange", "pin", "done"}]
    BY <1>1, <1>7, CallShape DEF DeriveTakeComms
  <2>2. [call[c] EXCEPT !.pc = "exchange"] \in CallState
    BY <2>1 DEF CallState
  <2>. QED BY <1>1, <1>7, <2>2 DEF DeriveTakeComms
<1>8. ASSUME NEW c \in Callers, SignTakeComms(c) PROVE call' \in [Callers -> CallState]
  <2>1. call[c] \in [pc : {"sign", "pend"}, kind : Kinds]
    BY <1>1, <1>8, CallShape DEF SignTakeComms
  <2>2. [call[c] EXCEPT !.pc = "pend"] \in CallState
    BY <2>1 DEF CallState
  <2>. QED BY <1>1, <1>8, <2>2 DEF SignTakeComms
<1>9. ASSUME NEW c \in Callers, NEW len \in PayloadLengths, SignPend(c, len) PROVE call' \in [Callers -> CallState]
  <2>1. call[c].pc = "pend" /\ call[c].kind \in Kinds
    BY <1>1, <1>9, CallShape DEF SignPend
  <2>2. len \in Nat /\ TypedLength \in Nat
    BY WalletAssumption DEF TypedLength
  <2>. DEFINE m == [pc |-> "send", kind |-> call[c].kind, sent |-> 0,
                    len |-> IF call[c].kind = "typed" THEN TypedLength ELSE len]
  <2>3. m \in MessageState
    BY <2>1, <2>2 DEF MessageState
  <2>4. LeftToSend(m)
    <3>1. BlockSize(len) \in Nat \ {0}
      BY BlockSizeFacts DEF MaxBlock
    <3>2. len \div BlockSize(len) \in Nat
          /\ len - 0 = (len \div BlockSize(len)) * BlockSize(len) + (len % BlockSize(len))
      BY <2>2, <3>1
    <3>. QED BY <3>2 DEF LeftToSend
  <2>5. m.pc = "send" /\ m \in CallState /\ [pc |-> "done"] \in CallState
    BY <2>3, <2>4 DEF CallState
  <2>6. call' = [call EXCEPT ![c] = IF ~Supported(call[c].kind) THEN [pc |-> "done"] ELSE m]
    BY <1>9 DEF SignPend
  <2>. HIDE DEF m
  <2>. QED BY <1>1, <2>5, <2>6
<1>10. ASSUME NEW c \in Callers, SignSend(c) PROVE call' \in [Callers -> CallState]
  <2>. DEFINE m == call[c]
              n == NextBlock(m)
              m2 == [m EXCEPT !.sent = m.sent + n, !.pc = IF m.sent + n = m.len THEN "confirm" ELSE "send"]
  <2>1. m \in MessageState /\ LeftToSend(m) /\ m.pc = "send"
    BY <1>1, <1>10, CallShape DEF SignSend
  <2>2. n \in Nat /\ (m.sent + n # m.len => LeftToSend([m EXCEPT !.sent = m.sent + n, !.pc = "send"]))
    BY <2>1, NextBlockFacts
  <2>3. call' = [call EXCEPT ![c] = m2] \/ call' = [call EXCEPT ![c] = [pc |-> "done"]]
    BY <1>1, <1>10 DEF SignSend
  <2>. HIDE DEF n
  <2>4. m2 \in MessageState
    <3>1. m.sent + n \in Nat
      BY <2>1, <2>2 DEF MessageState
    <3>. QED BY <2>1, <3>1 DEF MessageState
  <2>5. m2 \in CallState
    <3>1. CASE m.sent + n = m.len
      BY <2>1, <2>4, <3>1 DEF CallState, MessageState
    <3>2. CASE m.sent + n # m.len
      BY <2>1, <2>2, <2>4, <3>2 DEF CallState, MessageState
    <3>. QED BY <3>1, <3>2
  <2>6. [pc |-> "done"] \in CallState
    BY DEF CallState
  <2>. HIDE DEF m2
  <2>. QED BY <1>1, <2>3, <2>5, <2>6
<1>. QED BY <1>1, <1>2, <1>3, <1>4, <1>5, <1>6, <1>7, <1>8, <1>9, <1>10, Frames, Zenon

LEMMA WalletTypeStep == WalletType /\ [Next]_vars => WalletType'
<1> SUFFICES ASSUME WalletType, [Next]_vars PROVE WalletType'
  OBVIOUS
<1>1. CASE UNCHANGED vars
  BY <1>1 DEF WalletType, vars, locks, hubVars, history, WalletState, Bases, DeriverState
<1>2. CASE Next
  <2>1. bound \in Instances
    BY DEF WalletType
  <2>2. w' \in WalletState /\ opens' \in 0..MaxOpens
    <3>1. w \in WalletState /\ opens \in 0..MaxOpens /\ opens \in Nat
      BY BoundFacts DEF WalletType
    <3>2. CASE UNCHANGED <<w, opens>>
      BY <3>1, <3>2
    <3>3. CASE Open
      <4>1. opens' = opens + 1 /\ opens' \in 0..MaxOpens /\ opens' \in Nat
        BY <3>1, <3>3, <2>1, BoundFacts DEF Open
      <4>2. PICK app \in Apps : w' = [w EXCEPT !.device = TRUE, !.app = app, !.paths = {}, !.quit = opens']
        BY <3>3 DEF Open
      <4>3. \A n \in Nat : [w EXCEPT !.device = TRUE, !.app = app, !.paths = {}, !.quit = n] \in WalletState
        BY <3>1 DEF WalletState
      <4>. QED BY <4>1, <4>2, <4>3
    <3>4. CASE CloseFinish
      BY <3>1, <3>4 DEF CloseFinish, closeAndClear, Torn, WalletState
    <3>5. ASSUME NEW on \in BOOLEAN, SelfDerive(on) PROVE w' \in WalletState /\ opens' \in 0..MaxOpens
      BY <3>1, <3>5 DEF SelfDerive, WalletState
    <3>6. ASSUME NEW g \in Opens, HeartbeatTeardown(g) PROVE w' \in WalletState /\ opens' \in 0..MaxOpens
      BY <3>1, <3>6 DEF HeartbeatTeardown, close, Torn, WalletState
    <3>7. ASSUME NEW g \in Opens, SelfDeriveExchange(g) PROVE w' \in WalletState /\ opens' \in 0..MaxOpens
      <4>1. PICK reached \in [Bases -> 0..bound.index] : w' = [w EXCEPT !.next = reached]
        BY <3>7 DEF SelfDeriveExchange
      <4>2. reached \in [Bases -> Nat]
        BY <2>1, BoundFacts
      <4>. QED BY <3>1, <3>7, <4>1, <4>2 DEF SelfDeriveExchange, WalletState
    <3>8. ASSUME NEW g \in Opens, SelfDeriveInsert(g) PROVE w' \in WalletState /\ opens' \in 0..MaxOpens
      <4>1. sd[g].pc = "insert" /\ sd[g] \in DeriverState
        BY <3>8 DEF SelfDeriveInsert, WalletType
      <4>2. sd[g].accs \in SUBSET (Nat \X Nat) /\ sd[g].next \in [Bases -> Nat]
        BY <4>1 DEF DeriverState
      <4>3. UNCHANGED w \/ w' = [w EXCEPT !.paths = @ \union sd[g].accs, !.next = sd[g].next]
        BY <3>8 DEF SelfDeriveInsert
      <4>4. w.paths \union sd[g].accs \in SUBSET (Nat \X Nat)
        BY <3>1, <4>2 DEF WalletState
      <4>. QED BY <3>1, <3>8, <4>2, <4>3, <4>4 DEF SelfDeriveInsert, WalletState
    <3>9. ASSUME NEW c \in Callers, DerivePin(c) PROVE w' \in WalletState /\ opens' \in 0..MaxOpens
      <4>1. Addresses \in SUBSET (Nat \X Nat)
        BY <2>1, BoundFacts DEF Addresses
      <4>. QED BY <3>1, <3>9, <4>1 DEF DerivePin, WalletState
    <3>. QED BY <1>2, <2>1, <3>2, <3>3, <3>4, <3>5, <3>6, <3>7, <3>8, <3>9, Frames, Zenon
  <2>3. owner' \in OwnerState
    <3>1. owner \in OwnerState /\ w.quit \in Nat
      BY DEF WalletType, WalletState
    <3>2. CASE UNCHANGED owner
      BY <3>1, <3>2
    <3>3. CASE Close
      BY <3>1, <3>3 DEF Close, OwnerState
    <3>4. CASE CloseFinish
      BY <3>1, <3>4 DEF CloseFinish, OwnerState, Idle
    <3>5. ASSUME NEW g \in Opens, CloseHealth(g) \/ CloseDerive(g) PROVE owner' \in OwnerState
      BY <3>1, <3>5 DEF CloseHealth, CloseDerive, OwnerState
    <3>. QED BY <1>2, <2>1, <3>2, <3>3, <3>4, <3>5, Frames, Zenon
  <2>4. hb' \in [Opens -> HeartbeatState]
    <3>1. hb \in [Opens -> HeartbeatState] /\ w.quit \in Nat
      BY DEF WalletType, WalletState
    <3>2. CASE UNCHANGED hb
      BY <3>1, <3>2
    <3>3. CASE Open
      <4>1. opens' \in Nat
        BY <2>2, BoundFacts, <2>1
      <4>. QED BY <3>1, <3>3, <4>1 DEF Open, HeartbeatState
    <3>4. ASSUME NEW g \in Opens, CloseHealth(g) \/ HeartbeatTeardown(g) PROVE hb' \in [Opens -> HeartbeatState]
      BY <3>1, <3>4 DEF CloseHealth, HeartbeatTeardown, HeartbeatState, Idle
    <3>5. ASSUME NEW g \in Opens, HeartbeatTick(g) \/ HeartbeatTakeComms(g) PROVE hb' \in [Opens -> HeartbeatState]
      BY <3>1, <3>5 DEF HeartbeatTick, HeartbeatTakeComms, HeartbeatState
    <3>6. ASSUME NEW g \in Opens, HeartbeatExchange(g) PROVE hb' \in [Opens -> HeartbeatState]
      BY <3>1, <3>6 DEF HeartbeatExchange, HeartbeatState
    <3>. QED BY <1>2, <2>1, <3>2, <3>3, <3>4, <3>5, <3>6, Frames, Zenon
  <2>5. sd' \in [Opens -> DeriverState]
    <3>1. sd \in [Opens -> DeriverState] /\ w.quit \in Nat
      BY DEF WalletType, WalletState
    <3>2. CASE UNCHANGED sd
      BY <3>1, <3>2
    <3>3. CASE Open
      <4>1. opens' \in Nat
        BY <2>2, BoundFacts, <2>1
      <4>. QED BY <3>1, <3>3, <4>1 DEF Open, DeriverState
    <3>4. ASSUME NEW g \in Opens, CloseDerive(g) \/ SelfDeriveSkip(g) \/ SelfDeriveThrottled(g)
          PROVE  sd' \in [Opens -> DeriverState]
      BY <3>1, <3>4 DEF CloseDerive, SelfDeriveSkip, SelfDeriveThrottled, DeriverState, Idle
    <3>5. ASSUME NEW g \in Opens, SelfDeriveTakeComms(g) PROVE sd' \in [Opens -> DeriverState]
      <4>1. sd[g].by \in Callers
        BY <3>1, <3>5 DEF SelfDeriveTakeComms, DeriverState
      <4>. QED BY <3>1, <3>5, <4>1 DEF SelfDeriveTakeComms, DeriverState
    <3>6. ASSUME NEW g \in Opens, SelfDeriveExchange(g) PROVE sd' \in [Opens -> DeriverState]
      <4>1. sd[g].by \in Callers
        BY <3>1, <3>6 DEF SelfDeriveExchange, DeriverState
      <4>2. PICK reached \in [Bases -> 0..bound.index], ok \in BOOLEAN :
              sd' = [sd EXCEPT ![g] = [pc |-> "insert", by |-> sd[g].by, ok |-> ok,
                                       accs |-> Derived(reached, ok), next |-> reached]]
        BY <3>6 DEF SelfDeriveExchange, Outcomes
      <4>3. reached \in [Bases -> Nat] /\ Addresses \in SUBSET (Nat \X Nat)
            /\ <<LastBase, reached[LastBase]>> \in Nat \X Nat
        BY <2>1, BoundFacts DEF Addresses
      <4>4. Derived(reached, ok) \in SUBSET (Nat \X Nat)
        BY <4>3 DEF Derived
      <4>5. [pc |-> "insert", by |-> sd[g].by, ok |-> ok, accs |-> Derived(reached, ok), next |-> reached] \in DeriverState
        BY <4>1, <4>3, <4>4 DEF DeriverState
      <4>. QED BY <3>1, <4>2, <4>5
    <3>7. ASSUME NEW g \in Opens, SelfDeriveInsert(g) PROVE sd' \in [Opens -> DeriverState]
      BY <3>1, <3>7 DEF SelfDeriveInsert, DeriverState
    <3>8. ASSUME NEW g \in Opens, NEW c \in Callers, Accounts(c, g) PROVE sd' \in [Opens -> DeriverState]
      BY <3>1, <3>8 DEF Accounts, DeriverState
    <3>. QED BY <1>2, <2>1, <3>2, <3>3, <3>4, <3>5, <3>6, <3>7, <3>8, Frames, Zenon
  <2>. QED BY <1>2, <2>1, <2>2, <2>3, <2>4, <2>5, CallTypeStep, Frames DEF WalletType, WalletState, Bases, DeriverState
<1>. QED BY <1>1, <1>2

-----------------------------------------------------------------------------
(* Locks *)

TalkPcs == {"exchange", "pend", "send", "confirm", "done"}

\* Who is at a step that needs a lock holds it, and the device is open under the read lock.
HeartbeatLocks ==
    \A g \in Opens : /\ hb[g].pc = "exchange" => comm = Hb(g)
                     /\ hb[g].pc \in {"wait", "exchange"} => Hb(g) \in readers
DeriverLocks == \A g \in Opens : sd[g].pc = "exchange" => comm = Sd(g) /\ Sd(g) \in readers
CallLocks ==
    \A c \in Callers : /\ call[c].pc \in TalkPcs => comm = Caller(c)
                       /\ call[c].pc \in TalkPcs \cup {"derive", "sign"} => Caller(c) \in readers
OpenWhileRead == readers # {} => w.device
LockInv == HeartbeatLocks /\ DeriverLocks /\ CallLocks /\ OpenWhileRead

\* The processes have different names.
LEMMA Names ==
    /\ \A g, h : Hb(g) # Sd(h) /\ Hb(g) # Caller(h) /\ Sd(g) # Caller(h)
    /\ \A g, h : (Hb(g) = Hb(h) => g = h) /\ (Sd(g) = Sd(h) => g = h) /\ (Caller(g) = Caller(h) => g = h)
    /\ \A g : None # Hb(g) /\ None # Sd(g) /\ None # Caller(g)
BY DEF Hb, Sd, Caller, None

LEMMA PcDomains ==
    ASSUME WalletType
    PROVE  /\ DOMAIN hb = Opens /\ DOMAIN sd = Opens /\ DOMAIN call = Callers
           /\ \A g \in Opens : "pc" \in DOMAIN hb[g] /\ "pc" \in DOMAIN sd[g]
           /\ \A c \in Callers : "pc" \in DOMAIN call[c]
<1>1. \A s \in HeartbeatState : "pc" \in DOMAIN s
  BY DEF HeartbeatState
<1>2. \A s \in DeriverState : "pc" \in DOMAIN s
  BY DEF DeriverState
<1>3. \A s \in CallState : "pc" \in DOMAIN s
  BY DEF CallState, MessageState
<1>. QED BY <1>1, <1>2, <1>3 DEF WalletType

LEMMA LockInvInit == Init => LockInv
BY DEF Init, Idle, LockInv, HeartbeatLocks, DeriverLocks, CallLocks, OpenWhileRead, TalkPcs

\* Steps of the owner, and all others that move no lock.
LEMMA LocksKept ==
    ASSUME WalletType, LockInv, UNCHANGED locks,
           \A g \in Opens : hb'[g].pc = hb[g].pc \/ hb'[g].pc \notin {"wait", "exchange"},
           \A g \in Opens : sd'[g].pc = sd[g].pc \/ sd'[g].pc # "exchange",
           \A c \in Callers : \/ call'[c].pc = call[c].pc
                              \/ call'[c].pc \notin TalkPcs \cup {"derive", "sign"}
                              \/ call[c].pc \in TalkPcs,
           readers = {} \/ w'.device = w.device
    PROVE  LockInv'
BY DEF LockInv, HeartbeatLocks, DeriverLocks, CallLocks, OpenWhileRead, locks

LEMMA LockInvStep == WalletType /\ LockInv /\ [Next]_vars => LockInv'
<1> SUFFICES ASSUME WalletType, LockInv, [Next]_vars PROVE LockInv'
  OBVIOUS
<1>. USE PcDomains
<1>1. CASE UNCHANGED vars
  BY <1>1 DEF LockInv, vars, locks, HeartbeatLocks, DeriverLocks, CallLocks, OpenWhileRead
<1>2. CASE Open \/ Close \/ CloseFinish \/ (\E on \in BOOLEAN : SelfDerive(on))
  <2>1. UNCHANGED <<locks, call>> /\ (readers = {} \/ w'.device = w.device)
    BY <1>2 DEF Open, Close, CloseFinish, SelfDerive
  <2>2. \A g \in Opens : /\ hb'[g].pc = hb[g].pc \/ hb'[g].pc = "select"
                         /\ sd'[g].pc = sd[g].pc \/ sd'[g].pc = "select"
    <3>1. CASE Open
      <4>1. PICK n : hb' = [hb EXCEPT ![n] = [pc |-> "select", ch |-> n]] /\ sd' = [sd EXCEPT ![n] = [pc |-> "select", ch |-> n]]
        BY <3>1, Zenon DEF Open
      <4>. QED BY <4>1
    <3>2. CASE ~Open
      BY <1>2, <3>2 DEF Close, CloseFinish, SelfDerive
    <3>. QED BY <3>1, <3>2
  <2>. QED BY <2>1, <2>2, LocksKept
<1>3. ASSUME NEW g \in Opens, CloseHealth(g) \/ CloseDerive(g) PROVE LockInv'
  <2>1. UNCHANGED <<locks, call, w>>
    BY <1>3 DEF CloseHealth, CloseDerive
  <2>2. \A i \in Opens : /\ hb'[i].pc = hb[i].pc \/ hb'[i].pc = "idle"
                         /\ sd'[i].pc = sd[i].pc \/ sd'[i].pc = "idle"
    BY <1>3 DEF CloseHealth, CloseDerive, Idle
  <2>. QED BY <2>1, <2>2, LocksKept
<1>4. ASSUME NEW g \in Opens, HeartbeatTick(g) PROVE LockInv'
  BY <1>4, Names DEF HeartbeatTick, RLock, LockInv, HeartbeatLocks, DeriverLocks, CallLocks, OpenWhileRead
<1>5. ASSUME NEW g \in Opens, HeartbeatTakeComms(g) PROVE LockInv'
  BY <1>5, Names DEF HeartbeatTakeComms, TakeComms, LockInv, HeartbeatLocks, DeriverLocks, CallLocks, OpenWhileRead
<1>6. ASSUME NEW g \in Opens, HeartbeatExchange(g) PROVE LockInv'
  BY <1>6, Names DEF HeartbeatExchange, ReleaseComms, RUnlock, LockInv, HeartbeatLocks, DeriverLocks, CallLocks, OpenWhileRead
<1>7. ASSUME NEW g \in Opens, HeartbeatTeardown(g) PROVE LockInv'
  BY <1>7, LocksKept DEF HeartbeatTeardown
<1>8. ASSUME NEW g \in Opens, SelfDeriveSkip(g) \/ SelfDeriveThrottled(g) PROVE LockInv'
  BY <1>8, LocksKept DEF SelfDeriveSkip, SelfDeriveThrottled, Reply, Idle, TalkPcs
<1>9. ASSUME NEW g \in Opens, SelfDeriveTakeComms(g) PROVE LockInv'
  BY <1>9, Names DEF SelfDeriveTakeComms, TakeComms, RLock, LockInv, HeartbeatLocks, DeriverLocks, CallLocks, OpenWhileRead
<1>10. ASSUME NEW g \in Opens, SelfDeriveExchange(g) PROVE LockInv'
  <2>1. w'.device = w.device
    BY <1>10 DEF SelfDeriveExchange, WalletType, WalletState
  <2>2. sd'[g].pc = "insert" /\ (\A i \in Opens \ {g} : sd'[i] = sd[i]) /\ UNCHANGED <<hb, call>>
        /\ comm' = None /\ readers' = readers \ {Sd(g)} /\ comm = Sd(g)
    BY <1>10 DEF SelfDeriveExchange, ReleaseComms, RUnlock, LockInv, DeriverLocks
  <2>. QED BY <2>1, <2>2, Names DEF LockInv, HeartbeatLocks, DeriverLocks, CallLocks, OpenWhileRead
<1>11. ASSUME NEW g \in Opens, SelfDeriveInsert(g) PROVE LockInv'
  BY <1>11, LocksKept DEF SelfDeriveInsert, Reply, Idle, TalkPcs
<1>12. ASSUME NEW c \in Callers, NEW g \in Opens, Accounts(c, g) PROVE LockInv'
  BY <1>12, LocksKept DEF Accounts, TalkPcs
<1>13. ASSUME NEW c \in Callers, Derive(c) PROVE LockInv'
  BY <1>13, Names DEF Derive, RLock, LockInv, HeartbeatLocks, DeriverLocks, CallLocks, OpenWhileRead, TalkPcs
<1>14. ASSUME NEW c \in Callers, DeriveTakeComms(c) PROVE LockInv'
  BY <1>14, Names DEF DeriveTakeComms, TakeComms, LockInv, HeartbeatLocks, DeriverLocks, CallLocks, OpenWhileRead, TalkPcs
<1>15. ASSUME NEW c \in Callers, DeriveExchange(c) PROVE LockInv'
  <2>1. call'[c].pc \in {"pin", "idle"} /\ (\A i \in Callers \ {c} : call'[i] = call[i]) /\ UNCHANGED <<hb, sd, w>>
        /\ comm' = None /\ readers' = readers \ {Caller(c)}
    BY <1>15 DEF DeriveExchange, ReleaseComms, RUnlock, Idle
  <2>2. comm = Caller(c)
    BY <1>15 DEF DeriveExchange, LockInv, CallLocks, TalkPcs
  <2>. QED BY <2>1, <2>2, Names DEF LockInv, HeartbeatLocks, DeriverLocks, CallLocks, OpenWhileRead, TalkPcs
<1>16. ASSUME NEW c \in Callers, DerivePin(c) PROVE LockInv'
  BY <1>16, LocksKept DEF DerivePin, Idle, TalkPcs
<1>17. ASSUME NEW c \in Callers, NEW kind \in Kinds, Sign(c, kind) PROVE LockInv'
  BY <1>17, Names DEF Sign, RLock, LockInv, HeartbeatLocks, DeriverLocks, CallLocks, OpenWhileRead, TalkPcs
<1>18. ASSUME NEW c \in Callers, SignTakeComms(c) PROVE LockInv'
  BY <1>18, Names DEF SignTakeComms, TakeComms, LockInv, HeartbeatLocks, DeriverLocks, CallLocks, OpenWhileRead, TalkPcs
<1>19. ASSUME NEW c \in Callers, NEW len \in PayloadLengths, SignPend(c, len) PROVE LockInv'
  <2>1. call[c].pc = "pend" /\ (\A i \in Callers \ {c} : call'[i] = call[i]) /\ UNCHANGED <<hb, sd, w, locks>>
    BY <1>19 DEF SignPend
  <2>. QED BY <2>1, LocksKept DEF TalkPcs
<1>20. ASSUME NEW c \in Callers, SignSend(c) \/ SignAnswer(c) PROVE LockInv'
  <2>1. call[c].pc \in TalkPcs /\ (\A i \in Callers \ {c} : call'[i] = call[i]) /\ UNCHANGED <<hb, sd, w, locks>>
    BY <1>20 DEF SignSend, SignAnswer, TalkPcs
  <2>. QED BY <2>1, LocksKept
<1>21. ASSUME NEW c \in Callers, SignDone(c) PROVE LockInv'
  <2>1. call'[c].pc = "idle" /\ (\A i \in Callers \ {c} : call'[i] = call[i]) /\ UNCHANGED <<hb, sd, w>>
        /\ comm' = None /\ readers' = readers \ {Caller(c)}
    BY <1>21 DEF SignDone, ReleaseComms, RUnlock, Idle
  <2>2. comm = Caller(c)
    BY <1>21 DEF SignDone, LockInv, CallLocks, TalkPcs
  <2>. QED BY <2>1, <2>2, Names DEF LockInv, HeartbeatLocks, DeriverLocks, CallLocks, OpenWhileRead, TalkPcs
<1>22. CASE \/ \E r \in Refreshers : RefreshStart(r) \/ RefreshEnumerate(r) \/ RefreshMerge(r)
            \/ \E id \in 1..hub.created : OtherWalletFails(id)
            \/ \E u \in Urls : Plug(u)
  <2>1. UNCHANGED <<w, locks, hb, sd, call>>
    BY <1>22 DEF RefreshStart, RefreshEnumerate, RefreshMerge, OtherWalletFails, Plug
  <2>. QED BY <2>1, LocksKept
<1>23. bound \in Instances
  BY DEF WalletType
<1>. QED BY <1>1, <1>2, <1>3, <1>4, <1>5, <1>6, <1>7, <1>8, <1>9, <1>10, <1>11, <1>12, <1>13, <1>14, <1>15, <1>16,
            <1>17, <1>18, <1>19, <1>20, <1>21, <1>22, <1>23, NextCases, Zenon

\* Whoever talks to the device (ledgerExchange) does so alone and on a device that is open.
THEOREM CommsAreExclusive == Spec => []CommsExclusive
<1>1. ASSUME LockInv PROVE CommsExclusive
  <2>1. Talking \subseteq {comm}
    BY <1>1 DEF Talking, LockInv, HeartbeatLocks, DeriverLocks, CallLocks, TalkPcs
  <2>2. Cardinality({comm}) = 1 /\ IsFiniteSet({comm})
    BY FS_Singleton
  <2>3. Cardinality(Talking) <= 1
    BY <2>1, <2>2, FS_Subset
  <2>4. Talking # {} => readers # {}
    BY <1>1 DEF Talking, LockInv, HeartbeatLocks, DeriverLocks, CallLocks, TalkPcs
  <2>. QED BY <1>1, <2>3, <2>4 DEF CommsExclusive, LockInv, OpenWhileRead
<1>. QED BY <1>1, WalletTypeInit, WalletTypeStep, LockInvInit, LockInvStep, PTL DEF Spec

-----------------------------------------------------------------------------
(* Requests *)

\* A self-deriver at work has one caller that waits for it, and no other has the same.
BusyPcs == {"asked", "exchange", "insert"}
RequestInv ==
    /\ \A g \in Opens : sd[g].pc \in BusyPcs => sd[g].by \in Callers /\ call[sd[g].by].pc = "accounts"
    /\ \A g, h \in Opens : sd[g].pc \in BusyPcs /\ sd[h].pc \in BusyPcs /\ sd[g].by = sd[h].by => g = h

\* Callers other than those in Accounts move on their own.
LEMMA CallersAlone ==
    ASSUME WalletType, Next,
           NEW c \in Callers, \/ Derive(c) \/ DeriveTakeComms(c) \/ DeriveExchange(c) \/ DerivePin(c)
                              \/ \E kind \in Kinds : Sign(c, kind)
                              \/ SignTakeComms(c) \/ SignSend(c) \/ SignAnswer(c) \/ SignDone(c)
                              \/ \E len \in PayloadLengths : SignPend(c, len)
    PROVE  /\ call[c].pc # "accounts" /\ UNCHANGED sd
           /\ \A d \in Callers \ {c} : call'[d] = call[d]
BY PcDomains DEF Derive, DeriveTakeComms, DeriveExchange, DerivePin, Sign, SignTakeComms, SignSend, SignAnswer, SignDone,
   SignPend, Idle

LEMMA RequestInvStep == WalletType /\ RequestInv /\ [Next]_vars => RequestInv'
<1> SUFFICES ASSUME WalletType, RequestInv, [Next]_vars PROVE RequestInv'
  OBVIOUS
<1>1. CASE UNCHANGED <<sd, call>>
  BY <1>1 DEF RequestInv
<1>2. CASE Next
  <2>. USE PcDomains
  <2>1. ASSUME NEW c \in Callers, NEW g \in Opens, Accounts(c, g) PROVE RequestInv'
    <3>1. call[c].pc = "idle" /\ call'[c].pc = "accounts" /\ (\A d \in Callers \ {c} : call'[d] = call[d])
          /\ sd'[g].pc = "asked" /\ sd'[g].by = c /\ (\A h \in Opens \ {g} : sd'[h] = sd[h])
      BY <2>1 DEF Accounts, Idle
    <3>. QED BY <3>1 DEF RequestInv
  <2>2. ASSUME NEW g \in Opens, SelfDeriveSkip(g) \/ SelfDeriveInsert(g) PROVE RequestInv'
    <3>1. CASE UNCHANGED <<sd, call>>
      BY <3>1 DEF RequestInv
    <3>2. CASE ~UNCHANGED <<sd, call>>
      <4>1. sd[g].pc \in BusyPcs /\ sd'[g].pc \notin BusyPcs /\ (\A h \in Opens \ {g} : sd'[h] = sd[h])
            /\ (\A d \in Callers \ {sd[g].by} : call'[d] = call[d])
        BY <2>2, <3>2 DEF SelfDeriveSkip, SelfDeriveInsert, Reply, BusyPcs
      <4>. QED BY <4>1 DEF RequestInv
    <3>. QED BY <3>1, <3>2
  <2>3. ASSUME NEW g \in Opens, SelfDeriveTakeComms(g) \/ SelfDeriveExchange(g) PROVE RequestInv'
    <3>1. sd[g].pc \in BusyPcs /\ sd'[g].by = sd[g].by /\ (\A h \in Opens \ {g} : sd'[h] = sd[h]) /\ UNCHANGED call
      BY <2>3 DEF SelfDeriveTakeComms, SelfDeriveExchange, BusyPcs
    <3>. QED BY <3>1 DEF RequestInv
  <2>4. ASSUME NEW g \in Opens, CloseDerive(g) \/ SelfDeriveThrottled(g) PROVE RequestInv'
    <3>1. sd'[g].pc \notin BusyPcs /\ (\A h \in Opens \ {g} : sd'[h] = sd[h]) /\ UNCHANGED call
      BY <2>4 DEF CloseDerive, SelfDeriveThrottled, BusyPcs, Idle
    <3>. QED BY <3>1 DEF RequestInv
  <2>5. CASE Open
    <3>1. PICK n : sd' = [sd EXCEPT ![n] = [pc |-> "select", ch |-> n]] /\ UNCHANGED call
      BY <2>5, Zenon DEF Open
    <3>. QED BY <3>1 DEF RequestInv, BusyPcs
  <2>6. ASSUME NEW c \in Callers, UNCHANGED sd, call[c].pc # "accounts", \A d \in Callers \ {c} : call'[d] = call[d]
        PROVE  RequestInv'
    BY <2>6 DEF RequestInv
  <2>7. bound \in Instances
    BY DEF WalletType
  <2>. QED BY <1>1, <1>2, <2>1, <2>2, <2>3, <2>4, <2>5, <2>6, <2>7, Frames, CallersAlone, Zenon
<1>. QED BY <1>1, <1>2 DEF vars

-----------------------------------------------------------------------------
(* The hub and confirmations *)

\* commsPend counts the one caller between SignPend and SignDone, and whoever enumerates
\* does so at zero.
PendPcs == {"send", "confirm", "done"}
PendInv ==
    /\ "commsPend" \in DOMAIN hub /\ DOMAIN scan = Refreshers
    /\ (\A c \in Callers : call[c].pc \notin PendPcs) => hub.commsPend = 0
    /\ \A c \in Callers : call[c].pc \in PendPcs => hub.commsPend = 1
    /\ \A r \in Refreshers : scan[r].pc = "enumerate" => hub.commsPend = 0

\* Steps that neither start nor end a confirmation.
LEMMA PendKept ==
    ASSUME PendInv, UNCHANGED <<hub, scan>>,
           \A c \in Callers : call'[c].pc \in PendPcs <=> call[c].pc \in PendPcs
    PROVE  PendInv'
BY DEF PendInv

LEMMA PendInvInit == Init => PendInv
BY DEF Init, Idle, PendInv, PendPcs

LEMMA PendInvStep == WalletType /\ LockInv /\ RequestInv /\ PendInv /\ [Next]_vars => PendInv'
<1> SUFFICES ASSUME WalletType, LockInv, RequestInv, PendInv, [Next]_vars PROVE PendInv'
  OBVIOUS
<1>. USE PcDomains
<1>1. CASE UNCHANGED vars
  BY <1>1 DEF PendInv, vars, hubVars
<1>2. CASE Open \/ Close \/ CloseFinish \/ (\E on \in BOOLEAN : SelfDerive(on))
           \/ (\E g \in Opens : CloseHealth(g) \/ CloseDerive(g) \/ HeartbeatTick(g) \/ HeartbeatTakeComms(g)
                 \/ HeartbeatExchange(g) \/ HeartbeatTeardown(g) \/ SelfDeriveTakeComms(g) \/ SelfDeriveExchange(g)
                 \/ SelfDeriveThrottled(g))
           \/ (\E id \in 1..hub.created : OtherWalletFails(id)) \/ (\E u \in Urls : Plug(u))
  <2>1. UNCHANGED <<hub, scan, call>>
    BY <1>2 DEF hubVars, Open, Close, CloseFinish, SelfDerive, CloseHealth, CloseDerive, HeartbeatTick, HeartbeatTakeComms,
       HeartbeatExchange, HeartbeatTeardown, SelfDeriveTakeComms, SelfDeriveExchange, SelfDeriveThrottled, OtherWalletFails, Plug
  <2>. QED BY <2>1, PendKept
<1>3. ASSUME NEW g \in Opens, SelfDeriveSkip(g) \/ SelfDeriveInsert(g) PROVE PendInv'
  <2>1. sd[g].by \in Callers /\ call[sd[g].by].pc = "accounts"
    BY <1>3 DEF SelfDeriveSkip, SelfDeriveInsert, RequestInv, BusyPcs
  <2>2. UNCHANGED <<hub, scan>> /\ (UNCHANGED call \/ call' = [call EXCEPT ![sd[g].by] = Idle])
    BY <1>3 DEF SelfDeriveSkip, SelfDeriveInsert, Reply, hubVars
  <2>3. \A c \in Callers : call'[c].pc \in PendPcs <=> call[c].pc \in PendPcs
    BY <2>1, <2>2 DEF Idle, PendPcs
  <2>. QED BY <2>2, <2>3, PendKept
<1>4. ASSUME NEW c \in Callers,
             \/ \E g \in Opens : Accounts(c, g)
             \/ Derive(c) \/ DeriveTakeComms(c) \/ DeriveExchange(c) \/ DerivePin(c)
             \/ \E kind \in Kinds : Sign(c, kind)
             \/ SignTakeComms(c)
      PROVE  PendInv'
  <2>1. UNCHANGED <<hub, scan>> /\ call[c].pc \notin PendPcs
    BY <1>4 DEF hubVars, Accounts, Derive, DeriveTakeComms, DeriveExchange, DerivePin, Sign, SignTakeComms, Idle, PendPcs
  <2>2. call'[c].pc \notin PendPcs /\ (\A d \in Callers \ {c} : call'[d] = call[d])
    BY <1>4 DEF Accounts, Derive, DeriveTakeComms, DeriveExchange, DerivePin, Sign, SignTakeComms, Idle, PendPcs
  <2>. QED BY <2>1, <2>2, PendKept
<1>5. ASSUME NEW c \in Callers, SignSend(c) \/ SignAnswer(c) PROVE PendInv'
  <2>1. UNCHANGED <<hub, scan>> /\ call[c].pc \in PendPcs
    BY <1>5 DEF hubVars, SignSend, SignAnswer, PendPcs
  <2>2. call'[c].pc \in PendPcs /\ (\A d \in Callers \ {c} : call'[d] = call[d])
    BY <1>5 DEF SignSend, SignAnswer, PendPcs
  <2>. QED BY <2>1, <2>2, PendKept
<1>6. ASSUME NEW c \in Callers, NEW len \in PayloadLengths, SignPend(c, len) PROVE PendInv'
  <2>1. \A d \in Callers \ {c} : call[d].pc \notin PendPcs /\ call'[d] = call[d]
    BY <1>6, Names DEF SignPend, LockInv, CallLocks, TalkPcs, PendPcs
  <2>2. call[c].pc \notin PendPcs /\ call'[c].pc \in PendPcs
    BY <1>6 DEF SignPend, PendPcs
  <2>3. hub.commsPend = 0
    BY <2>1, <2>2 DEF PendInv
  <2>4. hub'.commsPend = 1 /\ "commsPend" \in DOMAIN hub' /\ scan' = scan
    BY <1>6, <2>3 DEF SignPend, PendInv
  <2>5. \A r \in Refreshers : scan[r].pc # "enumerate"
    BY <1>6 DEF SignPend, HubCommsFree
  <2>. QED BY <2>1, <2>2, <2>4, <2>5 DEF PendInv
<1>7. ASSUME NEW c \in Callers, SignDone(c) PROVE PendInv'
  <2>1. \A d \in Callers \ {c} : call[d].pc \notin PendPcs /\ call'[d] = call[d]
    BY <1>7, Names DEF SignDone, LockInv, CallLocks, TalkPcs, PendPcs
  <2>2. call[c].pc \in PendPcs /\ call'[c].pc \notin PendPcs
    BY <1>7 DEF SignDone, PendPcs, Idle
  <2>3. hub.commsPend = 1
    BY <2>2 DEF PendInv
  <2>4. hub'.commsPend = 0 /\ "commsPend" \in DOMAIN hub' /\ scan' = scan
    BY <1>7, <2>3 DEF SignDone, PendInv
  <2>. QED BY <2>1, <2>2, <2>4 DEF PendInv
<1>8. ASSUME NEW r \in Refreshers, RefreshStart(r) PROVE PendInv'
  <2>1. hub.commsPend \in {0, 1} /\ ~(hub.commsPend > 0)
    BY <1>8 DEF RefreshStart, ConfirmationPending, PendInv
  <2>2. hub.commsPend = 0
    BY <2>1
  <2>. QED BY <1>8, <2>2 DEF RefreshStart, PendInv
<1>9. ASSUME NEW r \in Refreshers, RefreshEnumerate(r) \/ RefreshMerge(r) PROVE PendInv'
  <2>1. hub'.commsPend = hub.commsPend /\ "commsPend" \in DOMAIN hub' /\ UNCHANGED call
    BY <1>9 DEF RefreshEnumerate, RefreshMerge, PendInv
  <2>2. scan'[r].pc # "enumerate" /\ (\A q \in Refreshers \ {r} : scan'[q] = scan[q]) /\ DOMAIN scan' = Refreshers
    BY <1>9 DEF RefreshEnumerate, RefreshMerge, PendInv, Idle
  <2>. QED BY <2>1, <2>2 DEF PendInv
<1>10. bound \in Instances
  BY DEF WalletType
<1>. QED BY <1>1, <1>2, <1>3, <1>4, <1>5, <1>6, <1>7, <1>8, <1>9, <1>10, NextCases, Zenon

LEMMA RequestInvInit == Init => RequestInv
BY DEF Init, Idle, RequestInv, BusyPcs

\* The hub never enumerates the bus while a user is asked to confirm (hub.refreshWallets
\* against SignTx, SignData and SignText).
THEOREM ConfirmationsAreUndisturbed == Spec => []NoEnumerationDuringConfirmation
<1>1. ASSUME PendInv PROVE NoEnumerationDuringConfirmation
  BY <1>1 DEF PendInv, PendPcs, NoEnumerationDuringConfirmation
<1>. QED BY <1>1, WalletTypeInit, WalletTypeStep, LockInvInit, LockInvStep, RequestInvInit, RequestInvStep,
            PendInvInit, PendInvStep, PTL DEF Spec

-----------------------------------------------------------------------------
(* Sessions *)

\* As long as no heartbeat has torn the wallet down, the device is open exactly when the
\* channels are there, the only self-deriver is that of this session, and Close takes the
\* lock when even that one has ended.
SessionInv ==
    ~torn => /\ w.device <=> w.quit # 0
             /\ \A g \in Opens : sd[g].pc # "idle" => g = w.quit
             /\ owner.pc = "close" => \A g \in Opens : sd[g].pc = "idle"
             /\ ~panicked

LEMMA SessionInvInit == Init => SessionInv
BY DEF Init, Idle, SessionInv

LEMMA SessionInvStep == WalletType /\ SessionInv /\ [Next]_vars => SessionInv'
<1> SUFFICES ASSUME WalletType, SessionInv, [Next]_vars, ~torn' PROVE SessionInv'
  BY DEF SessionInv
<1>1. CASE UNCHANGED vars
  BY <1>1 DEF SessionInv, vars, history
<1>2. CASE Next
  <2>. USE PcDomains
  <2>0. w \in WalletState /\ opens \in Nat /\ bound \in Instances /\ Opens \subseteq Nat \ {0}
    BY BoundFacts, WalletAssumption DEF WalletType, Opens
  <2>1. CASE Open
    <3>1. ~torn /\ ~w.device /\ owner' = Idle /\ ~panicked'
      BY <1>2, <2>1 DEF Open, history, Next
    <3>2. \A g \in Opens : sd[g].pc = "idle"
      BY <2>0, <3>1 DEF SessionInv
    <3>3. PICK n \in Nat \ {0} : opens' = n
      BY <2>0, <2>1 DEF Open
    <3>4. w'.device = TRUE /\ w'.quit = n
      <4>1. PICK app \in Apps : w' = [w EXCEPT !.device = TRUE, !.app = app, !.paths = {}, !.quit = n]
        BY <2>1, <3>3 DEF Open
      <4>. QED BY <2>0, <4>1 DEF WalletState
    <3>5. sd' = [sd EXCEPT ![n] = [pc |-> "select", ch |-> n]]
      BY <2>1, <3>3 DEF Open
    <3>6. \A g \in Opens : sd'[g].pc # "idle" => g = n
      BY <3>2, <3>5
    <3>. QED BY <3>1, <3>3, <3>4, <3>6 DEF SessionInv, Idle
  <2>2. CASE Close
    <3>1. UNCHANGED <<w, sd, torn, panicked>> /\ (owner'.pc = "close" => w.quit = 0)
      BY <2>2 DEF Close, history
    <3>. QED BY <2>0, <3>1 DEF SessionInv
  <2>3. CASE CloseFinish
    <3>1. owner.pc = "close" /\ owner' = Idle /\ UNCHANGED <<sd, torn, panicked>>
      BY <2>3 DEF CloseFinish, history
    <3>2. w'.quit = 0 /\ w'.device = FALSE
      BY <2>0, <2>3 DEF CloseFinish, closeAndClear, Torn, WalletState
    <3>. QED BY <3>1, <3>2 DEF SessionInv, Idle
  <2>4. ASSUME NEW g \in Opens, CloseHealth(g) PROVE SessionInv'
    <3>1. owner'.pc # "close" /\ UNCHANGED <<w, sd, torn, panicked>>
      BY <2>4 DEF CloseHealth, history, WalletType, OwnerState
    <3>. QED BY <3>1 DEF SessionInv
  <2>5. ASSUME NEW g \in Opens, CloseDerive(g) PROVE SessionInv'
    <3>1. sd[g].pc # "idle" /\ sd'[g].pc = "idle" /\ (\A h \in Opens \ {g} : sd'[h] = sd[h])
          /\ UNCHANGED <<w, torn, panicked>>
      BY <2>5 DEF CloseDerive, history, Idle
    <3>. QED BY <3>1 DEF SessionInv
  <2>6. ASSUME NEW on \in BOOLEAN, SelfDerive(on) PROVE SessionInv'
    <3>1. w'.device = w.device /\ w'.quit = w.quit /\ UNCHANGED <<owner, sd, torn, panicked>>
      BY <2>0, <2>6 DEF SelfDerive, history, WalletState
    <3>. QED BY <3>1 DEF SessionInv
  <2>7. ASSUME NEW g \in Opens, HeartbeatTeardown(g) PROVE SessionInv'
    BY <2>7 DEF HeartbeatTeardown
  <2>8. ASSUME NEW g \in Opens, SelfDeriveExchange(g) PROVE SessionInv'
    <3>1. sd[g].pc # "idle" /\ (\A h \in Opens \ {g} : sd'[h] = sd[h]) /\ UNCHANGED <<owner, torn, panicked>>
      BY <2>8 DEF SelfDeriveExchange, history
    <3>2. w'.device = w.device /\ w'.quit = w.quit
      BY <2>0, <2>8 DEF SelfDeriveExchange, WalletState
    <3>. QED BY <3>1, <3>2 DEF SessionInv
  <2>9. ASSUME NEW g \in Opens, SelfDeriveInsert(g) PROVE SessionInv'
    <3>1. ~torn /\ sd[g].pc # "idle" /\ UNCHANGED <<owner, torn>>
      BY <2>9 DEF SelfDeriveInsert
    <3>2. w.device /\ ~panicked
      BY <2>0, <3>1 DEF SessionInv
    <3>3. w' = [w EXCEPT !.paths = @ \union sd[g].accs, !.next = sd[g].next] /\ ~panicked'
          /\ (\A h \in Opens \ {g} : sd'[h] = sd[h])
      BY <2>9, <3>2 DEF SelfDeriveInsert
    <3>4. w'.device = w.device /\ w'.quit = w.quit
      BY <2>0, <3>3 DEF WalletState
    <3>. QED BY <3>1, <3>3, <3>4 DEF SessionInv
  <2>10. ASSUME NEW g \in Opens,
                SelfDeriveSkip(g) \/ SelfDeriveTakeComms(g) \/ SelfDeriveThrottled(g) \/ (\E c \in Callers : Accounts(c, g))
         PROVE  SessionInv'
    <3>1. sd[g].pc # "idle" /\ (\A h \in Opens \ {g} : sd'[h] = sd[h]) /\ UNCHANGED <<w, owner, torn, panicked>>
      BY <2>10 DEF SelfDeriveSkip, SelfDeriveTakeComms, SelfDeriveThrottled, Accounts, history
    <3>. QED BY <3>1 DEF SessionInv
  <2>11. ASSUME NEW c \in Callers, DerivePin(c) PROVE SessionInv'
    <3>1. UNCHANGED <<owner, sd, torn, panicked>>
      BY <2>11 DEF DerivePin, history
    <3>2. w'.device = w.device /\ w'.quit = w.quit
      BY <2>0, <2>11 DEF DerivePin, WalletState
    <3>. QED BY <3>1, <3>2 DEF SessionInv
  <2>12. CASE \/ \E g \in Opens : HeartbeatTick(g) \/ HeartbeatTakeComms(g) \/ HeartbeatExchange(g)
              \/ \E c \in Callers : \/ Derive(c) \/ DeriveTakeComms(c) \/ DeriveExchange(c)
                                    \/ \E kind \in Kinds : Sign(c, kind)
                                    \/ SignTakeComms(c) \/ SignSend(c) \/ SignAnswer(c) \/ SignDone(c)
                                    \/ \E len \in PayloadLengths : SignPend(c, len)
              \/ \E r \in Refreshers : RefreshStart(r) \/ RefreshEnumerate(r) \/ RefreshMerge(r)
              \/ \E id \in 1..hub.created : OtherWalletFails(id)
              \/ \E u \in Urls : Plug(u)
    <3>1. UNCHANGED <<w, owner, sd, torn, panicked>>
      BY <2>12 DEF history, HeartbeatTick, HeartbeatTakeComms, HeartbeatExchange, Derive, DeriveTakeComms, DeriveExchange, Sign,
         SignTakeComms, SignSend, SignAnswer, SignDone, SignPend, RefreshStart, RefreshEnumerate, RefreshMerge,
         OtherWalletFails, Plug
    <3>. QED BY <3>1 DEF SessionInv
  <2>. QED BY <1>2, <2>0, <2>1, <2>2, <2>3, <2>4, <2>5, <2>6, <2>7, <2>8, <2>9, <2>10, <2>11, <2>12, NextCases, Zenon
<1>. QED BY <1>1, <1>2

\* Only a heartbeat that tears the wallet down can crash the self-deriver: Close waits for
\* it to end before it clears the map that the self-deriver writes to.
THEOREM PanicsFollowTeardowns == Spec => []OnlyTeardownPanics
<1>1. ASSUME SessionInv PROVE OnlyTeardownPanics
  BY <1>1 DEF SessionInv, OnlyTeardownPanics
<1>. QED BY <1>1, WalletTypeInit, WalletTypeStep, SessionInvInit, SessionInvStep, PTL DEF Spec

-----------------------------------------------------------------------------
(* Messages *)

\* The device holds what the one caller that sends has sent, and nothing if none does.
SendPcs == {"send", "confirm"}
MessageInv ==
    /\ (\A c \in Callers : call[c].pc \notin SendPcs) => line = Empty
    /\ \A c \in Callers : call[c].pc \in SendPcs =>
         IF call[c].sent = 0 THEN line = Empty ELSE line.from = c /\ line.got = call[c].sent
    /\ \A c \in Callers : call[c].pc = "confirm" => call[c].sent # 0 /\ line.last > Eip155Size

LEMMA MessageInvInit == Init => MessageInv
BY DEF Init, Idle, MessageInv, SendPcs

LEMMA MessageKept ==
    ASSUME MessageInv, UNCHANGED line,
           \A c \in Callers : call'[c] = call[c] \/ (call[c].pc \notin SendPcs /\ call'[c].pc \notin SendPcs)
    PROVE  MessageInv'
<1>1. \A c \in Callers : call'[c].pc \in SendPcs => call'[c] = call[c]
  OBVIOUS
<1>2. (\A c \in Callers : call'[c].pc \notin SendPcs) => line' = Empty
  <2>1. (\A c \in Callers : call'[c].pc \notin SendPcs) => \A c \in Callers : call[c].pc \notin SendPcs
    BY Zenon
  <2>. QED BY <2>1 DEF MessageInv
<1>3. ASSUME NEW c \in Callers, call'[c].pc \in SendPcs
      PROVE  IF call'[c].sent = 0 THEN line' = Empty ELSE line'.from = c /\ line'.got = call'[c].sent
  BY <1>1, <1>3 DEF MessageInv
<1>4. ASSUME NEW c \in Callers, call'[c].pc = "confirm"
      PROVE  call'[c].sent # 0 /\ line'.last > Eip155Size
  BY <1>1, <1>4 DEF MessageInv, SendPcs
<1>. QED BY <1>2, <1>3, <1>4 DEF MessageInv

LEMMA NobodySends ==
    ASSUME line' = Empty, \A c \in Callers : call'[c].pc \notin SendPcs
    PROVE  MessageInv'
BY DEF MessageInv, SendPcs

LEMMA MessageInvStep == WalletType /\ LockInv /\ RequestInv /\ MessageInv /\ [Next]_vars => MessageInv'
<1> SUFFICES ASSUME WalletType, LockInv, RequestInv, MessageInv, [Next]_vars PROVE MessageInv'
  OBVIOUS
<1>. USE PcDomains
<1>1. CASE UNCHANGED vars
  BY <1>1 DEF MessageInv, vars
<1>2. CASE Close \/ CloseFinish \/ (\E on \in BOOLEAN : SelfDerive(on))
           \/ (\E g \in Opens : CloseHealth(g) \/ CloseDerive(g) \/ HeartbeatTick(g) \/ HeartbeatTakeComms(g)
                 \/ HeartbeatTeardown(g) \/ SelfDeriveTakeComms(g) \/ SelfDeriveThrottled(g))
           \/ (\E r \in Refreshers : RefreshStart(r) \/ RefreshEnumerate(r) \/ RefreshMerge(r))
           \/ (\E id \in 1..hub.created : OtherWalletFails(id)) \/ (\E u \in Urls : Plug(u))
  <2>1. UNCHANGED <<line, call>>
    BY <1>2 DEF Close, CloseFinish, SelfDerive, CloseHealth, CloseDerive, HeartbeatTick, HeartbeatTakeComms,
       HeartbeatTeardown, SelfDeriveTakeComms, SelfDeriveThrottled, RefreshStart, RefreshEnumerate, RefreshMerge,
       OtherWalletFails, Plug
  <2>. QED BY <2>1, MessageKept
<1>3. CASE Open
  <2>1. \A c \in Callers : call[c].pc \notin SendPcs
    BY <1>3 DEF Open, LockInv, CallLocks, TalkPcs, SendPcs
  <2>2. line' = Empty /\ UNCHANGED call
    BY <1>3 DEF Open, Interrupt
  <2>. QED BY <2>1, <2>2, NobodySends
<1>4. ASSUME NEW g \in Opens, HeartbeatExchange(g) \/ SelfDeriveExchange(g) PROVE MessageInv'
  <2>1. comm = Hb(g) \/ comm = Sd(g)
    BY <1>4 DEF HeartbeatExchange, SelfDeriveExchange, LockInv, HeartbeatLocks, DeriverLocks
  <2>2. \A c \in Callers : call[c].pc \notin SendPcs
    BY <2>1, Names DEF LockInv, CallLocks, TalkPcs, SendPcs
  <2>3. line' = Empty /\ UNCHANGED call
    BY <1>4 DEF HeartbeatExchange, SelfDeriveExchange, Interrupt
  <2>. QED BY <2>2, <2>3, NobodySends
<1>5. ASSUME NEW g \in Opens, SelfDeriveSkip(g) \/ SelfDeriveInsert(g) PROVE MessageInv'
  <2>1. sd[g].by \in Callers /\ call[sd[g].by].pc = "accounts"
    BY <1>5 DEF SelfDeriveSkip, SelfDeriveInsert, RequestInv, BusyPcs
  <2>2. UNCHANGED line /\ (UNCHANGED call \/ call' = [call EXCEPT ![sd[g].by] = Idle])
    BY <1>5 DEF SelfDeriveSkip, SelfDeriveInsert, Reply
  <2>3. \A c \in Callers : call'[c] = call[c] \/ (call[c].pc \notin SendPcs /\ call'[c].pc \notin SendPcs)
    BY <2>1, <2>2 DEF Idle, SendPcs
  <2>. QED BY <2>2, <2>3, MessageKept
<1>6. ASSUME NEW c \in Callers,
             \/ \E g \in Opens : Accounts(c, g)
             \/ Derive(c) \/ DeriveTakeComms(c) \/ DerivePin(c)
             \/ \E kind \in Kinds : Sign(c, kind)
             \/ SignTakeComms(c) \/ SignDone(c)
      PROVE  MessageInv'
  <2>1. UNCHANGED line /\ call[c].pc \notin SendPcs
    BY <1>6 DEF Accounts, Derive, DeriveTakeComms, DerivePin, Sign, SignTakeComms, SignDone, Idle, SendPcs
  <2>2. call'[c].pc \notin SendPcs /\ (\A d \in Callers \ {c} : call'[d] = call[d])
    BY <1>6 DEF Accounts, Derive, DeriveTakeComms, DerivePin, Sign, SignTakeComms, SignDone, Idle, SendPcs
  <2>. QED BY <2>1, <2>2, MessageKept
<1>7. ASSUME NEW c \in Callers, DeriveExchange(c) \/ SignAnswer(c) PROVE MessageInv'
  <2>1. call[c].pc \in TalkPcs /\ line' = Empty
    BY <1>7 DEF DeriveExchange, SignAnswer, TalkPcs, Interrupt
  <2>2. \A d \in Callers \ {c} : call[d].pc \notin SendPcs
    BY <2>1, Names DEF LockInv, CallLocks, TalkPcs, SendPcs
  <2>3. call'[c].pc \notin SendPcs /\ (\A d \in Callers \ {c} : call'[d] = call[d])
    BY <1>7 DEF DeriveExchange, SignAnswer, SendPcs, Idle
  <2>. QED BY <2>1, <2>2, <2>3, NobodySends
<1>8. ASSUME NEW c \in Callers, NEW len \in PayloadLengths, SignPend(c, len) PROVE MessageInv'
  <2>1. call[c].pc = "pend" /\ UNCHANGED line /\ (\A d \in Callers \ {c} : call'[d] = call[d])
    BY <1>8 DEF SignPend
  <2>2. \A d \in Callers : call[d].pc \notin SendPcs
    BY <2>1, Names DEF LockInv, CallLocks, TalkPcs, SendPcs
  <2>3. line = Empty
    BY <2>2 DEF MessageInv
  <2>4. call'[c].pc = "done" \/ (call'[c].pc = "send" /\ call'[c].sent = 0)
    BY <1>8 DEF SignPend
  <2>. QED BY <2>1, <2>2, <2>3, <2>4 DEF MessageInv, SendPcs
<1>9. ASSUME NEW c \in Callers, SignSend(c) PROVE MessageInv'
  <2>. DEFINE n == NextBlock(call[c])
  <2>1. call[c].pc = "send" /\ call[c] \in CallState
    BY <1>9 DEF SignSend, WalletType
  <2>2. call[c] \in MessageState /\ LeftToSend(call[c])
    BY <2>1, CallShape
  <2>3. n \in Nat \ {0} /\ (call[c].sent + n = call[c].len => n > Eip155Size)
    BY <2>2, NextBlockFacts
  <2>4. \A d \in Callers \ {c} : call[d].pc \notin SendPcs
    BY <2>1, Names DEF LockInv, CallLocks, TalkPcs, SendPcs
  <2>5. \A d \in Callers \ {c} : call'[d] = call[d]
    BY <1>9 DEF SignSend
  <2>6. CASE line' = Empty /\ call' = [call EXCEPT ![c] = [pc |-> "done"]]
    BY <2>4, <2>5, <2>6, NobodySends DEF SendPcs
  <2>7. CASE /\ line' = Received(c, n)
             /\ call' = [call EXCEPT ![c].sent = call[c].sent + n,
                           ![c].pc = IF call[c].sent + n = call[c].len THEN "confirm" ELSE "send"]
    <3>1. call[c].sent \in Nat /\ "sent" \in DOMAIN call[c] /\ "pc" \in DOMAIN call[c]
      BY <2>2 DEF MessageState
    <3>. HIDE DEF n
    <3>2. call'[c].sent = call[c].sent + n /\ call'[c].pc \in SendPcs
          /\ (call'[c].pc = "confirm" => call[c].sent + n = call[c].len)
      BY <2>7, <3>1 DEF SendPcs
    <3>3. line'.from = c /\ line'.last = n
      BY <2>7 DEF Received
    <3>4. line'.got = call[c].sent + n
      <4>1. line'.got = n + (IF line.from = c THEN line.got ELSE 0)
        BY <2>7 DEF Received
      <4>2. CASE call[c].sent = 0
        <5>1. line.got = 0
          BY <2>1, <4>2 DEF MessageInv, SendPcs, Empty
        <5>. QED BY <2>3, <4>1, <4>2, <5>1
      <4>3. CASE call[c].sent # 0
        <5>1. line.from = c /\ line.got = call[c].sent
          BY <2>1, <4>3 DEF MessageInv, SendPcs
        <5>. QED BY <2>3, <3>1, <4>1, <5>1
      <4>. QED BY <4>2, <4>3
    <3>5. call[c].sent + n # 0
      BY <2>3, <3>1
    <3>6. call'[c].pc = "confirm" => line'.last > Eip155Size
      BY <2>3, <3>2, <3>3
    <3>7. \A d \in Callers \ {c} : call'[d].pc \notin SendPcs
      BY <2>4, <2>5
    <3>. QED BY <3>2, <3>3, <3>4, <3>5, <3>6, <3>7 DEF MessageInv, SendPcs
  <2>. QED BY <1>9, <2>6, <2>7 DEF SignSend, Interrupt
<1>10. bound \in Instances
  BY DEF WalletType
<1>. QED BY <1>1, <1>2, <1>3, <1>4, <1>5, <1>6, <1>7, <1>8, <1>9, <1>10, NextCases, Zenon

\* When the user is asked, the device holds the whole message of that caller and nothing
\* else, and its last block is not one that the device would take for chain_id, r, s.
THEOREM MessagesArriveWhole == Spec => []MessageArrivesWhole
<1>1. ASSUME WalletType, MessageInv PROVE MessageArrivesWhole
  <2>1. ASSUME NEW c \in Callers, call[c].pc = "confirm" PROVE call[c].sent = call[c].len
    BY <1>1, <2>1, CallShape DEF WalletType
  <2>. QED BY <1>1, <2>1 DEF MessageInv, SendPcs, MessageArrivesWhole
<1>. QED BY <1>1, WalletTypeInit, WalletTypeStep, LockInvInit, LockInvStep, RequestInvInit, RequestInvStep,
            MessageInvInit, MessageInvStep, PTL DEF Spec

-----------------------------------------------------------------------------
(* Self-derivation *)

\* Every path below next is tracked or about to be.
Tracked(next, paths) == \A b \in Bases : \A i \in 0..(next[b] - 1) : <<b, i>> \in paths

\* Nothing is derived before the first session; during it, a self-deriver that holds the
\* result of a round has all that is missing below where the round got to.
FirstSessionInv ==
    /\ \A g \in Opens : g > opens => sd[g].pc = "idle"
    /\ opens = 0 => \A b \in Bases : w.next[b] = 0
    /\ opens = 1 /\ w.device =>
         IF sd[1].pc = "insert" THEN Tracked(sd[1].next, w.paths \cup sd[1].accs) ELSE Tracked(w.next, w.paths)

LEMMA FirstSessionInvInit == Init => FirstSessionInv
BY DEF Init, Idle, FirstSessionInv

LEMMA FirstSessionKept ==
    ASSUME WalletType, FirstSessionInv, bound' = bound, opens' = opens, UNCHANGED w,
           \A g \in Opens : \/ sd'[g] = sd[g]
                            \/ sd'[g].pc = "idle" /\ sd[g].pc # "insert"
                            \/ sd[g].pc \notin {"idle", "insert"} /\ sd'[g].pc \notin {"idle", "insert"}
    PROVE  FirstSessionInv'
<1>1. \A g \in Opens : g > opens' => sd'[g].pc = "idle"
  BY DEF FirstSessionInv
<1>2. ASSUME opens = 1, w.device
      PROVE  IF sd'[1].pc = "insert" THEN Tracked(sd'[1].next, w.paths \cup sd'[1].accs) ELSE Tracked(w.next, w.paths)
  <2>1. 1 \in Opens
    BY <1>2, BoundFacts DEF WalletType, Opens
  <2>. QED BY <1>2, <2>1 DEF FirstSessionInv
<1>. QED BY <1>1, <1>2 DEF FirstSessionInv, Bases, Tracked

LEMMA FirstSessionInvStep == WalletType /\ FirstSessionInv /\ [Next]_vars => FirstSessionInv'
<1> SUFFICES ASSUME WalletType, FirstSessionInv, [Next]_vars PROVE FirstSessionInv'
  OBVIOUS
<1>1. CASE UNCHANGED <<bound, w, opens, sd>>
  BY <1>1 DEF FirstSessionInv, Bases, Tracked
<1>2. CASE Next
  <2>. USE PcDomains
  <2>0. /\ w \in WalletState /\ opens \in Nat /\ opens <= MaxOpens /\ MaxOpens \in Nat
        /\ bound \in Instances /\ bound' = bound /\ Opens = 1..MaxOpens
    BY <1>2, BoundFacts, Frames DEF WalletType, Opens
  <2>1. CASE Open
    <3>1. PICK app \in Apps : w' = [w EXCEPT !.device = TRUE, !.app = app, !.paths = {}, !.quit = opens + 1]
      BY <2>1 DEF Open
    <3>2. opens' = opens + 1 /\ w'.next = w.next
      BY <2>0, <2>1, <3>1 DEF Open, WalletState
    <3>3. sd' = [sd EXCEPT ![opens + 1] = [pc |-> "select", ch |-> opens + 1]]
      BY <2>1 DEF Open
    <3>4. \A g \in Opens : g > opens' => sd'[g].pc = "idle"
      BY <2>0, <3>2, <3>3 DEF FirstSessionInv
    <3>5. ASSUME opens' = 1 PROVE sd'[1].pc = "select" /\ \A b \in Bases : w'.next[b] = 0
      <4>1. opens = 0 /\ opens < MaxOpens /\ 1 \in Opens
        BY <2>0, <2>1, <3>2, <3>5, BoundFacts DEF Open
      <4>. QED BY <3>2, <3>3, <4>1 DEF FirstSessionInv
    <3>6. opens' # 0
      BY <2>0, <3>2
    <3>. QED BY <2>0, <3>4, <3>5, <3>6 DEF FirstSessionInv, Bases, Tracked
  <2>2. CASE CloseFinish \/ (\E g \in Opens : HeartbeatTeardown(g))
    <3>1. UNCHANGED <<opens, sd>> /\ w'.next = w.next /\ ~w'.device
      BY <2>0, <2>2, ZenonT(60) DEF CloseFinish, HeartbeatTeardown, closeAndClear, close, Torn, WalletState
    <3>. QED BY <2>0, <3>1 DEF FirstSessionInv, Bases
  <2>3. ASSUME NEW on \in BOOLEAN, SelfDerive(on) PROVE FirstSessionInv'
    <3>1. UNCHANGED <<opens, sd>> /\ w'.next = [b \in Bases |-> 0] /\ w'.device = w.device /\ w'.paths = w.paths
      BY <2>0, <2>3 DEF SelfDerive, WalletState
    <3>2. Tracked(w'.next, w'.paths)
      BY <3>1 DEF Tracked
    <3>. QED BY <3>1, <3>2, <2>0 DEF FirstSessionInv, Bases, Tracked
  <2>4. ASSUME NEW g \in Opens, SelfDeriveExchange(g) PROVE FirstSessionInv'
    <3>1. PICK reached \in [Bases -> 0..bound.index], ok \in BOOLEAN :
            /\ \A b \in Bases : reached[b] >= w.next[b]
            /\ sd' = [sd EXCEPT ![g] = [pc |-> "insert", by |-> sd[g].by, ok |-> ok,
                                        accs |-> Derived(reached, ok), next |-> reached]]
            /\ w' = [w EXCEPT !.next = reached]
      BY <2>4 DEF SelfDeriveExchange, Outcomes
    <3>2. sd[g].pc = "exchange" /\ opens' = opens
      BY <2>4 DEF SelfDeriveExchange
    <3>3. ~(g > opens) /\ opens # 0 /\ (opens = 1 => g = 1)
      BY <2>0, <3>2 DEF FirstSessionInv
    <3>4. \A h \in Opens : h > opens' => sd'[h].pc = "idle"
      BY <3>1, <3>2, <3>3 DEF FirstSessionInv
    <3>5. w'.device = w.device /\ w'.paths = w.paths
      BY <2>0, <3>1 DEF WalletState
    <3>6. ASSUME opens = 1, w.device PROVE Tracked(sd'[1].next, w'.paths \cup sd'[1].accs)
      <4>1. Tracked(w.next, w.paths)
        BY <3>2, <3>3, <3>6 DEF FirstSessionInv
      <4>2. sd'[1].next = reached /\ sd'[1].accs = Derived(reached, ok) /\ sd'[1].pc = "insert"
        BY <3>1, <3>3, <3>6
      <4>3. ASSUME NEW b \in Bases, NEW i \in 0..(reached[b] - 1)
            PROVE  <<b, i>> \in w.paths \cup Derived(reached, ok)
        <5>1. reached[b] \in 0..bound.index /\ w.next[b] \in Nat /\ bound.index \in Nat
          BY <2>0, BoundFacts DEF WalletState
        <5>2. CASE i < w.next[b]
          <6>1. i \in 0..(w.next[b] - 1)
            BY <5>1, <5>2
          <6>. QED BY <4>1, <6>1 DEF Tracked
        <5>3. CASE ~(i < w.next[b])
          <6>1. i \in 0..bound.index /\ w.next[b] <= i /\ i < reached[b]
            BY <5>1, <5>3
          <6>2. <<b, i>> \in Addresses /\ <<b, i>>[1] = b /\ <<b, i>>[2] = i
            BY <6>1 DEF Addresses
          <6>3. <<b, i>> \in {a \in Addresses : w.next[a[1]] <= a[2] /\ a[2] < reached[a[1]]}
            BY <6>1, <6>2
          <6>. QED BY <6>3 DEF Derived
        <5>. QED BY <5>2, <5>3
      <4>. QED BY <3>5, <4>2, <4>3 DEF Tracked
    <3>7. opens = 1 => sd'[1].pc = "insert"
      BY <3>1, <3>3
    <3>. QED BY <2>0, <3>2, <3>3, <3>4, <3>5, <3>6, <3>7 DEF FirstSessionInv, Bases, Tracked
  <2>5. ASSUME NEW g \in Opens, SelfDeriveInsert(g) PROVE FirstSessionInv'
    <3>1. sd[g].pc = "insert" /\ opens' = opens
      BY <2>5 DEF SelfDeriveInsert
    <3>2. ~(g > opens) /\ opens # 0 /\ (opens = 1 => g = 1)
      BY <2>0, <3>1 DEF FirstSessionInv
    <3>3. CASE UNCHANGED <<w, sd>>
      BY <1>1, <2>0, <3>1, <3>3
    <3>4. CASE /\ w' = [w EXCEPT !.paths = @ \union sd[g].accs, !.next = sd[g].next]
               /\ sd' = [sd EXCEPT ![g] = [pc |-> IF sd[g].ok THEN "throttle" ELSE "failed", ch |-> w.quit]]
      <4>1. w'.paths = w.paths \cup sd[g].accs /\ w'.next = sd[g].next /\ w'.device = w.device
        BY <2>0, <3>4 DEF WalletState
      <4>2. sd'[g].pc # "insert" /\ (\A h \in Opens \ {g} : sd'[h] = sd[h])
        BY <3>4
      <4>3. ASSUME opens = 1, w.device PROVE Tracked(w'.next, w'.paths) /\ sd'[1].pc # "insert"
        BY <3>1, <3>2, <4>1, <4>2, <4>3 DEF FirstSessionInv
      <4>4. \A h \in Opens : h > opens' => sd'[h].pc = "idle"
        BY <3>1, <3>2, <4>2 DEF FirstSessionInv
      <4>. QED BY <2>0, <3>1, <3>2, <4>1, <4>3, <4>4 DEF FirstSessionInv, Bases, Tracked
    <3>. QED BY <2>5, <3>3, <3>4 DEF SelfDeriveInsert
  <2>6. ASSUME NEW c \in Callers, DerivePin(c) PROVE FirstSessionInv'
    <3>1. UNCHANGED <<opens, sd>>
      BY <2>6 DEF DerivePin
    <3>2. w'.next = w.next /\ w'.device = w.device /\ w.paths \subseteq w'.paths
      BY <2>0, <2>6 DEF DerivePin, WalletState
    <3>. QED BY <2>0, <3>1, <3>2 DEF FirstSessionInv, Bases, Tracked
  <2>7. ASSUME NEW g \in Opens, UNCHANGED <<w, opens>>,
               CloseDerive(g) \/ SelfDeriveSkip(g) \/ SelfDeriveTakeComms(g) \/ SelfDeriveThrottled(g)
               \/ (\E c \in Callers : Accounts(c, g))
        PROVE  FirstSessionInv'
    <3>1. \A h \in Opens \ {g} : sd'[h] = sd[h]
      BY <2>7 DEF CloseDerive, SelfDeriveSkip, SelfDeriveTakeComms, SelfDeriveThrottled, Accounts
    <3>2. sd[g].pc \notin {"idle", "insert"} /\ sd'[g].pc # "insert"
      BY <2>7 DEF CloseDerive, SelfDeriveSkip, SelfDeriveTakeComms, SelfDeriveThrottled, Accounts, Idle
    <3>. QED BY <2>0, <2>7, <3>1, <3>2, FirstSessionKept
  <2>. QED BY <1>1, <1>2, <2>0, <2>1, <2>2, <2>3, <2>4, <2>5, <2>6, <2>7, Frames, Zenon
<1>. QED BY <1>1, <1>2 DEF vars, history

\* Within the first session no account is passed over: every path below the one that
\* self-derivation will try next is tracked.
THEOREM NoAccountIsPassedOver == Spec => []NothingIsPassedOver
<1>1. ASSUME WalletType, FirstSessionInv PROVE NothingIsPassedOver
  <2>1. opens = 1 => 1 \in Opens
    BY <1>1, BoundFacts DEF WalletType, Opens
  <2>. QED BY <1>1, <2>1 DEF FirstSessionInv, NothingIsPassedOver, Tracked
<1>. QED BY <1>1, WalletTypeInit, WalletTypeStep, FirstSessionInvInit, FirstSessionInvStep, PTL DEF Spec

=============================================================================
