----------------------------- MODULE USBWallet -----------------------------
(***************************************************************************)
(* A Ledger wallet (sdk/usbwallet): the goroutines of one wallet object,   *)
(* its callers, and the hub that enumerates the USB bus beside them.       *)
(*                                                                         *)
(* Every Open starts a heartbeat and a self-deriver and makes three new    *)
(* channels (healthQuit, deriveQuit, deriveReq).  They are always made and *)
(* cleared together, so one generation number, w.quit, stands for the      *)
(* three, 0 for nil.  A goroutine reads the field when it enters a select  *)
(* and waits on what it read (.ch), not on what the field holds later.     *)
(*                                                                         *)
(* A section under the write lock is one action that needs readers = {};   *)
(* a section under the read lock that waits for the device is several.     *)
(* Addresses are pairs of a base and the last component of the path.       *)
(***************************************************************************)
EXTENDS Integers, FiniteSets, Sequences, SequencesExt

CONSTANTS
    Callers,         \* threads that derive, sign and list accounts
    Refreshers,      \* threads that call hub.Wallets, and the updater
    Urls,            \* where devices can be attached, ordered as numbers
    Mine,            \* where the device of the modelled wallet is
    MaxBases,        \* bound: bases of self-derivation; the last one is special
    PayloadLengths,  \* lengths of what is sent to the device for a signature
    Apps,            \* what the device may run when it is opened
    MaxOpens,        \* bound: successful calls of Open
    MaxIndex,        \* bound: last path component that is derived
    Instances        \* what to explore: records of who takes part and of smaller bounds

ASSUME WalletAssumption ==
    /\ Urls \in SUBSET Nat /\ IsFiniteSet(Urls) /\ Mine \in Urls
    /\ PayloadLengths \subseteq Nat \ (0..3)
    /\ Apps \subseteq {"offline", "1.0.0", "1.5.0"}
    /\ {MaxIndex, MaxOpens, MaxBases} \subseteq Nat
    /\ Instances \subseteq [callers : SUBSET Callers, refreshers : SUBSET Refreshers, plugs : BOOLEAN, signing : BOOLEAN,
                            opens : 0..MaxOpens, bases : 1..MaxBases, index : 0..MaxIndex, faults : Nat]

VARIABLES
    bound,      \* the instance that is explored, chosen at the start
    w,          \* the wallet: device (and paths # nil), app (driver.version), paths, next, chain, quit
    opens,      \* successful calls of Open so far
    readers,    \* who holds stateLock for reading
    comm,       \* who holds commsLock
    hb,         \* the heartbeats, one for each Open
    sd,         \* the self-derivers, one for each Open
    owner,      \* what the thread that opens and closes the wallet is in the middle of
    call,       \* what each caller is in the middle of
    line,       \* the message the device is assembling: sender, bytes, last block
    hub,        \* the hub: commsPend, enumFails, its wallets, how many it has created
    scan,       \* what each refresher is in the middle of
    attached,   \* URLs with a device
    failure,    \* wallet objects whose driver has recorded a failure
    faults,     \* faults so far
    torn,       \* a heartbeat has torn the wallet down (history)
    panicked    \* the process has crashed

locks == <<readers, comm>>
history == <<bound, torn, panicked>>
hubVars == <<hub, scan, attached>>
vars == <<w, opens, locks, hb, sd, owner, call, line, hubVars, failure, faults, history>>

None == <<>>
Idle == [pc |-> "idle"]
Empty == [from |-> None, got |-> 0, last |-> 0]
Opens == 1..MaxOpens
Bases == 1..bound.bases
LastBase == bound.bases
Addresses == Bases \X (0..bound.index)
Hb(g) == <<"hb", g>>
Sd(g) == <<"sd", g>>
Caller(c) == <<"call", c>>

\* Wallet objects are numbered as the hub makes them; Self is the modelled one.
Self == Cardinality({u \in Urls : u <= Mine})

\* hid.Enumerate gives the devices in the order of their URLs.
InUrlOrder(urls) == SetToSortSeq(urls, <)

\* newHub lists what is attached before it returns; no wallet is open yet.
Init ==
    /\ bound \in Instances
    /\ w = [device |-> FALSE, app |-> "offline", paths |-> {},
            next |-> [b \in Bases |-> 0], chain |-> FALSE, quit |-> 0]
    /\ opens = 0 /\ readers = {} /\ comm = None
    /\ hb = [g \in Opens |-> Idle] /\ sd = [g \in Opens |-> Idle]
    /\ owner = Idle /\ call = [c \in Callers |-> Idle]
    /\ line = Empty
    /\ attached = Urls /\ failure = {} /\ faults = 0 /\ torn = FALSE /\ panicked = FALSE
    /\ scan = [r \in Refreshers |-> Idle]
    /\ hub = [commsPend |-> 0, enumFails |-> 0, created |-> Cardinality(Urls),
              wallets |-> [i \in 1..Cardinality(Urls) |->
                  [url |-> InUrlOrder(Urls)[i], id |-> i]]]

----------------------------------------------------------------------------
\* What the actions share.

\* wallet.close: device, accounts and paths go; how far self-derivation got stays.
Torn(v) == [v EXCEPT !.device = FALSE, !.app = "offline", !.paths = {}]
close == w' = IF w.device THEN Torn(w) ELSE w

\* wallet.close as Close calls it, after it has cleared the channels.
closeAndClear == w' = [(IF w.device THEN Torn(w) ELSE w) EXCEPT !.quit = 0]

\* ledgerExchange: the device answers or not; it never does once it is gone.
Outcomes ==
    IF Mine \notin attached THEN {FALSE} ELSE IF faults < bound.faults THEN {TRUE, FALSE} ELSE {TRUE}
Counted(ok) == faults' = IF ok \/ Mine \notin attached THEN faults ELSE faults + 1
Fault == faults < bound.faults /\ faults' = faults + 1

\* The driver records what makes it unusable.
DriverHeartbeat(ok) == failure' = IF ok THEN failure ELSE failure \union {Self}
DriverOpen == failure' = failure \ {Self}

\* Whatever it is sent in between makes the device forget a half sent message.
Interrupt == line' = Empty

\* A writer that waits keeps new readers out (sync.RWMutex).
WriterWaits ==
    \/ owner.pc = "close"
    \/ \E g \in Opens : hb[g].pc = "teardown" \/ sd[g].pc = "insert"
    \/ \E c \in Callers : call[c].pc = "pin"
RLock(p) == ~WriterWaits /\ readers' = readers \union {p}
RUnlock(p) == readers' = readers \ {p}
TakeComms_NoWait(p) == comm' = p
TakeComms(p) == comm = None /\ comm' = p
ReleaseComms == comm' = None

----------------------------------------------------------------------------
\* Open, and Close with its two rendezvous.

\* driver.Open never fails: without an answer the Ethereum app counts as offline.
\* So device and paths are set together, and cleared together by close.
Open ==
    /\ owner = Idle /\ readers = {} /\ ~w.device /\ Mine \in attached
    /\ opens < bound.opens /\ opens' = opens + 1
    /\ \E app \in Apps : w' = [w EXCEPT !.device = TRUE, !.app = app, !.paths = {}, !.quit = opens']
    /\ hb' = [hb EXCEPT ![opens'] = [pc |-> "select", ch |-> opens']]
    /\ sd' = [sd EXCEPT ![opens'] = [pc |-> "select", ch |-> opens']]
    /\ DriverOpen /\ Interrupt
    /\ UNCHANGED <<locks, owner, call, hubVars, faults, history>>

Close ==
    /\ owner = Idle
    /\ owner' = [pc |-> IF w.quit = 0 THEN "close" ELSE "health", ch |-> w.quit]
    /\ UNCHANGED <<w, opens, locks, hb, sd, call, line, hubVars, failure, faults, history>>

CloseHealth_SkipsDeriver(g) ==
    /\ owner.pc = "health" /\ hb[g].pc = "select" /\ hb[g].ch = owner.ch
    /\ hb' = [hb EXCEPT ![g] = Idle]
    /\ owner' = [owner EXCEPT !.pc = "close"]
    /\ UNCHANGED <<w, opens, locks, sd, call, line, hubVars, failure, faults, history>>

\* Close sends on healthQuit; the heartbeat that receives answers and ends.
CloseHealth(g) ==
    /\ owner.pc = "health" /\ hb[g].pc = "select" /\ hb[g].ch = owner.ch
    /\ hb' = [hb EXCEPT ![g] = Idle]
    /\ owner' = [owner EXCEPT !.pc = "derive"]
    /\ UNCHANGED <<w, opens, locks, sd, call, line, hubVars, failure, faults, history>>

\* The same with deriveQuit, which the self-deriver also reads while it throttles
\* itself or after it has failed.
CloseDerive(g) ==
    /\ owner.pc = "derive" /\ sd[g].pc \in {"select", "throttle", "failed"} /\ sd[g].ch = owner.ch
    /\ sd' = [sd EXCEPT ![g] = Idle]
    /\ owner' = [owner EXCEPT !.pc = "close"]
    /\ UNCHANGED <<w, opens, locks, hb, call, line, hubVars, failure, faults, history>>

CloseFinish ==
    /\ owner.pc = "close" /\ readers = {}
    /\ closeAndClear
    /\ owner' = Idle
    /\ UNCHANGED <<opens, locks, hb, sd, call, line, hubVars, failure, faults, history>>

SelfDerive(on) ==
    /\ owner = Idle /\ readers = {}
    /\ w' = [w EXCEPT !.next = [b \in Bases |-> 0], !.chain = on]
    /\ UNCHANGED <<opens, locks, hb, sd, owner, call, line, hubVars, failure, faults, history>>

----------------------------------------------------------------------------
\* heartbeat.  After an error the loop goes on: err is reset before the test.

HeartbeatTick(g) ==
    /\ hb[g].pc = "select"
    /\ IF w.device
       THEN RLock(Hb(g)) /\ hb' = [hb EXCEPT ![g].pc = "wait"]
       ELSE hb' = [hb EXCEPT ![g].ch = w.quit] /\ UNCHANGED readers
    /\ UNCHANGED <<w, opens, comm, sd, owner, call, line, hubVars, failure, faults, history>>

HeartbeatTakeComms(g) ==
    /\ hb[g].pc = "wait" /\ TakeComms(Hb(g))
    /\ hb' = [hb EXCEPT ![g].pc = "exchange"]
    /\ UNCHANGED <<w, opens, readers, sd, owner, call, line, hubVars, failure, faults, history>>

HeartbeatExchange(g) ==
    /\ hb[g].pc = "exchange" /\ ReleaseComms /\ RUnlock(Hb(g)) /\ Interrupt
    /\ \E ok \in Outcomes :
         /\ Counted(ok)
         /\ DriverHeartbeat(ok)
         /\ hb' = [hb EXCEPT ![g] = IF ok THEN [pc |-> "select", ch |-> w.quit]
                                          ELSE [pc |-> "teardown", ch |-> 0]]
    /\ UNCHANGED <<w, opens, sd, owner, call, hubVars, history>>

HeartbeatTeardown_Ends(g) ==
    /\ hb[g].pc = "teardown" /\ readers = {}
    /\ close /\ torn' = TRUE
    /\ hb' = [hb EXCEPT ![g] = Idle]
    /\ UNCHANGED <<opens, locks, sd, owner, call, line, hubVars, failure, faults, bound, panicked>>

HeartbeatTeardown(g) ==
    /\ hb[g].pc = "teardown" /\ readers = {}
    /\ close /\ torn' = TRUE
    /\ hb' = [hb EXCEPT ![g] = [pc |-> "select", ch |-> w.quit]]
    /\ UNCHANGED <<opens, locks, sd, owner, call, line, hubVars, failure, faults, bound, panicked>>

----------------------------------------------------------------------------
\* selfDerive.

\* Accounts sends a request if a self-deriver is there to receive it.  If none is it
\* reads the account list and changes nothing.
Accounts(c, g) ==
    /\ call[c] = Idle /\ sd[g].pc = "select" /\ sd[g].ch = w.quit /\ w.quit # 0
    /\ call' = [call EXCEPT ![c] = [pc |-> "accounts"]]
    /\ sd' = [sd EXCEPT ![g] = [pc |-> "asked", by |-> c]]
    /\ UNCHANGED <<w, opens, locks, hb, owner, line, hubVars, failure, faults, history>>

Reply(g) == call' = [call EXCEPT ![sd[g].by] = Idle]

\* Derivation needs a chain and the device, and does not wait for either.
SelfDeriveSkip(g) ==
    /\ sd[g].pc = "asked" /\ (~w.device \/ ~w.chain \/ comm # None)
    /\ Reply(g)
    /\ sd' = [sd EXCEPT ![g] = [pc |-> "select", ch |-> w.quit]]
    /\ UNCHANGED <<w, opens, locks, hb, owner, line, hubVars, failure, faults, history>>

SelfDeriveTakeComms(g) ==
    /\ sd[g].pc = "asked" /\ w.device /\ w.chain /\ TakeComms(Sd(g)) /\ RLock(Sd(g))
    /\ sd' = [sd EXCEPT ![g] = [pc |-> "exchange", by |-> sd[g].by]]
    /\ UNCHANGED <<w, opens, hb, owner, call, line, hubVars, failure, faults, history>>

Derived_AllOrNothing(reached, ok) ==
    IF ok THEN {a \in Addresses : w.next[a[1]] <= a[2] /\ a[2] < reached[a[1]]} \union {<<LastBase, reached[LastBase]>>}
    ELSE {}

\* What one round finds if every base b is used up to (not including) reached[b]: an
\* empty account is tracked on the last base only, unless an error came before it.
Derived(reached, ok) ==
    {a \in Addresses : w.next[a[1]] <= a[2] /\ a[2] < reached[a[1]]}
      \union (IF ok THEN {<<LastBase, reached[LastBase]>>} ELSE {})

\* Errors on a base are overwritten by the next base; the last one's ends the loop.
\* nextPaths shares its paths with the wallet's field, which therefore moves at once.
SelfDeriveExchange(g) ==
    /\ sd[g].pc = "exchange" /\ ReleaseComms /\ RUnlock(Sd(g)) /\ Interrupt
    /\ \E reached \in [Bases -> 0..bound.index], ok \in Outcomes :
         /\ Counted(ok)
         /\ \A b \in Bases : reached[b] >= w.next[b]
         /\ sd' = [sd EXCEPT ![g] = [pc |-> "insert", by |-> sd[g].by, ok |-> ok,
                                     accs |-> Derived(reached, ok), next |-> reached]]
         /\ w' = [w EXCEPT !.next = reached]
    /\ UNCHANGED <<opens, hb, owner, call, hubVars, failure, history>>

\* Under the write lock, which was free in between: paths may be nil by now (writing to
\* it panics), and next may be what SelfDerive has set (it is overwritten).
SelfDeriveInsert(g) ==
    /\ sd[g].pc = "insert" /\ readers = {}
    /\ IF ~w.device /\ sd[g].accs # {}
       THEN panicked' = TRUE /\ UNCHANGED <<w, sd, call>>
       ELSE /\ w' = [w EXCEPT !.paths = @ \union sd[g].accs, !.next = sd[g].next]
            /\ Reply(g)
            /\ sd' = [sd EXCEPT ![g] = [pc |-> IF sd[g].ok THEN "throttle" ELSE "failed", ch |-> w.quit]]
            /\ UNCHANGED panicked
    /\ UNCHANGED <<opens, locks, hb, owner, line, hubVars, failure, faults, bound, torn>>

SelfDeriveThrottled(g) ==
    /\ sd[g].pc = "throttle"
    /\ sd' = [sd EXCEPT ![g] = [pc |-> "select", ch |-> w.quit]]
    /\ UNCHANGED <<w, opens, locks, hb, owner, call, line, hubVars, failure, faults, history>>

----------------------------------------------------------------------------
\* Derive, with and without pinning; the path matters only once it is pinned.

Derive(c) ==
    /\ call[c] = Idle /\ w.device /\ RLock(Caller(c))
    /\ call' = [call EXCEPT ![c] = [pc |-> "derive"]]
    /\ UNCHANGED <<w, opens, comm, hb, sd, owner, line, hubVars, failure, faults, history>>

DeriveTakeComms(c) ==
    /\ call[c].pc = "derive" /\ TakeComms(Caller(c))
    /\ call' = [call EXCEPT ![c].pc = "exchange"]
    /\ UNCHANGED <<w, opens, readers, hb, sd, owner, line, hubVars, failure, faults, history>>

DeriveExchange(c) ==
    /\ call[c].pc = "exchange" /\ ReleaseComms /\ RUnlock(Caller(c)) /\ Interrupt
    /\ \E ok \in Outcomes, pin \in BOOLEAN :
         /\ Counted(ok)
         /\ call' = [call EXCEPT ![c] = IF ok /\ pin THEN [pc |-> "pin"] ELSE Idle]
    /\ UNCHANGED <<w, opens, hb, sd, owner, hubVars, failure, history>>

\* Unlike selfDerive, Derive looks at the device again before it writes.
DerivePin(c) ==
    /\ call[c].pc = "pin" /\ readers = {}
    /\ IF w.device
       THEN \E a \in Addresses : w' = [w EXCEPT !.paths = @ \union {a}]
       ELSE UNCHANGED w
    /\ call' = [call EXCEPT ![c] = Idle]
    /\ UNCHANGED <<opens, locks, hb, sd, owner, line, hubVars, failure, faults, history>>

----------------------------------------------------------------------------
\* SignTx, SignData (typed) and SignText (personal): the read lock is held throughout.

\* A path of five components, a domain hash and a message hash.
TypedLength == 1 + 4 * 5 + 2 * 32

\* The account must be one of the wallet's; its length matters only once it is sent.
Sign(c, kind) ==
    /\ call[c] = Idle /\ w.device /\ w.paths # {} /\ RLock(Caller(c))
    /\ call' = [call EXCEPT ![c] = [pc |-> "sign", kind |-> kind]]
    /\ UNCHANGED <<w, opens, comm, hb, sd, owner, line, hubVars, failure, faults, history>>

SignTx(c) == Sign(c, "tx")
SignData(c) == Sign(c, "typed")
SignText(c) == Sign(c, "personal")

SignTakeComms(c) ==
    /\ call[c].pc = "sign" /\ TakeComms(Caller(c))
    /\ call' = [call EXCEPT ![c].pc = "pend"]
    /\ UNCHANGED <<w, opens, readers, hb, sd, owner, line, hubVars, failure, faults, history>>

\* hub.commsLock is held from the check of commsPend to the end of the enumeration.
HubCommsFree == \A r \in Refreshers : scan[r].pc # "enumerate"

\* The application must run; the version checks for typed and personal messages are
\* conjunctions that no version from 1.0.0 on fails.
Supported(kind) == w.app # "offline" /\ ~(kind = "tx" /\ w.app = "1.0.0")

SignPend(c, len) ==
    /\ call[c].pc = "pend" /\ HubCommsFree
    /\ hub' = [hub EXCEPT !.commsPend = @ + 1]
    /\ call' = [call EXCEPT ![c] =
                   IF ~Supported(@.kind) THEN [pc |-> "done"]
                   ELSE [pc |-> "send", kind |-> @.kind, sent |-> 0,
                         len |-> IF @.kind = "typed" THEN TypedLength ELSE len]]
    /\ UNCHANGED <<w, opens, locks, hb, sd, owner, line, scan, attached, failure, faults, history>>

Eip155Size == 3
MaxBlock == 255

\* No length is such that every block size leaves too little for the last block: the
\* search for one would reach 0.  The first such length has over a hundred digits.
ASSUME BlockAssumption == \A len \in PayloadLengths : \E k \in 1..MaxBlock : len % k > Eip155Size

BlockSize_Largest(len) == MaxBlock

\* The largest block size that leaves more than Eip155Size bytes for the last block.
BlockSize(len) ==
    CHOOSE k \in 1..MaxBlock :
        /\ len % k > Eip155Size
        /\ \A j \in (k + 1)..MaxBlock : len % j <= Eip155Size

\* A typed message is one block whatever its length.
NextBlock(m) ==
    LET left == m.len - m.sent
        size == IF m.kind = "typed" THEN left ELSE BlockSize(m.len)
    IN  IF size > left THEN left ELSE size

\* The device appends the block to what it has of the message, or starts a new one.
Received(c, n) == [from |-> c, got |-> n + (IF line.from = c THEN line.got ELSE 0), last |-> n]

SignSend(c) ==
    /\ call[c].pc = "send"
    /\ \E ok \in Outcomes :
         /\ Counted(ok)
         /\ IF ok
            THEN LET n == NextBlock(call[c])
                     sent == call[c].sent + n
                 IN  /\ line' = Received(c, n)
                     /\ call' = [call EXCEPT ![c].sent = sent,
                                   ![c].pc = IF sent = call[c].len THEN "confirm" ELSE "send"]
            ELSE Interrupt /\ call' = [call EXCEPT ![c] = [pc |-> "done"]]
    /\ UNCHANGED <<w, opens, locks, hb, sd, owner, hubVars, failure, history>>

\* The user confirms or denies, or the device fails; until then the last exchange waits.
SignAnswer(c) ==
    /\ call[c].pc = "confirm" /\ Interrupt
    /\ call' = [call EXCEPT ![c] = [pc |-> "done"]]
    /\ UNCHANGED <<w, opens, locks, hb, sd, owner, hubVars, failure, faults, history>>

SignDone(c) ==
    /\ call[c].pc = "done" /\ HubCommsFree
    /\ hub' = [hub EXCEPT !.commsPend = @ - 1]
    /\ ReleaseComms /\ RUnlock(Caller(c))
    /\ call' = [call EXCEPT ![c] = Idle]
    /\ UNCHANGED <<w, opens, hb, sd, owner, line, scan, attached, failure, faults, history>>

----------------------------------------------------------------------------
\* The hub.

ConfirmationPending_Ignored == FALSE
ConfirmationPending == hub.commsPend > 0

\* refreshWallets gives up after three failures in a row, and while a confirmation is
\* pending; the 500 ms throttle is a refresh that does not happen.
RefreshStart(r) ==
    /\ scan[r] = Idle /\ hub.enumFails <= 2
    /\ HubCommsFree /\ ~ConfirmationPending
    /\ scan' = [scan EXCEPT ![r] = [pc |-> "enumerate"]]
    /\ UNCHANGED <<w, opens, locks, hb, sd, owner, call, line, hub, attached, failure, faults, history>>

RefreshEnumerate(r) ==
    /\ scan[r].pc = "enumerate"
    /\ \/ /\ Fault /\ hub' = [hub EXCEPT !.enumFails = @ + 1]
          /\ scan' = [scan EXCEPT ![r] = Idle]
       \/ /\ hub' = [hub EXCEPT !.enumFails = 0] /\ UNCHANGED faults
          /\ scan' = [scan EXCEPT ![r] = [pc |-> "merge", found |-> InUrlOrder(attached)]]
    /\ UNCHANGED <<w, opens, locks, hb, sd, owner, call, line, attached, failure, history>>

\* One found device against the old list: failed wallets before it go, then it is a
\* new wallet, or the first of the old list, or (a working one is in front) neither.
MergeDevice(acc, url) ==
    LET stale(i) == acc.old[i].url < url /\ acc.old[i].id \in failure
        first == CHOOSE i \in 1..(Len(acc.old) + 1) :
                   /\ \A j \in 1..(i - 1) : stale(j)
                   /\ i = Len(acc.old) + 1 \/ ~stale(i)
        old == SubSeq(acc.old, first, Len(acc.old))
    IN  IF old = <<>> \/ Head(old).url > url
        THEN [old |-> old, new |-> Append(acc.new, [url |-> url, id |-> acc.created + 1]), created |-> acc.created + 1]
        ELSE IF Head(old).url = url
        THEN [old |-> Tail(old), new |-> Append(acc.new, Head(old)), created |-> acc.created]
        ELSE [acc EXCEPT !.old = old]

\* What is left of the old list is dropped.
Merged(found) == FoldLeft(MergeDevice, [old |-> hub.wallets, new |-> <<>>, created |-> hub.created], found)

RefreshMerge(r) ==
    /\ scan[r].pc = "merge"
    /\ hub' = [hub EXCEPT !.wallets = Merged(scan[r].found).new, !.created = Merged(scan[r].found).created]
    /\ scan' = [scan EXCEPT ![r] = Idle]
    /\ UNCHANGED <<w, opens, locks, hb, sd, owner, call, line, attached, failure, faults, history>>

\* A failure that another wallet's heartbeat has recorded.
OtherWalletFails(id) ==
    /\ bound.plugs /\ Fault /\ id \notin failure \union {Self} /\ \E i \in DOMAIN hub.wallets : hub.wallets[i].id = id
    /\ failure' = failure \union {id}
    /\ UNCHANGED <<w, opens, locks, hb, sd, owner, call, line, hubVars, history>>

Plug(u) ==
    /\ bound.plugs /\ Fault
    /\ attached' = IF u \in attached THEN attached \ {u} ELSE attached \union {u}
    /\ UNCHANGED <<w, opens, locks, hb, sd, owner, call, line, hub, scan, failure, history>>

----------------------------------------------------------------------------

CloseStep == CloseFinish \/ (\E g \in Opens : CloseHealth(g) \/ CloseDerive(g))
OwnerStep == Open \/ Close \/ CloseStep \/ (\E on \in BOOLEAN : SelfDerive(on))
Heartbeat(g) == HeartbeatTick(g) \/ HeartbeatTakeComms(g) \/ HeartbeatExchange(g) \/ HeartbeatTeardown(g)
SelfDeriver(g) == SelfDeriveSkip(g) \/ SelfDeriveTakeComms(g) \/ SelfDeriveExchange(g)
                  \/ SelfDeriveInsert(g) \/ SelfDeriveThrottled(g)
CallStep(c) == DeriveTakeComms(c) \/ DeriveExchange(c) \/ DerivePin(c)
               \/ SignTakeComms(c) \/ SignSend(c) \/ SignDone(c)
               \/ (\E len \in PayloadLengths : SignPend(c, len))
CallStart(c) ==
    \/ \E g \in Opens : Accounts(c, g)
    \/ Derive(c)
    \/ bound.signing /\ (SignTx(c) \/ SignData(c) \/ SignText(c))
HubStep(r) == RefreshStart(r) \/ RefreshEnumerate(r) \/ RefreshMerge(r)

Next ==
    /\ ~panicked
    /\ \/ OwnerStep
       \/ \E g \in Opens : Heartbeat(g) \/ SelfDeriver(g)
       \/ \E c \in bound.callers : CallStart(c) \/ CallStep(c) \/ SignAnswer(c)
       \/ \E r \in bound.refreshers : HubStep(r)
       \/ \E id \in 1..hub.created : OtherWalletFails(id)
       \/ \E u \in Urls : Plug(u)

\* Goroutines and calls in progress go on.  Strong fairness where a lock or a channel is
\* waited for: a blocked Lock keeps new readers out, and channels serve who waits.
Alive == ~panicked
Fairness ==
    /\ \A g \in Opens : SF_vars(Alive /\ Heartbeat(g)) /\ SF_vars(Alive /\ SelfDeriver(g))
    /\ \A c \in Callers : SF_vars(Alive /\ CallStep(c))
    /\ \A r \in Refreshers : WF_vars(Alive /\ RefreshEnumerate(r))
    /\ SF_vars(Alive /\ CloseStep)

Spec == Init /\ [][Next]_vars
FairSpec == Spec /\ Fairness

----------------------------------------------------------------------------
\* Properties.

\* Who is in the middle of an exchange with the device.
Talking ==
    {Hb(g) : g \in {i \in Opens : hb[i].pc = "exchange"}}
      \union {Sd(g) : g \in {i \in Opens : sd[i].pc = "exchange"}}
      \union {Caller(c) : c \in {i \in Callers : call[i].pc \in {"exchange", "pend", "send", "confirm", "done"}}}

\* Whoever talks to the device (ledgerExchange) does so alone and on a device that is
\* open: nobody may close or reopen it under an exchange, whatever fails meanwhile.
CommsExclusive ==
    /\ Cardinality(Talking) <= 1
    /\ Talking # {} => w.device

\* The hub never enumerates the bus while a user is asked to confirm, which would break
\* the Ledger protocol (hub.refreshWallets against SignTx, SignData and SignText).
NoEnumerationDuringConfirmation ==
    \A r \in Refreshers, c \in Callers : ~(scan[r].pc = "enumerate" /\ call[c].pc = "confirm")

\* When the user is asked, the device holds the whole message of that caller and nothing
\* else, and its last block is not one that the device would take for chain_id, r, s.
MessageArrivesWhole ==
    \A c \in Callers : call[c].pc = "confirm" =>
        line.from = c /\ line.got = call[c].len /\ line.last > Eip155Size

\* Only a heartbeat that tears the wallet down can crash the self-deriver: Close waits
\* for it to end before it clears the map that the self-deriver writes to.
OnlyTeardownPanics == panicked => torn

\* Within the first session no account is passed over: every path below the one that
\* self-derivation will try next is tracked.
NothingIsPassedOver ==
    opens = 1 /\ w.device /\ (\A g \in Opens : sd[g].pc # "insert") =>
        \A b \in Bases : \A i \in 0..(w.next[b] - 1) : <<b, i>> \in w.paths

\* Close returns, unless a user never answers the device: the two rendezvous find their
\* goroutines, also after a teardown and a reopening have left old ones behind.
CloseReturns ==
    (\A c \in Callers : []<>(call[c].pc # "confirm")) => (owner # Idle ~> owner = Idle \/ panicked)

\* What refreshWallets leaves in the list is what it has found on the bus.
RefreshTracksDevices ==
    [][\A r \in Refreshers : scan[r].pc = "merge" /\ scan'[r] = Idle =>
         {hub'.wallets[i].url : i \in DOMAIN hub'.wallets} = ToSet(scan[r].found)]_vars
=============================================================================
