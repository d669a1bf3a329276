----------------------- MODULE SolanaExecution_proofs -----------------------
(***************************************************************************)
(* Proofs about SolanaExecution, for any number of threads, multisigs,     *)
(* signatures, signers and faults.                                         *)
(***************************************************************************)
EXTENDS SolanaExecution, SequenceTheorems, TLAPS

-----------------------------------------------------------------------------
(* Transactions *)

\* A transaction of the multisig m as the calls build it; where it goes is not part of it.
IsTx(tx, m) ==
    /\ {"kind", "mcm", "auth"} \subseteq DOMAIN tx
    /\ "to" \notin DOMAIN tx
    /\ tx.mcm = m

\* A transaction keeps the fields that Tx gives it, whatever is added.
LEMMA WithFields ==
    ASSUME NEW r, NEW fields
    PROVE  /\ DOMAIN With(r, fields) = DOMAIN r \cup DOMAIN fields
           /\ \A f \in DOMAIN r : With(r, fields)[f] = r[f]
           /\ \A f \in DOMAIN fields \ DOMAIN r : With(r, fields)[f] = fields[f]
BY DEF With

LEMMA TxFields ==
    ASSUME NEW t, NEW m, NEW kind
    PROVE  /\ IsTx(Tx(t, m, kind), m) /\ Tx(t, m, kind).kind = kind
           /\ DOMAIN Tx(t, m, kind) = {"kind", "mcm", "auth"}
BY DEF Tx, IsTx

LEMMA TxWithFields ==
    ASSUME NEW t, NEW m, NEW kind, NEW fields, DOMAIN fields \cap {"kind", "mcm", "auth", "to"} = {}
    PROVE  /\ IsTx(With(Tx(t, m, kind), fields), m)
           /\ With(Tx(t, m, kind), fields).kind = kind
           /\ \A f \in DOMAIN fields : With(Tx(t, m, kind), fields)[f] = fields[f]
<1>. DEFINE r == Tx(t, m, kind)
            tx == With(r, fields)
<1>1. DOMAIN r = {"kind", "mcm", "auth"} /\ r["kind"] = kind /\ r["mcm"] = m
  BY DEF Tx
<1>. HIDE DEF r
<1>2. DOMAIN tx = DOMAIN r \cup DOMAIN fields
  BY DEF With
<1>3. tx["kind"] = kind /\ tx["mcm"] = m
  BY <1>1 DEF With
<1>4. \A f \in DOMAIN fields : tx[f] = fields[f]
  BY <1>1 DEF With
<1>. HIDE DEF tx
<1>5. IsTx(tx, m)
  BY <1>1, <1>2, <1>3 DEF IsTx
<1>. QED BY <1>3, <1>4, <1>5 DEF r, tx

-----------------------------------------------------------------------------
(* What a transaction can change *)

SignerKinds == {"initSigners", "appendSigners", "finalizeSigners", "setConfig"}
Fields == {"sigs", "root", "count", "signers", "config", "op", "ran"}

IsChain(c) == DOMAIN c = Fields /\ c.root \in [Mcms -> BOOLEAN]

\* The timelock's instructions leave the accounts of the multisigs alone.
LEMMA TimelockFrame ==
    ASSUME NEW c, NEW op, NEW payer, IsChain(c), NEW d \in TimelockApplied(c, op, payer)
    PROVE  IsChain(d) /\ d.root = c.root /\ d.signers = c.signers /\ d.config = c.config /\ d.count = c.count
<1>1. CASE op.kind = "initializeOperation"
  BY <1>1 DEF TimelockApplied, IsChain, Fields, If
<1>2. CASE op.kind = "initializeInstruction"
  BY <1>2 DEF TimelockApplied, IsChain, Fields, If
<1>3. CASE op.kind = "appendInstructionData"
  BY <1>3 DEF TimelockApplied, IsChain, Fields, If
<1>4. CASE op.kind = "finalizeOperation"
  BY <1>4 DEF TimelockApplied, IsChain, Fields, If
<1>5. CASE op.kind = "scheduleBatch"
  BY <1>5 DEF TimelockApplied, IsChain, Fields, If
<1>6. CASE op.kind = "cancel"
  BY <1>6 DEF TimelockApplied, IsChain, Fields, If
<1>7. CASE op.kind = "bypasserExecuteBatch"
  BY <1>7 DEF TimelockApplied, IsChain, Fields, If
<1>8. CASE op.kind = "executeBatch"
  BY <1>8 DEF TimelockApplied, IsChain, Fields, If
<1>9. CASE op.kind = "call"
  BY <1>9 DEF TimelockApplied, IsChain, Fields, If
<1>10. CASE op.kind \notin {"initializeOperation", "initializeInstruction", "appendInstructionData", "finalizeOperation",
                            "scheduleBatch", "cancel", "bypasserExecuteBatch", "executeBatch", "call"}
  BY <1>10 DEF TimelockApplied
<1>. QED BY <1>1, <1>2, <1>3, <1>4, <1>5, <1>6, <1>7, <1>8, <1>9, <1>10

\* Roots stay set; staged signers and the configuration change by the four signer
\* transactions only.
LEMMA AppliedFrame ==
    ASSUME NEW c, NEW tx, IsChain(c), NEW d \in Applied(c, tx)
    PROVE  /\ IsChain(d)
           /\ \A m \in Mcms : c.root[m] => d.root[m]
           /\ tx.kind = "setRoot" /\ tx.mcm \in Mcms => d.root[tx.mcm]
           /\ tx.kind \notin SignerKinds => d.signers = c.signers /\ d.config = c.config
<1>0. tx.to = Program(tx.mcm)
  BY DEF Applied
<1>1. CASE tx.kind \in {"initSignatures", "appendSignatures", "finalizeSignatures", "clearSignatures"}
  <2>1. IsChain(d) /\ d.root = c.root /\ d.signers = c.signers /\ d.config = c.config
    <3>1. CASE tx.kind = "initSignatures"
      BY <1>0, <3>1 DEF Applied, IsChain, Fields, If
    <3>2. CASE tx.kind = "appendSignatures"
      BY <1>0, <3>2 DEF Applied, IsChain, Fields, If
    <3>3. CASE tx.kind = "finalizeSignatures"
      BY <1>0, <3>3 DEF Applied, IsChain, Fields, If
    <3>4. CASE tx.kind = "clearSignatures"
      BY <1>0, <3>4 DEF Applied, IsChain, Fields, If
    <3>. QED BY <1>1, <3>1, <3>2, <3>3, <3>4
  <2>. QED BY <1>1, <2>1
<1>2. CASE tx.kind = "setRoot"
  <2>0. d = [c EXCEPT !.root[tx.mcm] = TRUE, !.sigs[<<tx.mcm, tx.auth>>] = NoAccount]
    BY <1>0, <1>2 DEF Applied, If
  <2>1. IsChain(d) /\ d.root = [c.root EXCEPT ![tx.mcm] = TRUE] /\ d.signers = c.signers /\ d.config = c.config
    BY <2>0 DEF IsChain, Fields
  <2>. QED BY <1>2, <2>1 DEF IsChain
<1>3. CASE tx.kind = "execute"
  <2>1. PICK e \in TimelockApplied(c, tx.op, tx.auth) : d = [e EXCEPT !.count[tx.mcm] = @ + 1]
    BY <1>0, <1>3 DEF Applied
  <2>2. IsChain(e) /\ e.root = c.root /\ e.signers = c.signers /\ e.config = c.config
    BY TimelockFrame
  <2>3. IsChain(d) /\ d.root = e.root /\ d.signers = e.signers /\ d.config = e.config
    BY <2>1, <2>2 DEF IsChain, Fields
  <2>. QED BY <1>3, <2>2, <2>3
<1>4. CASE tx.kind = "timelock"
  <2>1. d \in TimelockApplied(c, tx.op, tx.auth)
    BY <1>0, <1>4 DEF Applied
  <2>. QED BY <1>4, <2>1, TimelockFrame
<1>5. CASE tx.kind \in SignerKinds
  <2>1. IsChain(d) /\ d.root = c.root
    <3>1. CASE tx.kind = "initSigners"
      BY <1>0, <3>1 DEF Applied, IsChain, Fields, If
    <3>2. CASE tx.kind = "appendSigners"
      BY <1>0, <3>2 DEF Applied, IsChain, Fields, If
    <3>3. CASE tx.kind = "finalizeSigners"
      BY <1>0, <3>3 DEF Applied, IsChain, Fields, If
    <3>4. CASE tx.kind = "setConfig"
      BY <1>0, <3>4 DEF Applied, IsChain, Fields, If
    <3>. QED BY <1>5, <3>1, <3>2, <3>3, <3>4 DEF SignerKinds
  <2>. QED BY <1>5, <2>1 DEF SignerKinds
<1>6. CASE tx.kind \notin {"initSignatures", "appendSignatures", "finalizeSignatures", "clearSignatures", "setRoot",
                           "execute", "timelock"} \cup SignerKinds
  BY <1>0, <1>6 DEF Applied, SignerKinds
<1>. QED BY <1>1, <1>2, <1>3, <1>4, <1>5, <1>6

\* The effect of the signer transactions.
SignerEffect(c, tx, d) ==
    /\ tx.kind = "initSigners" => ~c.signers.exists /\ d.signers = Opened(tx.total) /\ d.config = c.config
    /\ tx.kind = "appendSigners" => d.signers = Appended(c.signers, tx.items) /\ d.config = c.config
    /\ tx.kind = "finalizeSigners" => d.signers = [c.signers EXCEPT !.final = TRUE] /\ d.config = c.config
    /\ tx.kind = "setConfig" => d.signers = NoAccount /\ d.config = c.signers.items

LEMMA SignerEffects ==
    ASSUME NEW c, NEW tx, IsChain(c), NEW d \in Applied(c, tx)
    PROVE  SignerEffect(c, tx, d)
<1>0. tx.to = Program(tx.mcm)
  BY DEF Applied
<1>1. CASE tx.kind = "initSigners"
  BY <1>0, <1>1 DEF Applied, IsChain, Fields, If, SignerEffect
<1>2. CASE tx.kind = "appendSigners"
  BY <1>0, <1>2 DEF Applied, IsChain, Fields, If, SignerEffect
<1>3. CASE tx.kind = "finalizeSigners"
  BY <1>0, <1>3 DEF Applied, IsChain, Fields, If, SignerEffect
<1>4. CASE tx.kind = "setConfig"
  BY <1>0, <1>4 DEF Applied, IsChain, Fields, If, SignerEffect
<1>. QED BY <1>1, <1>2, <1>3, <1>4 DEF SignerEffect

-----------------------------------------------------------------------------
(* Calls *)

SignatureKinds == {"initSignatures", "appendSignatures", "finalizeSignatures", "clearSignatures"}
SignerChunks(cfg) == Chunks(cfg, maxAppendSignerBatchSize)

\* The transaction that follows after k transactions of SetConfig have been done.
IsStep(tx, cfg, k) ==
    \/ k = 0 /\ tx.kind = "initSigners" /\ "total" \in DOMAIN tx /\ tx.total = Len(cfg)
    \/ k \in 1..Len(SignerChunks(cfg)) /\ tx.kind = "appendSigners" /\ "items" \in DOMAIN tx /\ tx.items = SignerChunks(cfg)[k]
    \/ k = Len(SignerChunks(cfg)) + 1 /\ tx.kind = "finalizeSigners"
    \/ k = Len(SignerChunks(cfg)) + 2 /\ tx.kind = "setConfig"

\* The transactions that are left of SetConfig then.
ConfigTodo(todo, cfg, k) ==
    /\ k + Len(todo) = Len(SignerChunks(cfg)) + 3
    /\ \A i \in 1..Len(todo) : IsStep(todo[i], cfg, k + i - 1)

IsTodo(todo, m) ==
    /\ \E T : todo \in Seq(T)
    /\ Len(todo) >= 1
    /\ \A i \in 1..Len(todo) : IsTx(todo[i], m)

RootTodo(todo) ==
    /\ todo[Len(todo)].kind = "setRoot"
    /\ \A i \in 1..(Len(todo) - 1) : todo[i].kind \in SignatureKinds

\* A call in progress: what is left to send fits the call.
JobOK(j) ==
    /\ DOMAIN j = {"call", "mcm", "attempt", "todo"}
    /\ j.mcm \in Mcms
    /\ IsTodo(j.todo, j.mcm)
    /\ \/ j.call = "SetRoot" /\ RootTodo(j.todo)
       \/ j.call = "ExecuteOperation" /\ Len(j.todo) = 1 /\ j.todo[1].kind = "execute"
       \/ j.call = "Execute" /\ Len(j.todo) = 1 /\ j.todo[1].kind = "timelock"
       \/ j.call = "SetConfig" /\ \E cfg \in Configs, k \in Nat : ConfigTodo(j.todo, cfg, k)

LEMMA ChunksFacts ==
    ASSUME NEW s, NEW S, s \in Seq(S), NEW size \in Nat \ {0}
    PROVE  /\ Len(Chunks(s, size)) \in Nat
           /\ Len(Chunks(s, size)) = (Len(s) + size - 1) \div size
           /\ Chunks(s, size) \in Seq(Seq(S))
           /\ \A i \in 1..Len(Chunks(s, size)) :
                Chunks(s, size)[i] = SubSeq(s, (i - 1) * size + 1, IF i * size > Len(s) THEN Len(s) ELSE i * size)
<1>. DEFINE n == (Len(s) + size - 1) \div size
            c == chunkIndexes(Len(s), size)
            ch == Chunks(s, size)
<1>1. n \in Nat
  OBVIOUS
<1>2. DOMAIN c = 1..n
  BY DEF chunkIndexes
<1>3. \A i \in 1..n : c[i][1] = (i - 1) * size /\ c[i][2] = IF i * size > Len(s) THEN Len(s) ELSE i * size
  BY DEF chunkIndexes
<1>4. ch = [i \in 1..n |-> SubSeq(s, c[i][1] + 1, c[i][2])]
  BY <1>2 DEF Chunks
<1>5. \A i \in 1..n : SubSeq(s, c[i][1] + 1, c[i][2]) \in Seq(S)
  <2> SUFFICES ASSUME NEW i \in 1..n PROVE SubSeq(s, c[i][1] + 1, c[i][2]) \in Seq(S)
    OBVIOUS
  <2>1. Len(s) \in Nat /\ (i - 1) * size \in Nat /\ i * size \in Nat
    BY <1>1
  <2>2. c[i][1] \in Nat /\ c[i][2] \in Nat /\ c[i][2] <= Len(s)
    BY <1>3, <2>1
  <2>. HIDE DEF c
  <2>3. \A j \in (c[i][1] + 1)..c[i][2] : j \in 1..Len(s)
    BY <2>1, <2>2
  <2>. QED BY <2>2, <2>3, SubSeqProperties
<1>. HIDE DEF n, c
<1>6. ch \in Seq(Seq(S)) /\ Len(ch) = n
  BY <1>1, <1>4, <1>5
<1>7. \A i \in 1..n : ch[i] = SubSeq(s, (i - 1) * size + 1, IF i * size > Len(s) THEN Len(s) ELSE i * size)
  BY <1>3, <1>4
<1>. QED BY <1>1, <1>6, <1>7 DEF n

\* The call goes on with the next transaction.
LEMMA JobTail ==
    ASSUME NEW j, JobOK(j), Len(j.todo) # 1
    PROVE  JobOK([j EXCEPT !.todo = Tail(@)])
<1>. DEFINE todo == j.todo
            rest == Tail(todo)
            j2 == [j EXCEPT !.todo = rest]
<1>1. PICK T : todo \in Seq(T)
  BY DEF JobOK, IsTodo
<1>2. Len(todo) \in Nat /\ Len(todo) >= 2
  <2>1. Len(todo) \in Nat
    BY <1>1
  <2>2. Len(todo) >= 1 /\ Len(todo) # 1
    BY DEF JobOK, IsTodo
  <2>3. \A n \in Nat : n >= 1 /\ n # 1 => n >= 2
    OBVIOUS
  <2>. QED BY <2>1, <2>2, <2>3
<1>3. rest \in Seq(T) /\ Len(rest) = Len(todo) - 1 /\ \A i \in 1..Len(rest) : rest[i] = todo[i + 1]
  BY <1>1, <1>2
<1>4. IsTodo(rest, j.mcm)
  <2>1. \A i \in 1..Len(rest) : i + 1 \in 1..Len(todo)
    BY <1>2, <1>3
  <2>. QED BY <1>2, <1>3, <2>1 DEF JobOK, IsTodo
<1>5. DOMAIN j2 = DOMAIN j /\ j2.mcm = j.mcm /\ j2.call = j.call /\ j2.todo = rest
  BY DEF JobOK
<1>6. RootTodo(todo) => RootTodo(rest)
  <2>1. \A i \in 1..(Len(rest) - 1) : i \in 1..Len(rest) /\ i + 1 \in 1..(Len(todo) - 1)
    BY <1>2, <1>3
  <2>2. rest[Len(rest)] = todo[Len(todo)]
    BY <1>2, <1>3
  <2>. QED BY <1>3, <2>1, <2>2 DEF RootTodo
<1>7. ASSUME NEW cfg \in Configs, NEW k \in Nat, ConfigTodo(todo, cfg, k) PROVE ConfigTodo(rest, cfg, k + 1) /\ k + 1 \in Nat
  <2>. HIDE DEF rest, todo
  <2>0. Len(rest) = Len(todo) - 1 /\ Len(todo) \in Nat
    BY <1>2, <1>3
  <2>1. (k + 1) + Len(rest) = k + Len(todo)
    BY <2>0
  <2>2. \A i \in 1..Len(rest) : i + 1 \in 1..Len(todo) /\ k + (i + 1) - 1 = (k + 1) + i - 1
    BY <2>0
  <2>3. \A i \in 1..Len(rest) : IsStep(rest[i], cfg, (k + 1) + i - 1)
    <3>. SUFFICES ASSUME NEW i \in 1..Len(rest) PROVE IsStep(rest[i], cfg, (k + 1) + i - 1)
      OBVIOUS
    <3>1. IsStep(todo[i + 1], cfg, k + (i + 1) - 1)
      BY <1>7, <2>2 DEF ConfigTodo
    <3>2. rest[i] = todo[i + 1] /\ k + (i + 1) - 1 = (k + 1) + i - 1
      BY <1>3, <2>2
    <3>. QED BY <3>1, <3>2
  <2>4. k + Len(todo) = Len(SignerChunks(cfg)) + 3
    BY <1>7 DEF ConfigTodo
  <2>. QED BY <2>1, <2>3, <2>4 DEF ConfigTodo
<1>. HIDE DEF j2, rest
<1>8. JobOK(j2)
  BY <1>2, <1>4, <1>5, <1>6, <1>7 DEF JobOK
<1>. QED BY <1>8 DEF j2, rest

\* Preloading starts again with an empty account.
LEMMA JobRetry ==
    ASSUME NEW j, JobOK(j), NEW tx, IsTx(tx, j.mcm), tx.kind = "clearSignatures", j.todo[1].kind = "initSignatures"
    PROVE  JobOK([j EXCEPT !.attempt = @ + 1, !.todo = <<tx>> \o @])
<1>. DEFINE todo == j.todo
            more == <<tx>> \o todo
            j2 == [j EXCEPT !.attempt = @ + 1, !.todo = more]
<1>1. PICK T : todo \in Seq(T)
  BY DEF JobOK, IsTodo
<1>2. Len(todo) \in Nat /\ Len(todo) >= 1
  BY <1>1 DEF JobOK, IsTodo
<1>3. j.call = "SetRoot" /\ RootTodo(todo)
  <2>1. \A cfg \in Configs, k \in Nat : ~ConfigTodo(todo, cfg, k)
    BY <1>2 DEF ConfigTodo, IsStep
  <2>. QED BY <1>2, <2>1 DEF JobOK
<1>4. more \in Seq(T \cup {tx}) /\ Len(more) = Len(todo) + 1 /\ more[1] = tx
  BY <1>1
<1>5. \A i \in 2..Len(more) : more[i] = todo[i - 1] /\ i - 1 \in 1..Len(todo)
  BY <1>1, <1>2, <1>4
<1>6. IsTodo(more, j.mcm)
  <2>1. \A i \in 1..Len(more) : i = 1 \/ i \in 2..Len(more)
    BY <1>2, <1>4
  <2>. QED BY <1>2, <1>4, <1>5, <2>1 DEF JobOK, IsTodo
<1>7. RootTodo(more)
  <2>1. \A i \in 1..(Len(more) - 1) : i = 1 \/ (i \in 2..Len(more) /\ i - 1 \in 1..(Len(todo) - 1))
    BY <1>2, <1>4
  <2>2. Len(more) \in 2..Len(more) /\ Len(more) - 1 = Len(todo)
    BY <1>2, <1>4
  <2>. QED BY <1>3, <1>4, <1>5, <2>1, <2>2 DEF RootTodo, SignatureKinds
<1>8. DOMAIN j2 = DOMAIN j /\ j2.mcm = j.mcm /\ j2.call = j.call /\ j2.todo = more
  BY DEF JobOK
<1>. HIDE DEF j2, more
<1>9. JobOK(j2)
  BY <1>3, <1>6, <1>7, <1>8 DEF JobOK
<1>. QED BY <1>9 DEF j2, more

-----------------------------------------------------------------------------
(* How calls begin *)

\* A staged upload: one transaction that opens the account, the pieces, one that closes
\* it, and one that uses it.
Upload(a, f, b, c) == (<<a>> \o f \o <<b>>) \o <<c>>

IsUpload(r, T, a, f, b, c) ==
    /\ r \in Seq(T \cup {a, b, c})
    /\ Len(r) = Len(f) + 3
    /\ r[1] = a
    /\ \A i \in 1..Len(f) : r[i + 1] = f[i]
    /\ r[Len(f) + 2] = b
    /\ r[Len(f) + 3] = c

LEMMA UploadFacts ==
    ASSUME NEW T, NEW f \in Seq(T), NEW a, NEW b, NEW c
    PROVE  IsUpload(Upload(a, f, b, c), T, a, f, b, c)
<1>. DEFINE U == T \cup {a, b, c}
            p == <<a>> \o f
            q == p \o <<b>>
            r == q \o <<c>>
<1>0. f \in Seq(U) /\ <<a>> \in Seq(U) /\ <<b>> \in Seq(U) /\ <<c>> \in Seq(U) /\ Len(f) \in Nat
  OBVIOUS
<1>1. p \in Seq(U) /\ Len(p) = Len(f) + 1 /\ p[1] = a /\ \A i \in 1..Len(f) : p[i + 1] = f[i]
  BY <1>0
<1>. HIDE DEF p
<1>2. q \in Seq(U) /\ Len(q) = Len(f) + 2 /\ q[Len(f) + 2] = b /\ \A i \in 1..(Len(f) + 1) : q[i] = p[i]
  BY <1>0, <1>1
<1>. HIDE DEF q
<1>3. r \in Seq(U) /\ Len(r) = Len(f) + 3 /\ r[Len(f) + 3] = c /\ \A i \in 1..(Len(f) + 2) : r[i] = q[i]
  BY <1>0, <1>2
<1>4. Upload(a, f, b, c) = r
  BY DEF Upload, p, q
<1>. HIDE DEF r
<1>5. 1 \in 1..(Len(f) + 1) /\ 1 \in 1..(Len(f) + 2) /\ Len(f) + 2 \in 1..(Len(f) + 2)
      /\ \A i \in 1..Len(f) : i + 1 \in 1..(Len(f) + 1) /\ i + 1 \in 1..(Len(f) + 2)
  BY <1>0
<1>. QED BY <1>1, <1>2, <1>3, <1>4, <1>5 DEF IsUpload

\* The places of a staged upload.
LEMMA UploadPlaces ==
    ASSUME NEW n \in Nat, NEW i \in 1..(n + 3)
    PROVE  i = 1 \/ i - 1 \in 1..n \/ i = n + 2 \/ i = n + 3
OBVIOUS

LEMMA SetRootBegins ==
    ASSUME NEW t, NEW m
    PROVE  LET todo == preloadSignatures(t, m) \o <<With(Tx(t, m, "setRoot"), [metadata |-> solanaMetadata(m)])>>
           IN  IsTodo(todo, m) /\ RootTodo(todo)
<1>. DEFINE chunks == Chunks(Signatures, MaxAppendSignatureBatchSize)
            a == With(Tx(t, m, "initSignatures"), [total |-> Len(Signatures)])
            f == [i \in DOMAIN chunks |-> With(Tx(t, m, "appendSignatures"), [items |-> chunks[i]])]
            b == Tx(t, m, "finalizeSignatures")
            c == With(Tx(t, m, "setRoot"), [metadata |-> solanaMetadata(m)])
            todo == Upload(a, f, b, c)
<1>1. IsTx(a, m) /\ a.kind = "initSignatures"
  BY TxWithFields
<1>2. IsTx(b, m) /\ b.kind = "finalizeSignatures"
  BY TxFields
<1>3. IsTx(c, m) /\ c.kind = "setRoot"
  BY TxWithFields
<1>4. PICK n \in Nat : DOMAIN chunks = 1..n
  <2>1. Signatures \in Seq(Nat) /\ MaxAppendSignatureBatchSize \in Nat \ {0}
    BY SolanaAssumption
  <2>. QED BY <2>1, ChunksFacts
<1>5. \A i \in 1..n : IsTx(f[i], m) /\ f[i].kind = "appendSignatures"
  BY <1>4, TxWithFields
<1>6. PICK T : f \in Seq(T) /\ Len(f) = n
  <2>1. f \in Seq({f[i] : i \in 1..n}) /\ Len(f) = n
    <3>. HIDE DEF chunks
    <3>. QED BY <1>4
  <2>. QED BY <2>1
<1>. HIDE DEF a, b, c, f
<1>7. /\ todo \in Seq(T \cup {a, b, c}) /\ Len(todo) = n + 3 /\ todo[1] = a /\ todo[n + 2] = b /\ todo[n + 3] = c
      /\ \A i \in 1..n : todo[i + 1] = f[i]
  <2>1. f \in Seq(T)
    BY <1>6
  <2>2. IsUpload(todo, T, a, f, b, c)
    BY <2>1, UploadFacts
  <2>. HIDE DEF todo
  <2>. QED BY <1>6, <2>2 DEF IsUpload
<1>. HIDE DEF todo
<1>8. \A i \in 1..(n + 3) : IsTx(todo[i], m) /\ (i # n + 3 => todo[i].kind \in SignatureKinds)
  <2>. SUFFICES ASSUME NEW i \in 1..(n + 3) PROVE IsTx(todo[i], m) /\ (i # n + 3 => todo[i].kind \in SignatureKinds)
    OBVIOUS
  <2>1. CASE i = 1
    BY <1>1, <1>7, <2>1 DEF SignatureKinds
  <2>2. CASE i - 1 \in 1..n
    <3>1. todo[i] = f[i - 1]
      BY <1>7, <2>2
    <3>. QED BY <1>5, <2>2, <3>1 DEF SignatureKinds
  <2>3. CASE i = n + 2
    BY <1>2, <1>7, <2>3 DEF SignatureKinds
  <2>4. CASE i = n + 3
    BY <1>3, <1>7, <2>4
  <2>. QED BY <2>1, <2>2, <2>3, <2>4, UploadPlaces
<1>9. IsTodo(todo, m)
  BY <1>7, <1>8 DEF IsTodo
<1>10. RootTodo(todo)
  <2>1. \A i \in 1..(Len(todo) - 1) : i \in 1..(n + 3) /\ i # n + 3
    BY <1>7
  <2>. QED BY <1>3, <1>7, <1>8, <2>1 DEF RootTodo
<1>. QED BY <1>9, <1>10 DEF Upload, todo, a, b, c, f, preloadSignatures

LEMMA SetConfigBegins ==
    ASSUME NEW t, NEW m, NEW cfg \in Configs
    PROVE  LET todo == preloadSigners(t, m, cfg) \o <<With(Tx(t, m, "setConfig"), [total |-> Len(cfg)])>>
           IN  IsTodo(todo, m) /\ ConfigTodo(todo, cfg, 0)
<1>. DEFINE chunks == Chunks(cfg, maxAppendSignerBatchSize)
            a == With(Tx(t, m, "initSigners"), [total |-> Len(cfg)])
            f == [i \in DOMAIN chunks |-> With(Tx(t, m, "appendSigners"), [items |-> chunks[i]])]
            b == Tx(t, m, "finalizeSigners")
            c == With(Tx(t, m, "setConfig"), [total |-> Len(cfg)])
            todo == Upload(a, f, b, c)
<1>1. IsTx(a, m) /\ a.kind = "initSigners" /\ "total" \in DOMAIN a /\ a.total = Len(cfg)
  <2>. DEFINE r == [total |-> Len(cfg)]
  <2>1. a = With(Tx(t, m, "initSigners"), r)
    OBVIOUS
  <2>2. DOMAIN r = {"total"} /\ r.total = Len(cfg)
    OBVIOUS
  <2>. HIDE DEF a, r
  <2>3. IsTx(a, m) /\ a.kind = "initSigners" /\ a["total"] = r["total"]
    BY <2>1, <2>2, TxWithFields
  <2>4. "total" \in DOMAIN a
    BY <2>1, <2>2, WithFields, ZenonT(60)
  <2>. QED BY <2>2, <2>3, <2>4
<1>2. IsTx(b, m) /\ b.kind = "finalizeSigners"
  BY TxFields
<1>3. IsTx(c, m) /\ c.kind = "setConfig"
  BY TxWithFields
<1>4. PICK n \in Nat : DOMAIN chunks = 1..n /\ Len(chunks) = n
  <2>1. cfg \in Seq(Nat) /\ maxAppendSignerBatchSize \in Nat \ {0}
    BY SolanaAssumption
  <2>2. chunks \in Seq(Seq(Nat))
    BY <2>1, ChunksFacts
  <2>. HIDE DEF chunks
  <2>3. Len(chunks) \in Nat /\ DOMAIN chunks = 1..Len(chunks)
    BY <2>2
  <2>. QED BY <2>3
<1>5. \A i \in 1..n : IsTx(f[i], m) /\ f[i].kind = "appendSigners" /\ "items" \in DOMAIN f[i] /\ f[i].items = chunks[i]
  <2>. SUFFICES ASSUME NEW i \in 1..n
                PROVE  IsTx(f[i], m) /\ f[i].kind = "appendSigners" /\ "items" \in DOMAIN f[i] /\ f[i].items = chunks[i]
    OBVIOUS
  <2>. DEFINE r == [items |-> chunks[i]]
              g == With(Tx(t, m, "appendSigners"), r)
  <2>1. f[i] = g
    BY <1>4
  <2>2. DOMAIN r = {"items"} /\ r.items = chunks[i]
    OBVIOUS
  <2>. HIDE DEF r
  <2>3. IsTx(g, m) /\ g.kind = "appendSigners" /\ g["items"] = r["items"]
    BY <2>2, TxWithFields
  <2>4. "items" \in DOMAIN g
    BY <2>2, WithFields
  <2>. QED BY <2>1, <2>2, <2>3, <2>4
<1>6. PICK T : f \in Seq(T) /\ Len(f) = n
  <2>1. f \in Seq({f[i] : i \in 1..n}) /\ Len(f) = n
    <3>. HIDE DEF chunks
    <3>. QED BY <1>4
  <2>. QED BY <2>1
<1>. HIDE DEF a, b, c, f
<1>7. /\ todo \in Seq(T \cup {a, b, c}) /\ Len(todo) = n + 3 /\ todo[1] = a /\ todo[n + 2] = b /\ todo[n + 3] = c
      /\ \A i \in 1..n : todo[i + 1] = f[i]
  <2>1. f \in Seq(T)
    BY <1>6
  <2>2. IsUpload(todo, T, a, f, b, c)
    BY <2>1, UploadFacts
  <2>. HIDE DEF todo
  <2>. QED BY <1>6, <2>2 DEF IsUpload
<1>. HIDE DEF todo
<1>8. Len(SignerChunks(cfg)) = n /\ SignerChunks(cfg) = chunks
  BY <1>4 DEF SignerChunks
<1>. HIDE DEF chunks
<1>9. \A i \in 1..(n + 3) : IsTx(todo[i], m) /\ IsStep(todo[i], cfg, 0 + i - 1)
  <2>. SUFFICES ASSUME NEW i \in 1..(n + 3) PROVE IsTx(todo[i], m) /\ IsStep(todo[i], cfg, i - 1)
    OBVIOUS
  <2>1. CASE i = 1
    BY <1>1, <1>7, <2>1 DEF IsStep
  <2>2. CASE i - 1 \in 1..n
    <3>1. todo[i] = f[i - 1]
      BY <1>7, <2>2
    <3>. QED BY <1>5, <1>8, <2>2, <3>1 DEF IsStep
  <2>3. CASE i = n + 2
    <3>1. i - 1 = Len(SignerChunks(cfg)) + 1
      BY <1>8, <2>3
    <3>. QED BY <1>2, <1>7, <2>3, <3>1 DEF IsStep
  <2>4. CASE i = n + 3
    <3>1. i - 1 = Len(SignerChunks(cfg)) + 2
      BY <1>8, <2>4
    <3>. QED BY <1>3, <1>7, <2>4, <3>1 DEF IsStep
  <2>. QED BY <2>1, <2>2, <2>3, <2>4, UploadPlaces
<1>10. IsTodo(todo, m)
  BY <1>7, <1>9 DEF IsTodo
<1>11. ConfigTodo(todo, cfg, 0)
  BY <1>7, <1>8, <1>9 DEF ConfigTodo
<1>. QED BY <1>10, <1>11 DEF Upload, todo, a, b, c, f, chunks, preloadSigners

\* A call that is one transaction.
LEMMA SingleBegins ==
    ASSUME NEW t, NEW m, NEW kind, NEW fields, DOMAIN fields \cap {"kind", "mcm", "auth", "to"} = {}
    PROVE  LET todo == <<With(Tx(t, m, kind), fields)>>
           IN  IsTodo(todo, m) /\ Len(todo) = 1 /\ todo[1].kind = kind
<1>. DEFINE tx == With(Tx(t, m, kind), fields)
<1>1. IsTx(tx, m) /\ tx.kind = kind
  BY TxWithFields
<1>. HIDE DEF tx
<1>2. <<tx>> \in Seq({tx}) /\ Len(<<tx>>) = 1 /\ <<tx>>[1] = tx
  OBVIOUS
<1>3. IsTodo(<<tx>>, m)
  <2>1. Len(<<tx>>) >= 1 /\ \A i \in 1..Len(<<tx>>) : <<tx>>[i] = tx
    BY <1>2
  <2>2. \E T : <<tx>> \in Seq(T)
    BY <1>2, Zenon
  <2>. QED BY <1>1, <2>1, <2>2, Zenon DEF IsTodo
<1>. QED BY <1>1, <1>2, <1>3 DEF tx

-----------------------------------------------------------------------------
(* The steps of the system, as the invariants need them *)

\* What every later invariant rests on: threads are idle or in a call that makes sense.
JobInv ==
    /\ IsChain(chain)
    /\ DOMAIN job = Threads
    /\ DOMAIN result = Threads
    /\ \A t \in Threads : job[t] = Idle \/ JobOK(job[t])

\* Transactions that work on signers which an earlier one has staged.
HolderKinds == {"appendSigners", "finalizeSigners", "setConfig"}

Begins(t, j) ==
    /\ JobOK(j) /\ t \in bound.threads
    /\ j.todo[1].kind \notin HolderKinds
    /\ job[t] = Idle /\ job' = [job EXCEPT ![t] = j]
    /\ j.call # "Execute" => programID' = Program(j.mcm)
    /\ j.call = "Execute" => programID' = programID
    /\ bound' = bound /\ chain' = chain /\ inFlight' = inFlight /\ result' = result

Outcome(t, outcome) == [call |-> job[t].call, mcm |-> job[t].mcm, outcome |-> outcome]

GoesOn(t) ==
    /\ Len(job[t].todo) # 1
    /\ job' = [job EXCEPT ![t] = [job[t] EXCEPT !.todo = Tail(@)]]
    /\ chain' \in Applied(chain, Sent(t)) /\ inFlight' = inFlight /\ result' = result

Finishes(t) ==
    /\ Len(job[t].todo) = 1
    /\ job' = [job EXCEPT ![t] = Idle]
    /\ chain' \in Applied(chain, Sent(t)) /\ inFlight' = inFlight
    /\ result' = [result EXCEPT ![t] = Outcome(t, "ok")]

Retries(t) ==
    /\ Sent(t).kind = "initSignatures"
    /\ job' = [job EXCEPT ![t] = [job[t] EXCEPT !.attempt = @ + 1, !.todo = <<Tx(t, job[t].mcm, "clearSignatures")>> \o @]]
    /\ chain' = chain /\ inFlight' = inFlight /\ result' = result

Fails(t) ==
    /\ job' = [job EXCEPT ![t] = Idle]
    /\ \/ chain' \in Applied(chain, Sent(t)) /\ inFlight' = inFlight
       \/ chain' = chain /\ inFlight' = inFlight
       \/ chain' = chain /\ inFlight' = inFlight \cup {Sent(t)}
    /\ result' = [result EXCEPT ![t] = Outcome(t, "error")]

\* A call starts with its first transaction.
LEMMA CallSteps ==
    ASSUME NEW t \in Threads, Call(t)
    PROVE  \E j : Begins(t, j)
<1>. DEFINE Job(call, m, todo) == [call |-> call, mcm |-> m, attempt |-> 0, todo |-> todo]
<1>1. PICK m \in Mcms : SetRoot(t, m) \/ ExecuteOperation(t, m) \/ Execute(t, m) \/ \E cfg \in Configs : SetConfig(t, m, cfg)
  BY DEF Call
<1>2. CASE SetRoot(t, m)
  <2>. DEFINE todo == preloadSignatures(t, m) \o <<With(Tx(t, m, "setRoot"), [metadata |-> solanaMetadata(m)])>>
              j == Job("SetRoot", m, todo)
  <2>1. job[t] = Idle /\ job' = [job EXCEPT ![t] = j] /\ t \in bound.threads /\ programID' = Program(m)
        /\ bound' = bound /\ chain' = chain /\ inFlight' = inFlight /\ result' = result
    BY <1>2 DEF SetRoot, Begin, SetProgramID, Works
  <2>2. IsTodo(todo, m) /\ RootTodo(todo)
    BY SetRootBegins
  <2>. HIDE DEF todo
  <2>3. j.call = "SetRoot" /\ j.mcm = m /\ j.todo = todo /\ DOMAIN j = {"call", "mcm", "attempt", "todo"}
    OBVIOUS
  <2>. HIDE DEF j
  <2>4. JobOK(j)
    BY <2>2, <2>3 DEF JobOK
  <2>5. todo[1].kind \notin HolderKinds
    <3>0. PICK T : todo \in Seq(T)
      BY <2>2 DEF IsTodo
    <3>1. Len(todo) \in Nat /\ Len(todo) >= 1
      BY <2>2, <3>0 DEF IsTodo
    <3>2. 1 = Len(todo) \/ 1 \in 1..(Len(todo) - 1)
      <4>1. \A n \in Nat : n >= 1 => 1 = n \/ 1 \in 1..(n - 1)
        OBVIOUS
      <4>. QED BY <3>1, <4>1
    <3>3. todo[1].kind = "setRoot" \/ todo[1].kind \in SignatureKinds
      BY <2>2, <3>2 DEF RootTodo
    <3>. QED BY <3>3 DEF SignatureKinds, HolderKinds
  <2>. QED BY <2>1, <2>3, <2>4, <2>5 DEF Begins
<1>3. CASE ExecuteOperation(t, m)
  <2>. DEFINE r == [nonce |-> GetOpCount(m), op |-> Ops(m)[GetOpCount(m) + 1]]
              todo == <<With(Tx(t, m, "execute"), r)>>
              j == Job("ExecuteOperation", m, todo)
  <2>1. job[t] = Idle /\ job' = [job EXCEPT ![t] = j] /\ t \in bound.threads /\ programID' = Program(m)
        /\ bound' = bound /\ chain' = chain /\ inFlight' = inFlight /\ result' = result
    BY <1>3 DEF ExecuteOperation, Begin, SetProgramID, Works
  <2>2. DOMAIN r = {"nonce", "op"}
    OBVIOUS
  <2>. HIDE DEF r
  <2>3. IsTodo(todo, m) /\ Len(todo) = 1 /\ todo[1].kind = "execute"
    BY <2>2, SingleBegins
  <2>. HIDE DEF todo
  <2>4. j.call = "ExecuteOperation" /\ j.mcm = m /\ j.todo = todo /\ DOMAIN j = {"call", "mcm", "attempt", "todo"}
    OBVIOUS
  <2>. HIDE DEF j
  <2>5. JobOK(j)
    BY <2>3, <2>4 DEF JobOK
  <2>. QED BY <2>1, <2>3, <2>4, <2>5 DEF Begins, HolderKinds
<1>4. CASE Execute(t, m)
  <2>. DEFINE op == [kind |-> "executeBatch", args |-> <<HashOperation(Batch, Predecessor)>>,
                     accounts |-> BaseAccounts \o <<Account("timelockSigner", FALSE, FALSE)>>
                                    \o getAccountsFromBatchOperation(Batch)]
              r == [op |-> op]
              todo == <<With(Tx(t, m, "timelock"), r)>>
              j == Job("Execute", m, todo)
  <2>1. job[t] = Idle /\ job' = [job EXCEPT ![t] = j] /\ t \in bound.threads /\ programID' = programID
        /\ bound' = bound /\ chain' = chain /\ inFlight' = inFlight /\ result' = result
    BY <1>4 DEF Execute, Begin, Works
  <2>2. DOMAIN r = {"op"}
    OBVIOUS
  <2>. HIDE DEF r
  <2>3. IsTodo(todo, m) /\ Len(todo) = 1 /\ todo[1].kind = "timelock"
    BY <2>2, SingleBegins
  <2>. HIDE DEF todo
  <2>4. j.call = "Execute" /\ j.mcm = m /\ j.todo = todo /\ DOMAIN j = {"call", "mcm", "attempt", "todo"}
    OBVIOUS
  <2>. HIDE DEF j
  <2>5. JobOK(j)
    BY <2>3, <2>4 DEF JobOK
  <2>. QED BY <2>1, <2>3, <2>4, <2>5 DEF Begins, HolderKinds
<1>5. ASSUME NEW cfg \in Configs, SetConfig(t, m, cfg) PROVE \E j : Begins(t, j)
  <2>. DEFINE todo == preloadSigners(t, m, cfg) \o <<With(Tx(t, m, "setConfig"), [total |-> Len(cfg)])>>
              j == Job("SetConfig", m, todo)
  <2>1. job[t] = Idle /\ job' = [job EXCEPT ![t] = j] /\ t \in bound.threads /\ programID' = Program(m)
        /\ bound' = bound /\ chain' = chain /\ inFlight' = inFlight /\ result' = result
    BY <1>5 DEF SetConfig, Begin, SetProgramID, Works
  <2>2. IsTodo(todo, m) /\ ConfigTodo(todo, cfg, 0)
    BY SetConfigBegins
  <2>. HIDE DEF todo
  <2>3. j.call = "SetConfig" /\ j.mcm = m /\ j.todo = todo /\ DOMAIN j = {"call", "mcm", "attempt", "todo"}
    OBVIOUS
  <2>. HIDE DEF j
  <2>4. JobOK(j)
    BY <2>2, <2>3 DEF JobOK
  <2>5. todo[1].kind \notin HolderKinds
    <3>0. PICK T : todo \in Seq(T)
      BY <2>2 DEF IsTodo
    <3>1. Len(todo) \in Nat /\ Len(todo) >= 1
      BY <2>2, <3>0 DEF IsTodo
    <3>2. 1 \in 1..Len(todo) /\ 0 + 1 - 1 = 0
      BY <3>1
    <3>3. IsStep(todo[1], cfg, 0)
      BY <2>2, <3>2 DEF ConfigTodo
    <3>4. Len(SignerChunks(cfg)) \in Nat
      <4>1. cfg \in Seq(Nat) /\ maxAppendSignerBatchSize \in Nat \ {0}
        BY SolanaAssumption
      <4>. QED BY <4>1, ChunksFacts DEF SignerChunks
    <3>5. todo[1].kind = "initSigners"
      BY <3>3, <3>4 DEF IsStep
    <3>. QED BY <3>5 DEF HolderKinds
  <2>. QED BY <2>1, <2>3, <2>4, <2>5 DEF Begins
<1>. QED BY <1>1, <1>2, <1>3, <1>4, <1>5

\* Sending a transaction takes the call further, ends it or starts the preloading again.
LEMMA SendSteps ==
    ASSUME NEW t \in Threads, Send(t)
    PROVE  /\ job[t] # Idle /\ bound' = bound /\ programID' = programID
           /\ GoesOn(t) \/ Finishes(t) \/ Retries(t) \/ Fails(t)
<1>1. CASE Confirmed(t)
  BY <1>1 DEF Confirmed, Continue, Return, GoesOn, Finishes, Outcome
<1>2. CASE Refused(t)
  <2>1. CASE retryPreloadSignatures(t) /\ isAccountAlreadyInUseError(t, Sent(t))
    BY <1>2, <2>1 DEF Refused, retryPreloadSignatures, isAccountAlreadyInUseError, Retries
  <2>2. CASE OnError(t)
    BY <1>2, <2>2 DEF Refused, OnError, Return, Fails, Outcome
  <2>. QED BY <1>2, <2>1, <2>2 DEF Refused
<1>3. CASE Timeout(t)
  BY <1>3 DEF Timeout, OnError, Return, Fails, Outcome
<1>4. CASE ResultLost(t)
  BY <1>4 DEF ResultLost, OnError, Return, Fails, Outcome
<1>. QED BY <1>1, <1>2, <1>3, <1>4 DEF Send

\* A transaction is sent as the call has built it.
LEMMA SentFacts ==
    ASSUME NEW t, JobOK(job[t])
    PROVE  /\ Head(job[t].todo) = job[t].todo[1]
           /\ IsTx(job[t].todo[1], job[t].mcm)
           /\ Sent(t).kind = job[t].todo[1].kind
           /\ Sent(t).mcm = job[t].mcm
           /\ Sent(t).to = IF job[t].todo[1].kind = "timelock" THEN Program(job[t].mcm) ELSE programID
           /\ \A f \in DOMAIN job[t].todo[1] : Sent(t)[f] = job[t].todo[1][f]
<1>. DEFINE todo == job[t].todo
            h == todo[1]
            r == [to |-> IF h.kind = "timelock" THEN Program(job[t].mcm) ELSE programID]
<1>1. PICK T : todo \in Seq(T)
  BY DEF JobOK, IsTodo
<1>2. Len(todo) \in Nat /\ Len(todo) >= 1
  BY <1>1 DEF JobOK, IsTodo
<1>3. Head(todo) = h /\ 1 \in 1..Len(todo)
  BY <1>1, <1>2
<1>4. IsTx(h, job[t].mcm)
  BY <1>3 DEF JobOK, IsTodo
<1>5. Sent(t) = With(h, r)
  BY <1>3 DEF Sent
<1>6. DOMAIN r = {"to"} /\ r.to = IF h.kind = "timelock" THEN Program(job[t].mcm) ELSE programID
  OBVIOUS
<1>. HIDE DEF r, h
<1>7. /\ \A f \in DOMAIN h : Sent(t)[f] = h[f]
      /\ \A f \in DOMAIN r \ DOMAIN h : Sent(t)[f] = r[f]
  BY <1>5 DEF With
<1>8. "kind" \in DOMAIN h /\ "mcm" \in DOMAIN h /\ "to" \in DOMAIN r \ DOMAIN h /\ h.mcm = job[t].mcm
  BY <1>4, <1>6 DEF IsTx
<1>9. Sent(t).kind = h.kind /\ Sent(t).mcm = h.mcm /\ Sent(t).to = r.to
  BY <1>7, <1>8
<1>. QED BY <1>3, <1>4, <1>6, <1>7, <1>8, <1>9 DEF h

LEMMA IdleIsNoJob == ~JobOK(Idle) /\ Idle.call = "none"
BY DEF JobOK, Idle

-----------------------------------------------------------------------------
(* Jobs and results *)

\* Whatever happens, the chain keeps its shape and its roots.
LEMMA ChainSteps ==
    ASSUME IsChain(chain), [Next]_vars
    PROVE  IsChain(chain') /\ \A m \in Mcms : chain.root[m] => chain'.root[m]
<1>1. ASSUME NEW tx, chain' \in Applied(chain, tx) PROVE IsChain(chain') /\ \A m \in Mcms : chain.root[m] => chain'.root[m]
  BY <1>1, AppliedFrame
<1>2. CASE chain' = chain
  BY <1>2
<1>3. ASSUME NEW t \in Threads, Call(t) PROVE chain' = chain
  BY <1>3, CallSteps DEF Begins
<1>4. ASSUME NEW t \in Threads, Send(t) PROVE chain' = chain \/ chain' \in Applied(chain, Sent(t))
  BY <1>4, SendSteps DEF GoesOn, Finishes, Retries, Fails
<1>5. ASSUME NEW tx \in inFlight, Late(tx) PROVE chain' = chain \/ chain' \in Applied(chain, tx)
  BY <1>5 DEF Late
<1>6. CASE DelayPasses
  <2>1. chain' = [chain EXCEPT !.op.state = "ready"]
    BY <1>6 DEF DelayPasses
  <2>2. IsChain(chain') /\ chain'.root = chain.root
    BY <2>1 DEF IsChain, Fields
  <2>. QED BY <2>2
<1>7. CASE UNCHANGED vars
  BY <1>7, <1>2 DEF vars
<1>. QED BY <1>1, <1>2, <1>3, <1>4, <1>5, <1>6, <1>7 DEF Next

LEMMA JobInvInit == Init => JobInv
<1>. SUFFICES ASSUME Init PROVE JobInv
  OBVIOUS
<1>1. DOMAIN job = Threads /\ DOMAIN result = Threads /\ \A t \in Threads : job[t] = Idle
  BY DEF Init
<1>2. IsChain(chain)
  <2>1. chain = [sigs |-> [k \in Mcms \X Auths |-> NoAccount], root |-> [m \in Mcms |-> FALSE],
                 count |-> [m \in Mcms |-> 0], signers |-> NoAccount, config |-> <<>>,
                 op |-> NoAccount, ran |-> 0]
    BY DEF Init
  <2>2. DOMAIN chain = Fields /\ chain.root = [m \in Mcms |-> FALSE]
    BY <2>1 DEF Fields
  <2>. QED BY <2>2 DEF IsChain
<1>. QED BY <1>1, <1>2 DEF JobInv

LEMMA JobInvNext == JobInv /\ [Next]_vars => JobInv'
<1>. SUFFICES ASSUME JobInv, [Next]_vars PROVE JobInv'
  OBVIOUS
<1>0. IsChain(chain')
  BY ChainSteps DEF JobInv
<1>1. ASSUME NEW t \in Threads, Call(t) PROVE JobInv'
  <2>1. PICK j : Begins(t, j)
    BY <1>1, CallSteps
  <2>2. JobOK(j) /\ job' = [job EXCEPT ![t] = j] /\ result' = result
    BY <2>1 DEF Begins
  <2>3. DOMAIN job' = Threads /\ \A u \in Threads : job'[u] = IF u = t THEN j ELSE job[u]
    BY <2>2 DEF JobInv
  <2>. QED BY <1>0, <2>2, <2>3 DEF JobInv
<1>2. ASSUME NEW t \in Threads, Send(t) PROVE JobInv'
  <2>1. job[t] # Idle /\ JobOK(job[t])
    BY <1>2, SendSteps DEF JobInv
  <2>2. ASSUME NEW j, job' = [job EXCEPT ![t] = j], j = Idle \/ JobOK(j), DOMAIN result' = Threads PROVE JobInv'
    <3>1. DOMAIN job' = Threads /\ \A u \in Threads : job'[u] = IF u = t THEN j ELSE job[u]
      BY <2>2 DEF JobInv
    <3>. QED BY <1>0, <2>2, <3>1 DEF JobInv
  <2>3. CASE GoesOn(t)
    <3>1. JobOK([job[t] EXCEPT !.todo = Tail(@)])
      BY <2>1, <2>3, JobTail DEF GoesOn
    <3>. QED BY <2>2, <2>3, <3>1 DEF GoesOn, JobInv
  <2>4. CASE Finishes(t)
    BY <2>2, <2>4 DEF Finishes, JobInv
  <2>5. CASE Retries(t)
    <3>. DEFINE tx == Tx(t, job[t].mcm, "clearSignatures")
    <3>1. IsTx(tx, job[t].mcm) /\ tx.kind = "clearSignatures"
      BY TxFields
    <3>2. job[t].todo[1].kind = "initSignatures"
      BY <2>1, <2>5, SentFacts DEF Retries
    <3>. HIDE DEF tx
    <3>3. JobOK([job[t] EXCEPT !.attempt = @ + 1, !.todo = <<tx>> \o @])
      BY <2>1, <3>1, <3>2, JobRetry
    <3>4. job' = [job EXCEPT ![t] = [job[t] EXCEPT !.attempt = @ + 1, !.todo = <<tx>> \o @]] /\ result' = result
      BY <2>5 DEF Retries, tx
    <3>. QED BY <2>2, <3>3, <3>4 DEF JobInv
  <2>6. CASE Fails(t)
    BY <2>2, <2>6 DEF Fails, JobInv
  <2>. QED BY <1>2, <2>3, <2>4, <2>5, <2>6, SendSteps
<1>3. ASSUME NEW tx \in inFlight, Late(tx) PROVE JobInv'
  BY <1>0, <1>3 DEF JobInv, Late
<1>4. CASE DelayPasses
  BY <1>0, <1>4 DEF JobInv, DelayPasses
<1>5. CASE UNCHANGED vars
  BY <1>0, <1>5 DEF JobInv, vars
<1>. QED BY <1>1, <1>2, <1>3, <1>4, <1>5 DEF Next

\* A successful SetRoot names a multisig whose root is set.
SuccessInv ==
    \A t \in Threads :
      result[t].outcome = "ok" /\ result[t].call = "SetRoot" => result[t].mcm \in Mcms /\ chain.root[result[t].mcm]

LEMMA SuccessInvNext == JobInv /\ SuccessInv /\ [Next]_vars => SuccessInv'
<1>. SUFFICES ASSUME JobInv, SuccessInv, [Next]_vars PROVE SuccessInv'
  OBVIOUS
<1>0. \A m \in Mcms : chain.root[m] => chain'.root[m]
  BY ChainSteps DEF JobInv
<1>1. CASE result' = result
  BY <1>0, <1>1 DEF SuccessInv
<1>2. ASSUME NEW t \in Threads, Call(t) PROVE result' = result
  BY <1>2, CallSteps DEF Begins
<1>3. ASSUME NEW t \in Threads, Send(t) PROVE SuccessInv'
  <2>1. job[t] # Idle /\ JobOK(job[t])
    BY <1>3, SendSteps DEF JobInv
  <2>2. ASSUME NEW outcome, result' = [result EXCEPT ![t] = Outcome(t, outcome)],
               outcome = "ok" /\ job[t].call = "SetRoot" => job[t].mcm \in Mcms /\ chain'.root[job[t].mcm]
        PROVE  SuccessInv'
    <3>1. \A u \in Threads : result'[u] = IF u = t THEN Outcome(t, outcome) ELSE result[u]
      BY <2>2 DEF JobInv
    <3>2. Outcome(t, outcome).outcome = outcome /\ Outcome(t, outcome).call = job[t].call /\ Outcome(t, outcome).mcm = job[t].mcm
      BY DEF Outcome
    <3>. QED BY <1>0, <2>2, <3>1, <3>2 DEF SuccessInv
  <2>3. CASE GoesOn(t) \/ Retries(t)
    BY <1>1, <2>3 DEF GoesOn, Retries
  <2>4. CASE Finishes(t)
    <3>1. ASSUME job[t].call = "SetRoot" PROVE job[t].mcm \in Mcms /\ chain'.root[job[t].mcm]
      <4>1. job[t].mcm \in Mcms /\ RootTodo(job[t].todo)
        BY <2>1, <3>1 DEF JobOK
      <4>2. job[t].todo[1].kind = "setRoot"
        BY <2>4, <4>1 DEF RootTodo, Finishes
      <4>3. Sent(t).kind = "setRoot" /\ Sent(t).mcm = job[t].mcm
        BY <2>1, <4>2, SentFacts
      <4>. QED BY <2>4, <4>1, <4>3, AppliedFrame DEF Finishes, JobInv
    <3>. QED BY <2>2, <2>4, <3>1 DEF Finishes
  <2>5. CASE Fails(t)
    BY <2>2, <2>5 DEF Fails
  <2>. QED BY <1>3, <2>3, <2>4, <2>5, SendSteps
<1>4. ASSUME NEW tx \in inFlight, Late(tx) PROVE result' = result
  BY <1>4 DEF Late
<1>5. CASE DelayPasses \/ UNCHANGED vars
  BY <1>1, <1>5 DEF DelayPasses, vars
<1>. QED BY <1>1, <1>2, <1>3, <1>4, <1>5 DEF Next

\* A SetRoot that returns without an error has set the root, for any number of threads,
\* chunks, timeouts, retries and late transactions: its last transaction is the one that
\* sets the root, it was confirmed, and roots stay set.
THEOREM SuccessesAreReal == Spec => []SuccessIsReal
<1>1. Init => SuccessInv
  BY DEF Init, SuccessInv
<1>2. SuccessInv => SuccessIsReal
  BY DEF SuccessInv, SuccessIsReal
<1>. QED BY <1>1, <1>2, JobInvInit, JobInvNext, SuccessInvNext, PTL DEF Spec

\* A lone thread's call has pointed the bindings at its program; only the timelock's call
\* leaves them alone.
ProgramInv ==
    \A t \in Threads :
      job[t] # Idle =>
        /\ t \in bound.threads
        /\ bound.threads = {t} /\ job[t].call # "Execute" => programID = Program(job[t].mcm)

LEMMA ProgramInvNext == JobInv /\ ProgramInv /\ [Next]_vars => ProgramInv'
<1>. SUFFICES ASSUME JobInv, ProgramInv, [Next]_vars PROVE ProgramInv'
  OBVIOUS
<1>1. ASSUME NEW t \in Threads, Call(t) PROVE ProgramInv'
  <2>1. PICK j : Begins(t, j)
    BY <1>1, CallSteps
  <2>2. \A u \in Threads : job'[u] = IF u = t THEN j ELSE job[u]
    BY <2>1 DEF Begins, JobInv
  <2>. SUFFICES ASSUME NEW u \in Threads, job'[u] # Idle
                PROVE  u \in bound.threads /\ (bound.threads = {u} /\ job'[u].call # "Execute" => programID' = Program(job'[u].mcm))
    BY <2>1 DEF Begins, ProgramInv
  <2>3. CASE u = t
    BY <2>1, <2>2, <2>3 DEF Begins
  <2>4. CASE u # t
    BY <2>1, <2>2, <2>4 DEF Begins, ProgramInv
  <2>. QED BY <2>3, <2>4
<1>2. ASSUME NEW t \in Threads, Send(t) PROVE ProgramInv'
  <2>1. job[t] # Idle /\ JobOK(job[t]) /\ bound' = bound /\ programID' = programID
    BY <1>2, SendSteps DEF JobInv
  <2>2. \A u \in Threads : u # t => job'[u] = job[u]
    BY <1>2, SendSteps DEF GoesOn, Finishes, Retries, Fails, JobInv
  <2>3. job'[t] = Idle \/ (job'[t].call = job[t].call /\ job'[t].mcm = job[t].mcm)
    <3>1. CASE GoesOn(t)
      <4>1. job'[t] = [job[t] EXCEPT !.todo = Tail(@)]
        BY <3>1 DEF GoesOn, JobInv
      <4>. QED BY <2>1, <4>1 DEF JobOK
    <3>2. CASE Retries(t)
      <4>1. job'[t] = [job[t] EXCEPT !.attempt = @ + 1, !.todo = <<Tx(t, job[t].mcm, "clearSignatures")>> \o @]
        BY <3>2 DEF Retries, JobInv
      <4>. QED BY <2>1, <4>1 DEF JobOK
    <3>3. CASE Finishes(t) \/ Fails(t)
      BY <3>3 DEF Finishes, Fails, JobInv
    <3>. QED BY <1>2, <3>1, <3>2, <3>3, SendSteps
  <2>. QED BY <2>1, <2>2, <2>3 DEF ProgramInv
<1>3. ASSUME NEW tx \in inFlight, Late(tx) PROVE ProgramInv'
  BY <1>3 DEF ProgramInv, Late
<1>4. CASE DelayPasses \/ UNCHANGED vars
  BY <1>4 DEF ProgramInv, DelayPasses, vars
<1>. QED BY <1>1, <1>2, <1>3, <1>4 DEF Next

\* Calls that do not overlap reach the program they name: every call of the multisig sets
\* the shared variable before its first transaction, and the timelock's call does not use
\* it.  For any number of programs and whatever a failed call has left behind.
THEOREM SequentialCallsAreSafe == Spec => []SequentialCallsReachTheirProgram
<1>1. Init => ProgramInv
  BY DEF Init, ProgramInv
<1>2. JobInv /\ ProgramInv => SequentialCallsReachTheirProgram
  <2>. SUFFICES ASSUME JobInv, ProgramInv, NEW t \in Threads, job[t] # Idle, bound.threads = {t}
                PROVE  Sent(t).to = Program(Head(job[t].todo).mcm)
    BY DEF SequentialCallsReachTheirProgram
  <2>1. JobOK(job[t])
    BY DEF JobInv
  <2>2. Head(job[t].todo) = job[t].todo[1] /\ job[t].todo[1].mcm = job[t].mcm
    BY <2>1, SentFacts DEF IsTx
  <2>3. Sent(t).to = IF job[t].todo[1].kind = "timelock" THEN Program(job[t].mcm) ELSE programID
    BY <2>1, SentFacts
  <2>4. job[t].call = "Execute" => job[t].todo[1].kind = "timelock"
    BY <2>1 DEF JobOK
  <2>5. job[t].call # "Execute" => programID = Program(job[t].mcm)
    BY DEF ProgramInv
  <2>. QED BY <2>2, <2>3, <2>4, <2>5
<1>. QED BY <1>1, <1>2, JobInvInit, JobInvNext, ProgramInvNext, PTL DEF Spec

-----------------------------------------------------------------------------
(* Staged signers *)

\* How many signers are staged after k transactions of SetConfig.
Upto(cfg, k) ==
    IF (k - 1) * maxAppendSignerBatchSize > Len(cfg) THEN Len(cfg) ELSE (k - 1) * maxAppendSignerBatchSize

\* The account holds what the first k transactions of SetConfig have put into it.
Staged(a, cfg, k) ==
    /\ DOMAIN a = {"exists", "total", "items", "final"}
    /\ a.exists
    /\ a.items = SubSeq(cfg, 1, Upto(cfg, k))

LEMMA DivFacts ==
    ASSUME NEW n \in Nat, NEW s \in Nat \ {0}
    PROVE  LET d == (n + s - 1) \div s
           IN  d \in Nat /\ d * s >= n /\ \A k \in 1..d : (k - 1) * s < n
<1>. DEFINE d == (n + s - 1) \div s
<1>1. d \in Nat /\ d * s <= n + s - 1 /\ n + s - 1 < d * s + s
  OBVIOUS
<1>. HIDE DEF d
<1>2. d * s >= n
  BY <1>1
<1>3. ASSUME NEW k \in 1..d PROVE (k - 1) * s < n
  <2>1. (k - 1) * s <= (d - 1) * s
    BY <1>1
  <2>2. (d - 1) * s = d * s - s
    BY <1>1
  <2>3. (k - 1) * s \in Int /\ d * s \in Int
    BY <1>1
  <2>. QED BY <1>1, <2>1, <2>2, <2>3
<1>. QED BY <1>1, <1>2, <1>3 DEF d

LEMMA Joined ==
    ASSUME NEW a \in Seq(Nat), NEW b \in Seq(Nat), NEW c \in Seq(Nat),
           Len(c) = Len(a) + Len(b),
           \A i \in 1..Len(a) : c[i] = a[i],
           \A i \in 1..Len(b) : c[Len(a) + i] = b[i]
    PROVE  a \o b = c
<1>0. Len(a) \in Nat /\ Len(b) \in Nat
  OBVIOUS
<1>1. a \o b \in Seq(Nat) /\ Len(a \o b) = Len(a) + Len(b)
  OBVIOUS
<1>2. ASSUME NEW i \in 1..(Len(a) + Len(b)) PROVE (a \o b)[i] = c[i]
  <2>1. CASE i <= Len(a)
    BY <1>0, <2>1
  <2>2. CASE i > Len(a)
    <3>1. i - Len(a) \in 1..Len(b) /\ Len(a) + (i - Len(a)) = i
      BY <1>0, <2>2
    <3>2. (a \o b)[i] = b[i - Len(a)]
      BY <1>0, <2>2
    <3>. QED BY <3>1, <3>2
  <2>. QED BY <1>0, <2>1, <2>2
<1>. QED BY <1>1, <1>2, SeqEqual

LEMMA SubSeqJoin ==
    ASSUME NEW s \in Seq(Nat), NEW u \in Nat, NEW v \in Nat, u <= v, v <= Len(s)
    PROVE  SubSeq(s, 1, u) \o SubSeq(s, u + 1, v) = SubSeq(s, 1, v)
<1>. DEFINE a == SubSeq(s, 1, u)
            b == SubSeq(s, u + 1, v)
            c == SubSeq(s, 1, v)
<1>0. Len(s) \in Nat /\ \A i \in 1..v : s[i] \in Nat
  OBVIOUS
<1>1. a \in Seq(Nat) /\ Len(a) = u /\ \A i \in 1..u : a[i] = s[i]
  <2>1. \A i \in 1..u : s[i] \in Nat
    BY <1>0
  <2>. QED BY <2>1, SubSeqProperties
<1>2. b \in Seq(Nat) /\ Len(b) = v - u /\ \A i \in 1..(v - u) : b[i] = s[u + i]
  <2>1. \A i \in (u + 1)..v : s[i] \in Nat
    BY <1>0
  <2>2. /\ b \in Seq(Nat) /\ Len(b) = (IF u + 1 <= v THEN v - (u + 1) + 1 ELSE 0)
        /\ \A i \in 1..(v - (u + 1) + 1) : b[i] = s[(u + 1) + i - 1]
    BY <2>1, SubSeqProperties
  <2>. HIDE DEF b
  <2>3. (IF u + 1 <= v THEN v - (u + 1) + 1 ELSE 0) = v - u /\ v - (u + 1) + 1 = v - u
    OBVIOUS
  <2>4. \A i \in 1..(v - u) : (u + 1) + i - 1 = u + i
    OBVIOUS
  <2>. QED BY <2>2, <2>3, <2>4
<1>3. c \in Seq(Nat) /\ Len(c) = v /\ \A i \in 1..v : c[i] = s[i]
  BY <1>0, SubSeqProperties
<1>. HIDE DEF a, b, c
<1>4. Len(c) = Len(a) + Len(b)
  BY <1>1, <1>2, <1>3
<1>5. \A i \in 1..Len(a) : c[i] = a[i]
  <2>1. \A i \in 1..u : i \in 1..v
    OBVIOUS
  <2>. QED BY <1>1, <1>3, <2>1
<1>6. \A i \in 1..Len(b) : c[Len(a) + i] = b[i]
  <2>1. \A i \in 1..(v - u) : u + i \in 1..v
    OBVIOUS
  <2>. QED BY <1>1, <1>2, <1>3, <2>1
<1>7. a \o b = c
  BY <1>1, <1>2, <1>3, <1>4, <1>5, <1>6, Joined
<1>. QED BY <1>7 DEF a, b, c

\* Each transaction of SetConfig takes the account from one stage to the next, and the
\* account is whole when there is nothing more to append.
LEMMA Stages ==
    ASSUME NEW cfg \in Configs, NEW a
    PROVE  /\ Len(SignerChunks(cfg)) \in Nat
           /\ \A total : Staged(Opened(total), cfg, 1)
           /\ \A k \in 1..Len(SignerChunks(cfg)) :
                Staged(a, cfg, k) => Staged(Appended(a, SignerChunks(cfg)[k]), cfg, k + 1)
           /\ \A k \in Nat : k >= Len(SignerChunks(cfg)) + 1 /\ Staged(a, cfg, k) => a.items = cfg
<1>. DEFINE s == maxAppendSignerBatchSize
            n == Len(cfg)
            d == Len(SignerChunks(cfg))
<1>0. s \in Nat \ {0} /\ cfg \in Seq(Nat) /\ n \in Nat
  BY SolanaAssumption
<1>1. d = (n + s - 1) \div s /\ \A k \in 1..d : SignerChunks(cfg)[k] = SubSeq(cfg, (k - 1) * s + 1, IF k * s > n THEN n ELSE k * s)
  BY <1>0, ChunksFacts DEF SignerChunks
<1>2. d \in Nat /\ d * s >= n /\ \A k \in 1..d : (k - 1) * s < n
  BY <1>0, <1>1, DivFacts
<1>3. ASSUME NEW total PROVE Staged(Opened(total), cfg, 1)
  <2>1. Upto(cfg, 1) = 0
    BY <1>0 DEF Upto
  <2>2. SubSeq(cfg, 1, 0) = <<>>
    BY <1>0, SubSeqEmpty
  <2>. QED BY <2>1, <2>2 DEF Staged, Opened
<1>4. ASSUME NEW k \in 1..d, Staged(a, cfg, k) PROVE Staged(Appended(a, SignerChunks(cfg)[k]), cfg, k + 1)
  <2>. DEFINE u == (k - 1) * s
              v == IF k * s > n THEN n ELSE k * s
              piece == SubSeq(cfg, u + 1, v)
  <2>1. k \in Nat /\ u \in Nat /\ k * s \in Nat /\ k * s = u + s
    BY <1>0, <1>2
  <2>2. u < n
    BY <1>2
  <2>. HIDE DEF u
  <2>3. u \in Nat /\ v \in Nat /\ u <= v /\ v <= n
    BY <1>0, <2>1, <2>2
  <2>4. Upto(cfg, k) = u
    BY <1>0, <2>1, <2>2 DEF Upto, u
  <2>5. Upto(cfg, k + 1) = v
    <3>1. (k + 1) - 1 = k
      BY <2>1
    <3>. QED BY <3>1 DEF Upto
  <2>. HIDE DEF v
  <2>6. SubSeq(cfg, 1, u) \o piece = SubSeq(cfg, 1, v)
    BY <1>0, <2>3, SubSeqJoin
  <2>7. SignerChunks(cfg)[k] = piece
    BY <1>1 DEF u, v
  <2>. HIDE DEF piece
  <2>8. a.items \o piece = SubSeq(cfg, 1, Upto(cfg, k + 1))
    BY <1>4, <2>4, <2>5, <2>6 DEF Staged
  <2>9. DOMAIN Appended(a, piece) = DOMAIN a /\ Appended(a, piece).exists = a.exists /\ Appended(a, piece).items = a.items \o piece
    BY <1>4 DEF Appended, Staged
  <2>. QED BY <1>4, <2>7, <2>8, <2>9 DEF Staged
<1>5. ASSUME NEW k \in Nat, k >= d + 1, Staged(a, cfg, k) PROVE a.items = cfg
  <2>1. (k - 1) * s >= d * s
    <3>1. k - 1 >= d /\ k - 1 \in Nat
      BY <1>2, <1>5
    <3>2. \A x, y \in Nat : x >= y => x * s >= y * s
      BY <1>0
    <3>. HIDE DEF d
    <3>. QED BY <1>2, <3>1, <3>2
  <2>2. (k - 1) * s >= n /\ (k - 1) * s \in Int
    <3>1. d * s \in Int /\ (k - 1) * s \in Int
      BY <1>0, <1>2
    <3>. QED BY <1>0, <1>2, <2>1, <3>1
  <2>3. Upto(cfg, k) = n
    BY <1>0, <2>2 DEF Upto
  <2>4. SubSeq(cfg, 1, n) = cfg
    BY <1>0
  <2>. QED BY <1>5, <2>3, <2>4 DEF Staged
<1>. QED BY <1>2, <1>3, <1>4, <1>5

\* A transaction in flight, and the rest of a call, that go on where the staged signers are.
Held(tx, a) == \E cfg \in Configs, k \in Nat \ {0} : IsStep(tx, cfg, k) /\ Staged(a, cfg, k)
HeldJob(todo, a) == \E cfg \in Configs, k \in Nat \ {0} : ConfigTodo(todo, cfg, k) /\ Staged(a, cfg, k)

Holding(t) == job[t] # Idle /\ job[t].todo[1].kind \in HolderKinds

\* At most one caller or transaction in flight can still add to the staged signers or use
\* them, and it knows exactly what is staged.
SignersInv ==
    /\ ConfigIsWhole
    /\ \A t \in Threads : Holding(t) => HeldJob(job[t].todo, chain.signers)
    /\ \A tx \in inFlight : tx.kind \in HolderKinds => Held(tx, chain.signers)
    /\ \A t, u \in Threads : Holding(t) /\ Holding(u) => t = u
    /\ \A t \in Threads, tx \in inFlight : ~(Holding(t) /\ tx.kind \in HolderKinds)
    /\ \A tx, ty \in inFlight : tx.kind \in HolderKinds /\ ty.kind \in HolderKinds => tx = ty

NoHolder ==
    /\ \A t \in Threads : ~Holding(t)
    /\ \A tx \in inFlight : tx.kind \notin HolderKinds

\* What a transaction of SetConfig does to the signers it finds as it expects them.
LEMMA StepEffect ==
    ASSUME NEW c, IsChain(c), NEW tx, NEW d \in Applied(c, tx), NEW cfg \in Configs, NEW k \in Nat,
           IsStep(tx, cfg, k), k # 0 => Staged(c.signers, cfg, k)
    PROVE  /\ k <= Len(SignerChunks(cfg)) + 1 => Staged(d.signers, cfg, k + 1) /\ d.config = c.config
           /\ k > Len(SignerChunks(cfg)) + 1 => d.config = cfg
<1>. DEFINE n == Len(SignerChunks(cfg))
<1>0. n \in Nat
  BY Stages
<1>e. SignerEffect(c, tx, d)
  BY SignerEffects
<1>1. CASE k = 0 /\ tx.kind = "initSigners"
  <2>1. d.signers = Opened(tx.total) /\ d.config = c.config
    BY <1>1, <1>e DEF SignerEffect
  <2>2. Staged(d.signers, cfg, 1)
    BY <2>1, Stages
  <2>. QED BY <1>0, <1>1, <2>1, <2>2
<1>2. CASE k \in 1..n /\ tx.kind = "appendSigners" /\ tx.items = SignerChunks(cfg)[k]
  <2>1. d.signers = Appended(c.signers, SignerChunks(cfg)[k]) /\ d.config = c.config
    BY <1>2, <1>e DEF SignerEffect
  <2>2. Staged(c.signers, cfg, k)
    BY <1>2
  <2>3. Staged(d.signers, cfg, k + 1)
    BY <1>2, <2>1, <2>2, Stages, SMTT(40)
  <2>. QED BY <1>0, <1>2, <2>1, <2>3
<1>3. CASE k = n + 1 /\ tx.kind = "finalizeSigners"
  <2>0. k # 0 /\ k <= n + 1 /\ ~(k > n + 1)
    BY <1>0, <1>3
  <2>1. d.signers = [c.signers EXCEPT !.final = TRUE] /\ d.config = c.config
    BY <1>3, <1>e DEF SignerEffect
  <2>2. Staged(c.signers, cfg, k)
    BY <2>0
  <2>3. c.signers.items = cfg
    BY <1>3, <2>0, <2>2, Stages
  <2>4. DOMAIN d.signers = DOMAIN c.signers /\ d.signers.exists = c.signers.exists /\ d.signers.items = cfg
    BY <2>1, <2>2, <2>3 DEF Staged
  <2>5. SubSeq(cfg, 1, Upto(cfg, k + 1)) = cfg
    <3>. DEFINE a == [c.signers EXCEPT !.items = SubSeq(cfg, 1, Upto(cfg, k + 1))]
    <3>1. DOMAIN a = {"exists", "total", "items", "final"} /\ a.exists /\ a.items = SubSeq(cfg, 1, Upto(cfg, k + 1))
      BY <2>2 DEF Staged
    <3>. HIDE DEF a
    <3>2. Staged(a, cfg, k + 1)
      BY <3>1 DEF Staged
    <3>3. k + 1 \in Nat /\ k + 1 >= n + 1
      BY <1>0, <1>3
    <3>4. a.items = cfg
      BY <3>2, <3>3, Stages
    <3>. QED BY <3>1, <3>4
  <2>. QED BY <2>0, <2>1, <2>2, <2>4, <2>5 DEF Staged
<1>4. CASE k = n + 2 /\ tx.kind = "setConfig"
  <2>0. k # 0 /\ k >= n + 1 /\ ~(k <= n + 1)
    BY <1>0, <1>4
  <2>1. d.config = c.signers.items
    BY <1>4, <1>e DEF SignerEffect
  <2>2. c.signers.items = cfg
    BY <2>0, Stages
  <2>. QED BY <2>0, <2>1, <2>2
<1>. QED BY <1>1, <1>2, <1>3, <1>4 DEF IsStep

\* The first transaction of a call that holds the signers is the one they wait for.
LEMMA HeldIsSent ==
    ASSUME NEW t, JobOK(job[t]), NEW cfg, NEW k \in Nat, ConfigTodo(job[t].todo, cfg, k)
    PROVE  IsStep(Sent(t), cfg, k) /\ IsStep(job[t].todo[1], cfg, k)
<1>. DEFINE todo == job[t].todo
            h == todo[1]
<1>1. 1 \in 1..Len(todo) /\ k + 1 - 1 = k
  <2>1. PICK T : todo \in Seq(T)
    BY DEF JobOK, IsTodo
  <2>2. Len(todo) \in Nat /\ Len(todo) >= 1
    BY <2>1 DEF JobOK, IsTodo
  <2>3. \A n \in Nat : n >= 1 => 1 \in 1..n
    OBVIOUS
  <2>. QED BY <2>2, <2>3
<1>2. IsStep(h, cfg, k)
  BY <1>1 DEF ConfigTodo
<1>. HIDE DEF h
<1>3. Sent(t).kind = h.kind /\ \A f \in DOMAIN h : Sent(t)[f] = h[f]
  BY SentFacts DEF h
<1>4. DOMAIN h \subseteq DOMAIN Sent(t)
  <2>1. Head(todo) = h
    BY SentFacts DEF h
  <2>2. PICK r : Sent(t) = With(h, r)
    BY <2>1 DEF Sent
  <2>3. DOMAIN With(h, r) = DOMAIN h \cup DOMAIN r
    BY DEF With
  <2>. QED BY <2>2, <2>3
<1>5. IsStep(Sent(t), cfg, k)
  BY <1>2, <1>3, <1>4 DEF IsStep
<1>. QED BY <1>2, <1>5 DEF h

\* When nobody can go on with the staged signers, only the configuration matters.
LEMMA NothingHeld == ConfigIsWhole' /\ NoHolder' => SignersInv'
BY DEF NoHolder, SignersInv

\* An account that does not exist is nobody's.
LEMMA NobodyHolds ==
    ASSUME SignersInv, ~chain.signers.exists
    PROVE  NoHolder
BY DEF SignersInv, NoHolder, HeldJob, Held, Staged

\* A transaction that finds the signers as its call expects them, or does not touch
\* staged signers, leaves a whole configuration.
LEMMA ConfigStaysWhole ==
    ASSUME JobInv, SignersInv, NEW tx, chain' \in Applied(chain, tx),
           tx.kind \in HolderKinds => Held(tx, chain.signers)
    PROVE  ConfigIsWhole'
<1>1. CASE tx.kind \notin SignerKinds
  BY <1>1, AppliedFrame DEF JobInv, SignersInv, ConfigIsWhole
<1>2. CASE tx.kind = "initSigners"
  <2>0. SignerEffect(chain, tx, chain')
    BY SignerEffects DEF JobInv
  <2>1. chain'.config = chain.config
    BY <1>2, <2>0 DEF SignerEffect
  <2>. QED BY <2>1 DEF SignersInv, ConfigIsWhole
<1>3. CASE tx.kind \in HolderKinds
  <2>1. PICK cfg \in Configs, k \in Nat \ {0} : IsStep(tx, cfg, k) /\ Staged(chain.signers, cfg, k)
    BY <1>3 DEF Held
  <2>2. chain'.config = chain.config \/ chain'.config = cfg
    <3>1. Len(SignerChunks(cfg)) \in Nat
      BY Stages
    <3>2. k <= Len(SignerChunks(cfg)) + 1 \/ k > Len(SignerChunks(cfg)) + 1
      BY <3>1
    <3>3. /\ k <= Len(SignerChunks(cfg)) + 1 => chain'.config = chain.config
          /\ k > Len(SignerChunks(cfg)) + 1 => chain'.config = cfg
      BY <2>1, StepEffect DEF JobInv
    <3>. QED BY <3>2, <3>3
  <2>. QED BY <2>2 DEF SignersInv, ConfigIsWhole
<1>. QED BY <1>1, <1>2, <1>3 DEF SignerKinds, HolderKinds

\* Holders may only become fewer while the signers stay as they are.
LEMMA FewerHold ==
    ASSUME SignersInv, chain'.signers = chain.signers, chain'.config = chain.config,
           \A t \in Threads : Holding(t)' => Holding(t) /\ job'[t] = job[t],
           \A tx \in inFlight' : tx \in inFlight \/ tx.kind \notin HolderKinds
    PROVE  SignersInv'
<1>1. ConfigIsWhole'
  BY DEF SignersInv, ConfigIsWhole
<1>2. \A t \in Threads : Holding(t)' => HeldJob(job'[t].todo, chain'.signers)
  BY DEF SignersInv
<1>3. \A tx \in inFlight' : tx.kind \in HolderKinds => Held(tx, chain'.signers)
  BY DEF SignersInv
<1>4. \A t, u \in Threads : Holding(t)' /\ Holding(u)' => t = u
  BY DEF SignersInv
<1>5. \A t \in Threads, tx \in inFlight' : ~(Holding(t)' /\ tx.kind \in HolderKinds)
  BY DEF SignersInv
<1>6. \A tx, ty \in inFlight' : tx.kind \in HolderKinds /\ ty.kind \in HolderKinds => tx = ty
  BY DEF SignersInv
<1>. QED BY <1>1, <1>2, <1>3, <1>4, <1>5, <1>6 DEF SignersInv

\* What the call of a thread holds, its next transaction is about.
LEMMA HoldingSends ==
    ASSUME JobInv, SignersInv, NEW t \in Threads, job[t] # Idle
    PROVE  /\ JobOK(job[t]) /\ Sent(t).kind = job[t].todo[1].kind
           /\ Holding(t) <=> Sent(t).kind \in HolderKinds
           /\ Sent(t).kind \in HolderKinds => Held(Sent(t), chain.signers)
<1>1. JobOK(job[t])
  BY DEF JobInv
<1>2. Sent(t).kind = job[t].todo[1].kind
  BY <1>1, SentFacts
<1>3. Holding(t) <=> Sent(t).kind \in HolderKinds
  BY <1>2 DEF Holding
<1>4. ASSUME Holding(t) PROVE Held(Sent(t), chain.signers)
  <2>1. PICK cfg \in Configs, k \in Nat \ {0} : ConfigTodo(job[t].todo, cfg, k) /\ Staged(chain.signers, cfg, k)
    BY <1>4 DEF SignersInv, HeldJob
  <2>2. IsStep(Sent(t), cfg, k)
    BY <1>1, <2>1, HeldIsSent
  <2>. QED BY <2>1, <2>2 DEF Held
<1>. QED BY <1>1, <1>2, <1>3, <1>4

\* A transaction lands and whoever has sent it stops there.
LEMMA LandsAndStops ==
    ASSUME JobInv, SignersInv, NEW tx, chain' \in Applied(chain, tx),
           tx.kind \in HolderKinds => Held(tx, chain.signers) /\ NoHolder',
           \A t \in Threads : Holding(t)' => Holding(t) /\ job'[t] = job[t],
           inFlight' \subseteq inFlight
    PROVE  SignersInv'
<1>0. ConfigIsWhole'
  BY ConfigStaysWhole
<1>1. CASE tx.kind \in HolderKinds
  BY <1>0, <1>1, NothingHeld
<1>2. CASE tx.kind = "initSigners"
  <2>0. SignerEffect(chain, tx, chain')
    BY SignerEffects DEF JobInv
  <2>1. ~chain.signers.exists
    BY <1>2, <2>0 DEF SignerEffect
  <2>2. NoHolder
    BY <2>1, NobodyHolds
  <2>3. NoHolder'
    BY <2>2 DEF NoHolder
  <2>. QED BY <1>0, <2>3, NothingHeld
<1>3. CASE tx.kind \notin SignerKinds
  <2>1. chain'.signers = chain.signers /\ chain'.config = chain.config
    BY <1>3, AppliedFrame DEF JobInv
  <2>. QED BY <2>1, FewerHold
<1>. QED BY <1>1, <1>2, <1>3 DEF SignerKinds, HolderKinds

\* The call goes on: it holds the signers now if it has staged some of them.
LEMMA GoesOnKeepsSigners ==
    ASSUME JobInv, SignersInv, NEW t \in Threads, job[t] # Idle, GoesOn(t)
    PROVE  SignersInv'
<1>. DEFINE todo == job[t].todo
            rest == Tail(todo)
            tx == Sent(t)
<1>0. /\ JobOK(job[t]) /\ tx.kind = todo[1].kind /\ (Holding(t) <=> tx.kind \in HolderKinds)
      /\ tx.kind \in HolderKinds => Held(tx, chain.signers)
  BY HoldingSends
<1>1. chain' \in Applied(chain, tx) /\ inFlight' = inFlight
  BY DEF GoesOn
<1>2. job'[t] = [job[t] EXCEPT !.todo = rest] /\ \A u \in Threads : u # t => job'[u] = job[u]
  BY DEF GoesOn, JobInv
<1>3. job'[t].todo = rest /\ job'[t].call = job[t].call
  BY <1>0, <1>2 DEF JobOK
<1>4. JobOK(job'[t])
  BY <1>0, <1>2, JobTail DEF GoesOn
<1>5. job'[t] # Idle
  BY <1>4, IdleIsNoJob
<1>6. Len(todo) \in Nat /\ Len(todo) >= 2 /\ Len(rest) = Len(todo) - 1 /\ \A i \in 1..Len(rest) : rest[i] = todo[i + 1]
  <2>1. PICK T : todo \in Seq(T)
    BY <1>0 DEF JobOK, IsTodo
  <2>2. Len(todo) \in Nat /\ Len(todo) >= 1 /\ Len(todo) # 1
    BY <1>0, <2>1 DEF JobOK, IsTodo, GoesOn
  <2>3. \A n \in Nat : n >= 1 /\ n # 1 => n >= 2
    OBVIOUS
  <2>4. Len(todo) >= 2
    BY <2>2, <2>3
  <2>. QED BY <2>1, <2>2, <2>4
<1>. HIDE DEF todo, rest, tx
<1>7. CASE tx.kind \notin SignerKinds
  <2>1. chain'.signers = chain.signers /\ chain'.config = chain.config
    BY <1>1, <1>7, AppliedFrame DEF JobInv
  <2>2. \A cfg \in Configs, k \in Nat : ~ConfigTodo(todo, cfg, k)
    <3>1. 1 \in 1..Len(todo)
      BY <1>6
    <3>. QED BY <1>0, <1>7, <3>1 DEF ConfigTodo, IsStep, SignerKinds
  <2>3. job[t].call = "SetRoot"
    BY <1>0, <1>6, <2>2 DEF JobOK, todo
  <2>4. RootTodo(rest)
    BY <1>3, <1>4, <2>3 DEF JobOK
  <2>5. rest[1].kind \notin HolderKinds
    <3>1. 1 = Len(rest) \/ 1 \in 1..(Len(rest) - 1)
      <4>1. \A n \in Nat : n >= 2 => 1 = n - 1 \/ 1 \in 1..((n - 1) - 1)
        OBVIOUS
      <4>. QED BY <1>6, <4>1
    <3>2. rest[1].kind = "setRoot" \/ rest[1].kind \in SignatureKinds
      BY <2>4, <3>1 DEF RootTodo
    <3>. QED BY <3>2 DEF SignatureKinds, HolderKinds
  <2>6. \A u \in Threads : Holding(u)' => Holding(u) /\ job'[u] = job[u]
    BY <1>2, <1>3, <2>5 DEF Holding
  <2>. QED BY <1>1, <2>1, <2>6, FewerHold
<1>8. ASSUME NEW cfg \in Configs, NEW k \in Nat, ConfigTodo(todo, cfg, k), k # 0 => Staged(chain.signers, cfg, k),
             \A u \in Threads \ {t} : ~Holding(u), \A ty \in inFlight : ty.kind \notin HolderKinds
      PROVE  SignersInv'
  <2>1. IsStep(tx, cfg, k)
    BY <1>0, <1>8, HeldIsSent DEF todo, tx
  <2>2. Len(SignerChunks(cfg)) \in Nat /\ k + Len(todo) = Len(SignerChunks(cfg)) + 3
    BY <1>8, Stages DEF ConfigTodo
  <2>3. k <= Len(SignerChunks(cfg)) + 1
    BY <1>6, <2>2
  <2>4. Staged(chain'.signers, cfg, k + 1) /\ chain'.config = chain.config
    BY <1>1, <1>8, <2>1, <2>3, StepEffect DEF JobInv
  <2>5. ConfigTodo(rest, cfg, k + 1)
    <3>1. (k + 1) + Len(rest) = k + Len(todo)
      BY <1>6
    <3>2. ASSUME NEW i \in 1..Len(rest) PROVE IsStep(rest[i], cfg, (k + 1) + i - 1)
      <4>1. i + 1 \in 1..Len(todo) /\ k + (i + 1) - 1 = (k + 1) + i - 1
        BY <1>6
      <4>2. IsStep(todo[i + 1], cfg, k + (i + 1) - 1)
        BY <1>8, <4>1 DEF ConfigTodo
      <4>. QED BY <1>6, <4>1, <4>2
    <3>. QED BY <2>2, <3>1, <3>2 DEF ConfigTodo
  <2>6. HeldJob(job'[t].todo, chain'.signers)
    <3>1. k + 1 \in Nat \ {0}
      OBVIOUS
    <3>. QED BY <1>3, <2>4, <2>5, <3>1 DEF HeldJob
  <2>7. \A u \in Threads : Holding(u)' => u = t
    BY <1>2, <1>8 DEF Holding
  <2>8. ConfigIsWhole'
    BY <2>4 DEF SignersInv, ConfigIsWhole
  <2>. QED BY <1>1, <1>8, <2>6, <2>7, <2>8 DEF SignersInv
<1>9. CASE tx.kind = "initSigners"
  <2>0. SignerEffect(chain, tx, chain')
    BY <1>1, SignerEffects DEF JobInv
  <2>1. ~chain.signers.exists
    BY <1>9, <2>0 DEF SignerEffect
  <2>2. NoHolder
    BY <2>1, NobodyHolds
  <2>3. PICK cfg \in Configs, k \in Nat : ConfigTodo(todo, cfg, k)
    <3>1. job[t].call = "SetRoot" => todo[1].kind # "initSigners"
      <4>1. 1 \in 1..(Len(todo) - 1)
        BY <1>6
      <4>. QED BY <1>0, <4>1 DEF JobOK, RootTodo, SignatureKinds, todo
    <3>2. Len(todo) # 1
      BY <1>6
    <3>. QED BY <1>0, <1>9, <3>1, <3>2 DEF JobOK, todo
  <2>4. k = 0
    <3>1. IsStep(tx, cfg, k)
      BY <1>0, <2>3, HeldIsSent DEF todo, tx
    <3>. QED BY <1>9, <3>1 DEF IsStep
  <2>. QED BY <1>8, <2>2, <2>3, <2>4 DEF NoHolder
<1>10. CASE tx.kind \in HolderKinds
  <2>1. Holding(t)
    BY <1>0, <1>10
  <2>2. PICK cfg \in Configs, k \in Nat \ {0} : ConfigTodo(todo, cfg, k) /\ Staged(chain.signers, cfg, k)
    BY <2>1 DEF SignersInv, HeldJob, todo
  <2>3. (\A u \in Threads \ {t} : ~Holding(u)) /\ \A ty \in inFlight : ty.kind \notin HolderKinds
    BY <2>1 DEF SignersInv
  <2>. QED BY <1>8, <2>2, <2>3
<1>. QED BY <1>7, <1>9, <1>10 DEF SignerKinds, HolderKinds

LEMMA SignersInvNext == JobInv /\ SignersInv /\ [Next]_vars => SignersInv'
<1>. SUFFICES ASSUME JobInv, SignersInv, [Next]_vars PROVE SignersInv'
  OBVIOUS
<1>1. ASSUME NEW t \in Threads, Call(t) PROVE SignersInv'
  <2>1. PICK j : Begins(t, j)
    BY <1>1, CallSteps
  <2>2. \A u \in Threads : job'[u] = IF u = t THEN j ELSE job[u]
    BY <2>1 DEF Begins, JobInv
  <2>3. \A u \in Threads : Holding(u)' => Holding(u) /\ job'[u] = job[u]
    BY <2>1, <2>2 DEF Begins, Holding
  <2>. QED BY <2>1, <2>3, FewerHold DEF Begins
<1>2. ASSUME NEW t \in Threads, Send(t) PROVE SignersInv'
  <2>1. job[t] # Idle
    BY <1>2, SendSteps
  <2>2. /\ JobOK(job[t]) /\ Sent(t).kind = job[t].todo[1].kind /\ (Holding(t) <=> Sent(t).kind \in HolderKinds)
        /\ Sent(t).kind \in HolderKinds => Held(Sent(t), chain.signers)
    BY <2>1, HoldingSends
  <2>3. CASE GoesOn(t)
    BY <2>1, <2>3, GoesOnKeepsSigners
  <2>4. ASSUME job' = [job EXCEPT ![t] = Idle]
        PROVE  \A u \in Threads : Holding(u)' => u # t /\ Holding(u) /\ job'[u] = job[u]
    <3>1. \A u \in Threads : job'[u] = IF u = t THEN Idle ELSE job[u]
      BY <2>4 DEF JobInv
    <3>. QED BY <3>1 DEF Holding
  <2>5. CASE job' = [job EXCEPT ![t] = Idle] /\ chain' \in Applied(chain, Sent(t)) /\ inFlight' = inFlight
    <3>1. Holding(t) => NoHolder'
      BY <2>4, <2>5 DEF SignersInv, NoHolder
    <3>. QED BY <2>2, <2>4, <2>5, <3>1, LandsAndStops
  <2>6. CASE job' = [job EXCEPT ![t] = Idle] /\ chain' = chain /\ inFlight' = inFlight
    BY <2>4, <2>6, FewerHold
  <2>7. CASE job' = [job EXCEPT ![t] = Idle] /\ chain' = chain /\ inFlight' = inFlight \cup {Sent(t)}
    <3>1. CASE Sent(t).kind \notin HolderKinds
      BY <2>4, <2>7, <3>1, FewerHold
    <3>2. CASE Sent(t).kind \in HolderKinds
      <4>1. Holding(t) /\ Held(Sent(t), chain.signers)
        BY <2>2, <3>2
      <4>2. \A u \in Threads : ~Holding(u)'
        BY <2>4, <2>7, <4>1 DEF SignersInv
      <4>3. \A tx \in inFlight' : tx.kind \in HolderKinds => tx = Sent(t)
        BY <2>7, <4>1 DEF SignersInv
      <4>4. ConfigIsWhole'
        BY <2>7 DEF SignersInv, ConfigIsWhole
      <4>5. \A tx \in inFlight' : tx.kind \in HolderKinds => Held(tx, chain'.signers)
        BY <2>7, <4>1, <4>3
      <4>. QED BY <4>2, <4>3, <4>4, <4>5 DEF SignersInv
    <3>. QED BY <3>1, <3>2
  <2>8. CASE Retries(t)
    <3>1. /\ job'[t] = [job[t] EXCEPT !.attempt = @ + 1, !.todo = <<Tx(t, job[t].mcm, "clearSignatures")>> \o @]
          /\ \A u \in Threads : u # t => job'[u] = job[u]
      BY <2>8 DEF Retries, JobInv
    <3>2. job'[t].todo = <<Tx(t, job[t].mcm, "clearSignatures")>> \o job[t].todo
      BY <2>2, <3>1 DEF JobOK
    <3>3. job'[t].todo[1].kind = "clearSignatures"
      <4>. DEFINE tx == Tx(t, job[t].mcm, "clearSignatures")
                  todo == job[t].todo
      <4>1. tx.kind = "clearSignatures"
        BY TxFields
      <4>. HIDE DEF tx
      <4>2. PICK T : todo \in Seq(T)
        BY <2>2 DEF JobOK, IsTodo
      <4>. HIDE DEF todo
      <4>3. (<<tx>> \o todo)[1] = tx
        BY <4>2
      <4>. QED BY <3>2, <4>1, <4>3 DEF tx, todo
    <3>4. \A u \in Threads : Holding(u)' => Holding(u) /\ job'[u] = job[u]
      BY <3>1, <3>3 DEF Holding, HolderKinds
    <3>5. chain' = chain /\ inFlight' = inFlight
      BY <2>8 DEF Retries
    <3>. QED BY <3>4, <3>5, FewerHold
  <2>9. Finishes(t) \/ Fails(t) =>
          /\ job' = [job EXCEPT ![t] = Idle]
          /\ \/ chain' \in Applied(chain, Sent(t)) /\ inFlight' = inFlight
             \/ chain' = chain /\ inFlight' = inFlight
             \/ chain' = chain /\ inFlight' = inFlight \cup {Sent(t)}
    BY DEF Finishes, Fails
  <2>10. GoesOn(t) \/ Finishes(t) \/ Retries(t) \/ Fails(t)
    BY <1>2, SendSteps
  <2>. QED BY <2>3, <2>5, <2>6, <2>7, <2>8, <2>9, <2>10
<1>3. ASSUME NEW tx \in inFlight, Late(tx) PROVE SignersInv'
  <2>1. job' = job /\ inFlight' = inFlight \ {tx} /\ (chain' = chain \/ chain' \in Applied(chain, tx))
    BY <1>3 DEF Late
  <2>2. \A u \in Threads : Holding(u)' => Holding(u) /\ job'[u] = job[u]
    BY <2>1 DEF Holding
  <2>3. CASE chain' = chain
    BY <2>1, <2>2, <2>3, FewerHold
  <2>4. CASE chain' \in Applied(chain, tx)
    <3>1. tx.kind \in HolderKinds => Held(tx, chain.signers) /\ NoHolder'
      BY <2>1, <2>2 DEF SignersInv, NoHolder
    <3>. QED BY <2>1, <2>2, <2>4, <3>1, LandsAndStops
  <2>. QED BY <2>1, <2>3, <2>4
<1>4. CASE DelayPasses
  <2>1. chain' = [chain EXCEPT !.op.state = "ready"] /\ job' = job /\ inFlight' = inFlight
    BY <1>4 DEF DelayPasses
  <2>2. chain'.signers = chain.signers /\ chain'.config = chain.config
    BY <2>1 DEF JobInv, IsChain, Fields
  <2>3. \A u \in Threads : Holding(u)' => Holding(u) /\ job'[u] = job[u]
    BY <2>1 DEF Holding
  <2>. QED BY <2>1, <2>2, <2>3, FewerHold
<1>5. CASE UNCHANGED vars
  <2>1. chain' = chain /\ job' = job /\ inFlight' = inFlight
    BY <1>5 DEF vars
  <2>2. \A u \in Threads : Holding(u)' => Holding(u) /\ job'[u] = job[u]
    BY <2>1 DEF Holding
  <2>. QED BY <2>1, <2>2, FewerHold
<1>. QED BY <1>1, <1>2, <1>3, <1>4, <1>5 DEF Next

\* Whatever interleaving of SetConfig calls, failures and late transactions: the
\* configuration on the chain is one that was asked for, whole, or none.  The account is
\* opened only while it does not exist, so one call at most adds to it, and when that call
\* gives up nobody but its last transaction does.
THEOREM ConfigsAreWhole == Spec => []ConfigIsWhole
<1>1. Init => SignersInv
  <2>. SUFFICES ASSUME Init PROVE SignersInv
    OBVIOUS
  <2>1. NoHolder
    BY DEF Init, NoHolder, Holding
  <2>2. ConfigIsWhole
    BY DEF Init, ConfigIsWhole
  <2>. QED BY <2>1, <2>2 DEF NoHolder, SignersInv
<1>2. SignersInv => ConfigIsWhole
  BY DEF SignersInv
<1>. QED BY <1>1, <1>2, JobInvInit, JobInvNext, SignersInvNext, PTL DEF Spec

=============================================================================
