------------------------- MODULE StopReceiptsProofs -------------------------
(***************************************************************************)
(* What a receipt that passes says of the device, for any number of        *)
(* signers, nonces, builds and steps: the types, FreshReceiptIsTrue and    *)
(* StopHeldBetween of StopReceipts; and that a verifier accepts what the   *)
(* service signs, SignedIsAccepted.                                        *)
(*                                                                         *)
(* The argument: a device's states only go one way (Later), so what is     *)
(* equal at two of them was the same all the time between; and a certify   *)
(* and a quote each tell one of those states as it was (SignedInv). What a *)
(* signer holds fits together at each of its steps (MadeInv).              *)
(***************************************************************************)
EXTENDS StopReceipts, TLAPS

\* Of two states of a device, d is not before e: the counter has not gone
\* back, and within one boot neither has the clock, nor has a build that was
\* measured away from the reference come back to it.
Later(e, d) ==
  /\ e.counter <= d.counter
  /\ \/ e.reset < d.reset
     \/ e.reset = d.reset /\ e.restart < d.restart
     \/ /\ e.reset = d.reset
        /\ e.restart = d.restart
        /\ e.clock <= d.clock
        /\ d.build = Reference => e.build = Reference

PastInv ==
  \A i, j \in 1..Len(past) : i <= j => Later(past[i], past[j])

\* A nonce a receipt carries was chosen before the certify was made.
ChosenBy(nonce, at) ==
  nonce # NoNonce => asked[nonce] # 0 /\ asked[nonce] <= at

\* A certify tells the device's state at one moment.
CertifyTells(cert, nonce) ==
  /\ cert.at \in 1..Len(past)
  /\ past[cert.at].readable
  /\ past[cert.at].counter = cert.value
  /\ Boot(past[cert.at]) = cert.boot
  /\ past[cert.at].clock = cert.clock
  /\ ChosenBy(nonce, cert.at)

\* A quote tells the device's state at one moment not before it.
QuoteTells(quote, at) ==
  \E i \in at..Len(past) :
    /\ Boot(past[i]) = quote.boot
    /\ past[i].build = quote.pcrs

SignerTells(s) ==
  /\ pc[s] # "idle" => ChosenBy(work[s].nonce, Len(past))
  /\ pc[s] \in {"pcrs", "quote"} => CertifyTells(work[s].cert, work[s].nonce)

ReceiptTells(r) ==
  /\ CertifyTells(r.bundle.cert, r.bundle.nonce)
  /\ QuoteTells(r.quote, r.bundle.cert.at)

SignedInv ==
  /\ \A n \in Nonces : asked[n] <= Len(past)
  /\ \A s \in Signers : SignerTells(s)
  /\ \A r \in receipts : ReceiptTells(r)

HistoryInv == TypeOK /\ PastInv /\ SignedInv

-----------------------------------------------------------------------------
LEMMA Growth ==
  ASSUME TypeOK, NEW d \in Device, Becomes(d)
  PROVE  /\ Len(past') = Len(past) + 1
         /\ Len(past) \in 1..MaxPast
         /\ Len(past') \in 1..MaxPast
         /\ past' \in Seq(Device)
         /\ \A i \in 1..Len(past) : past'[i] = past[i]
         /\ past'[Len(past')] = d
  BY ReceiptsAssumption DEF TypeOK, Becomes

LEMMA NowTyped ==
  ASSUME TypeOK
  PROVE  Now \in Device /\ Len(past) \in Nat \ {0}
  BY DEF TypeOK, Now

LEMMA LaterTransitive ==
  ASSUME NEW a \in Device, NEW b \in Device, NEW c \in Device,
         Later(a, b), Later(b, c)
  PROVE  Later(a, c)
  BY DEF Later, Device

\* What a step of the device does to its present state.
LEMMA DeviceMoves ==
  ASSUME TypeOK, DeviceStep
  PROVE  \E d \in Device : Becomes(d) /\ Later(Now, d)
<1>1. Now \in Device
  BY NowTyped
<1> USE DEF Device
<1>1a. /\ Now.counter \in Nat /\ Now.counter + 0 \in Nat /\ Now.counter + 1 \in Nat
       /\ Now.restart + 1 \in Nat /\ Now.reset + 1 \in Nat
       /\ \A c \in 0..Now.clock : c \in Nat
  BY <1>1
<1>2. CASE Increment
  <2> DEFINE d == [Now EXCEPT !.counter = @ + 1]
  <2>1. d \in Device
    BY <1>1
  <2>1a. Later(Now, d)
    BY <1>1 DEF Later
  <2> QED  BY <1>2, <2>1, <2>1a DEF Increment
<1>3. CASE OwnerDelete
  <2> DEFINE d == [Now EXCEPT !.readable = FALSE]
  <2>1. d \in Device
    BY <1>1
  <2>1a. Later(Now, d)
    BY <1>1 DEF Later
  <2> QED  BY <1>3, <2>1, <2>1a DEF OwnerDelete
<1>4. CASE Redefine
  <2>1. PICK above \in {0, 1} :
          Becomes([Now EXCEPT !.readable = TRUE, !.counter = @ + above])
    BY <1>4 DEF Redefine
  <2> DEFINE d == [Now EXCEPT !.readable = TRUE, !.counter = @ + above]
  <2>2. d \in Device
    BY <1>1, <1>1a, <2>1
  <2>2a. Later(Now, d)
    BY <1>1 DEF Later
  <2> QED  BY <2>1, <2>2, <2>2a
<1>5. CASE Tick
  <2> DEFINE d == [Now EXCEPT !.clock = @ + 1]
  <2>1. d \in Device
    BY <1>1
  <2>1a. Later(Now, d)
    BY <1>1 DEF Later
  <2> QED  BY <1>5, <2>1, <2>1a DEF Tick
<1>6. CASE Extend
  <2>1. PICK b \in Builds \ {Reference} : Becomes([Now EXCEPT !.build = b])
    BY <1>6 DEF Extend
  <2> DEFINE d == [Now EXCEPT !.build = b]
  <2>2. d \in Device
    BY <1>1
  <2>2a. Later(Now, d)
    BY <1>1 DEF Later
  <2> QED  BY <2>1, <2>2, <2>2a
<1>7. CASE Restart
  <2>1. PICK b \in Builds : Becomes([Now EXCEPT !.restart = @ + 1, !.build = b])
    BY <1>7 DEF Restart
  <2> DEFINE d == [Now EXCEPT !.restart = @ + 1, !.build = b]
  <2>2. d \in Device
    BY <1>1, <1>1a, <2>1
  <2>2a. Later(Now, d)
    BY <1>1 DEF Later
  <2> QED  BY <2>1, <2>2, <2>2a
<1>8. CASE Reset
  <2>1. PICK b \in Builds, c \in 0..Now.clock :
          Becomes([Now EXCEPT !.reset = @ + 1, !.restart = 0, !.build = b, !.clock = c])
    BY <1>8 DEF Reset
  <2> DEFINE d == [Now EXCEPT !.reset = @ + 1, !.restart = 0, !.build = b, !.clock = c]
  <2>2. d \in Device
    BY <1>1, <1>1a, <2>1
  <2>2a. Later(Now, d)
    BY <1>1, <2>1 DEF Later
  <2> QED  BY <2>1, <2>2, <2>2a
<1> QED  BY <1>2, <1>3, <1>4, <1>5, <1>6, <1>7, <1>8 DEF DeviceStep

LEMMA DeviceLeaves ==
  ASSUME TypeOK, DeviceStep
  PROVE  /\ UNCHANGED <<asked, receipts>>
         /\ \/ UNCHANGED <<pc, work>>
            \/ /\ pc' = [s \in Signers |-> "idle"]
               /\ work' = [s \in Signers |-> NoWork]
  BY DEF DeviceStep, Becomes, Increment, OwnerDelete, Redefine, Tick, Extend, Restart, Reset

\* The other steps leave the device's history alone.
LEMMA HistoryKept ==
  ASSUME NEW s \in Signers, SignStep(s)
  PROVE  past' = past /\ asked' = asked
  BY DEF SignStep, Begin, Read, Certify, ReadPcrs, Quote, Fail, Abandon, Goto
-----------------------------------------------------------------------------
(***************************************************************************)
(* Types.                                                                  *)
(***************************************************************************)
WorkType == [record : Records, nonce : Answers, cert : Certs, pcrs : Builds]

LEMMA NoWorkTyped == NoWork \in WorkType
  BY ReceiptsAssumption
  DEF NoWork, WorkType, Blank, NoCert, Records, Certs, Answers, Certified

\* What a signer's step does to the signer.
LEMMA SignMoves ==
  ASSUME TypeOK, NEW s \in Signers, SignStep(s)
  PROVE  \E label \in {"idle", "read", "certify", "pcrs", "quote"}, w \in WorkType :
           /\ pc' = [pc EXCEPT ![s] = label]
           /\ work' = [work EXCEPT ![s] = w]
           /\ label = "idle" => w = NoWork
<1> DEFINE Moves(label, w) ==
             /\ pc' = [pc EXCEPT ![s] = label]
             /\ work' = [work EXCEPT ![s] = w]
             /\ label = "idle" => w = NoWork
<1>1. /\ work \in [Signers -> WorkType] /\ work[s] \in WorkType
      /\ Now \in Device /\ Len(past) \in Nat
  BY NowTyped DEF TypeOK, WorkType
<1>2. ASSUME Abandon(s) PROVE Moves("idle", NoWork)
  BY <1>2 DEF Abandon, Goto
<1>3. ASSUME NEW kind \in {"refusal", "status"}, NEW n \in Answers, Begin(s, kind, n)
      PROVE  \E w \in WorkType : Moves("read", w)
  <2> DEFINE w == [NoWork EXCEPT !.record.kind = kind, !.nonce = n]
  <2>1. w.record \in Records
    BY DEF NoWork, Blank, Records
  <2>1a. w \in WorkType
    BY NoWorkTyped, <2>1 DEF WorkType, Answers, NoWork
  <2>2. Moves("read", w)
    BY <1>3 DEF Begin, Goto
  <2> QED  BY <2>1a, <2>2
<1>4. ASSUME NEW released \in BOOLEAN, Read(s, released), ~Abandon(s)
      PROVE  \E w \in WorkType : Moves("certify", w)
  <2> DEFINE open == ~Odd(Now.counter) /\ released
             w == [work[s] EXCEPT !.record.state = IF open THEN "running" ELSE "stopped",
                                  !.record.epoch = Now.counter]
  <2>0. work[s].record.kind = "refusal" => ~open
    BY <1>4 DEF Read
  <2>1. w.record \in Records
    BY <1>1, <2>0 DEF WorkType, Records, Device
  <2>1a. w \in WorkType
    BY <1>1, <2>1 DEF WorkType
  <2>2. Moves("certify", w)
    BY <1>1, <1>4 DEF Read, Goto
  <2> QED  BY <2>1a, <2>2
<1>5. ASSUME Certify(s)
      PROVE  \E w \in WorkType : Moves("pcrs", w)
  <2> DEFINE w == [work[s] EXCEPT !.cert = CertNow(s)]
  <2>1. CertNow(s) \in Certs
    BY <1>1 DEF CertNow, Certs, Certified, Boot, Device, WorkType
  <2>2. w \in WorkType
    BY <1>1, <2>1 DEF WorkType
  <2>3. Moves("pcrs", w)
    BY <1>1, <1>5 DEF Certify, Goto
  <2> QED  BY <2>2, <2>3
<1>6. ASSUME ReadPcrs(s)
      PROVE  \E w \in WorkType : Moves("quote", w)
  <2> DEFINE w == [work[s] EXCEPT !.pcrs = Now.build]
  <2>1. w \in WorkType
    BY <1>1 DEF WorkType, Device
  <2>2. Moves("quote", w)
    BY <1>1, <1>6 DEF ReadPcrs, Goto
  <2> QED  BY <2>1, <2>2
<1> HIDE DEF Moves
<1>7. \E label \in {"idle", "read", "certify", "pcrs", "quote"}, w \in WorkType : Moves(label, w)
  BY <1>2, <1>3, <1>4, <1>5, <1>6, NoWorkTyped DEF SignStep, Quote, Fail, Answers
<1> QED  BY <1>7 DEF Moves

\* What a signer's step does to the receipts.
LEMMA SignAdds ==
  ASSUME TypeOK, NEW s \in Signers, SignStep(s)
  PROVE  \/ receipts' = receipts
         \/ /\ pc[s] = "quote"
            /\ receipts' = receipts \union
                 {[msg |-> Message(s), bundle |-> Bundle(s),
                   quote |-> [extra |-> Message(s), pcrs |-> Now.build,
                              boot |-> Boot(Now)]]}
  BY DEF SignStep, Begin, Read, Certify, ReadPcrs, Quote, Fail

LEMMA TypeInit == Init => TypeOK
<1> SUFFICES ASSUME Init PROVE TypeOK
  OBVIOUS
<1>1. past \in Seq(Device) /\ Len(past) \in 1..MaxPast
  BY ReceiptsAssumption DEF Init, Device
<1>2. asked \in [Nonces -> 0..MaxPast]
  BY ReceiptsAssumption DEF Init
<1>3. work \in [Signers -> WorkType]
  BY NoWorkTyped DEF Init
<1> QED  BY <1>1, <1>2, <1>3 DEF Init, TypeOK, WorkType

LEMMA TypeStep == TypeOK /\ [Next]_vars => TypeOK'
<1> SUFFICES ASSUME TypeOK, [Next]_vars PROVE TypeOK'
  OBVIOUS
<1>1. CASE UNCHANGED vars
  BY <1>1 DEF TypeOK, vars
<1>2. CASE DeviceStep
  <2>1. PICK d \in Device : Becomes(d)
    BY <1>2, DeviceMoves
  <2>2. past' \in Seq(Device) /\ Len(past') \in 1..MaxPast
    BY <2>1, Growth
  <2>3. work' \in [Signers -> WorkType]
    BY <1>2, DeviceLeaves, NoWorkTyped DEF TypeOK, WorkType
  <2> QED  BY <1>2, <2>2, <2>3, DeviceLeaves DEF TypeOK, WorkType
<1>3. ASSUME NEW n \in Nonces, Ask(n)
      PROVE  TypeOK'
  BY <1>3, ReceiptsAssumption DEF Ask, TypeOK
<1>4. ASSUME NEW s \in Signers, SignStep(s)
      PROVE  TypeOK'
  <2>1. /\ past' = past /\ asked' = asked /\ Now \in Device
        /\ work \in [Signers -> WorkType] /\ work[s] \in WorkType
    BY <1>4, HistoryKept, NowTyped DEF TypeOK, WorkType
  <2>2. /\ pc' \in [Signers -> {"idle", "read", "certify", "pcrs", "quote"}]
        /\ work' \in [Signers -> WorkType]
        /\ \A t \in Signers : pc'[t] = "idle" => work'[t] = NoWork
    BY <1>4, <2>1, SignMoves DEF TypeOK
  <2>3. Bundle(s) \in Bundles
    BY <2>1 DEF Bundle, Bundles, WorkType
  <2>4. Message(s) \in Msgs
    BY <2>1, <2>3 DEF Message, Msgs, WorkType, Records
  <2>5. Now.build \in Builds /\ Boot(Now) \in [reset : Nat, restart : Nat]
    BY <2>1 DEF Device, Boot
  <2>6. \A r \in receipts' :
          /\ r.msg \in Msgs
          /\ r.bundle \in Bundles
          /\ r.quote \in [extra : Msgs, pcrs : Builds, boot : [reset : Nat, restart : Nat]]
    BY <1>4, <2>3, <2>4, <2>5, SignAdds DEF TypeOK
  <2> QED  BY <2>1, <2>2, <2>6 DEF TypeOK, WorkType
<1> QED  BY <1>1, <1>2, <1>3, <1>4 DEF Next

\* The state stays within its types and a signer starts every answer from
\* nothing, whatever the device and the signers do.
THEOREM TypeCorrect == Spec => []TypeOK
  BY TypeInit, TypeStep, PTL DEF Spec
-----------------------------------------------------------------------------
(***************************************************************************)
(* The history goes one way, and what is signed tells it.                  *)
(***************************************************************************)
LEMMA HistoryInit == Init => HistoryInv
<1> SUFFICES ASSUME Init PROVE HistoryInv
  OBVIOUS
<1>1. TypeOK
  BY TypeInit
<1>2. PastInv
  <2>1. Len(past) = 1 /\ past[1] \in Device
    BY <1>1 DEF Init, TypeOK
  <2>2. Later(past[1], past[1])
    BY <2>1 DEF Later, Device
  <2> QED  BY <2>1, <2>2 DEF PastInv
<1>3. SignedInv
  BY <1>1, NowTyped DEF Init, SignedInv, SignerTells
<1> QED  BY <1>1, <1>2, <1>3 DEF HistoryInv

LEMMA PastStep ==
  ASSUME TypeOK, PastInv, [Next]_vars
  PROVE  PastInv'
<1>1. CASE past' = past
  BY <1>1 DEF PastInv
<1>2. CASE DeviceStep
  <2>1. PICK d \in Device : Becomes(d) /\ Later(Now, d)
    BY <1>2, DeviceMoves
  <2>2. /\ Len(past') = Len(past) + 1
        /\ Len(past) \in Nat \ {0}
        /\ \A i \in 1..Len(past) : past'[i] = past[i] /\ past[i] \in Device
        /\ past'[Len(past')] = d
    BY <2>1, Growth, NowTyped DEF TypeOK
  <2>3. ASSUME NEW i \in 1..Len(past)
        PROVE  Later(past[i], d)
    <3>1. Later(past[i], Now) /\ past[i] \in Device /\ Now \in Device
      BY <2>2, NowTyped DEF PastInv, Now
    <3> QED  BY <2>1, <3>1, LaterTransitive
  <2>4. Later(d, d)
    BY DEF Later, Device
  <2>5. SUFFICES ASSUME NEW i \in 1..Len(past'), NEW j \in 1..Len(past'), i <= j
                 PROVE  Later(past'[i], past'[j])
    BY DEF PastInv
  <2>6. CASE j \in 1..Len(past)
    <3>1. i \in 1..Len(past)
      BY <2>2, <2>5, <2>6
    <3> QED  BY <2>2, <2>5, <2>6, <3>1 DEF PastInv
  <2>7. CASE j = Len(past') /\ i \in 1..Len(past)
    BY <2>2, <2>3, <2>7
  <2>8. CASE j = Len(past') /\ i = Len(past')
    BY <2>2, <2>4, <2>8
  <2> QED  BY <2>2, <2>5, <2>6, <2>7, <2>8
<1>3. past' = past \/ DeviceStep
  BY HistoryKept DEF Next, Ask, vars
<1> QED  BY <1>1, <1>2, <1>3

\* What was told of the history stays true of it.
LEMMA ToldStays ==
  ASSUME TypeOK,
         Len(past') \in Nat, Len(past) <= Len(past'),
         \A i \in 1..Len(past) : past'[i] = past[i],
         \A n \in Nonces : asked[n] # 0 => asked'[n] = asked[n]
  PROVE  /\ \A nonce \in Answers, at \in Nat : ChosenBy(nonce, at) => ChosenBy(nonce, at)'
         /\ \A nonce \in Answers :
              ChosenBy(nonce, Len(past)) => ChosenBy(nonce, Len(past))'
         /\ \A cert \in Certs, nonce \in Answers :
              CertifyTells(cert, nonce) => CertifyTells(cert, nonce)'
         /\ \A quote : \A at \in Nat :
              QuoteTells(quote, at) /\ at # 0 => QuoteTells(quote, at)'
<1>1. Len(past) \in Nat /\ \A n \in Nonces : asked[n] \in Nat
  BY ReceiptsAssumption DEF TypeOK
<1>2. \A nonce \in Answers, at \in Nat : ChosenBy(nonce, at) => ChosenBy(nonce, at)'
  BY DEF ChosenBy, Answers
<1>3. \A nonce \in Answers : ChosenBy(nonce, Len(past)) => ChosenBy(nonce, Len(past))'
  BY <1>1 DEF ChosenBy, Answers
<1>4. ASSUME NEW cert \in Certs, NEW nonce \in Answers, CertifyTells(cert, nonce)
      PROVE  CertifyTells(cert, nonce)'
  BY <1>1, <1>2, <1>4 DEF CertifyTells, Certs
<1>5. ASSUME NEW quote, NEW at \in Nat, QuoteTells(quote, at), at # 0
      PROVE  QuoteTells(quote, at)'
  <2>1. PICK i \in at..Len(past) : Boot(past[i]) = quote.boot /\ past[i].build = quote.pcrs
    BY <1>5 DEF QuoteTells
  <2>2. i \in at..Len(past') /\ past'[i] = past[i]
    BY <1>1, <1>5, <2>1
  <2> QED  BY <2>1, <2>2 DEF QuoteTells
<1> QED  BY <1>2, <1>3, <1>4, <1>5

LEMMA ReceiptStays ==
  ASSUME HistoryInv, NEW r \in receipts,
         Len(past') \in Nat, Len(past) <= Len(past'),
         \A i \in 1..Len(past) : past'[i] = past[i],
         \A n \in Nonces : asked[n] # 0 => asked'[n] = asked[n]
  PROVE  ReceiptTells(r)'
<1>1. /\ r.bundle.nonce \in Answers /\ r.bundle.cert \in Certs
      /\ r.bundle.cert.at \in Nat
  BY DEF HistoryInv, TypeOK, Bundles, Certs
<1>2. /\ CertifyTells(r.bundle.cert, r.bundle.nonce)
      /\ QuoteTells(r.quote, r.bundle.cert.at)
      /\ r.bundle.cert.at # 0
  BY DEF HistoryInv, SignedInv, ReceiptTells, CertifyTells
<1>3. /\ CertifyTells(r.bundle.cert, r.bundle.nonce)'
      /\ QuoteTells(r.quote, r.bundle.cert.at)'
  BY <1>1, <1>2, ToldStays DEF HistoryInv
<1> QED  BY <1>3 DEF ReceiptTells

LEMMA SignerStays ==
  ASSUME HistoryInv, NEW s \in Signers,
         pc'[s] = pc[s], work'[s] = work[s],
         Len(past') \in Nat, Len(past) <= Len(past'),
         \A i \in 1..Len(past) : past'[i] = past[i],
         \A n \in Nonces : asked[n] # 0 => asked'[n] = asked[n]
  PROVE  SignerTells(s)'
<1>1. PICK cert \in Certs, nonce \in Answers :
        cert = work[s].cert /\ nonce = work[s].nonce
  BY DEF HistoryInv, TypeOK
<1>2. /\ pc[s] # "idle" => ChosenBy(nonce, Len(past))
      /\ pc[s] \in {"pcrs", "quote"} => CertifyTells(cert, nonce)
  BY <1>1 DEF HistoryInv, SignedInv, SignerTells
<1>3. /\ pc[s] # "idle" => ChosenBy(nonce, Len(past))'
      /\ pc[s] \in {"pcrs", "quote"} => CertifyTells(cert, nonce)'
  BY <1>2, ToldStays DEF HistoryInv
<1> QED  BY <1>1, <1>3 DEF SignerTells, ChosenBy, CertifyTells

LEMMA SignedStep ==
  ASSUME HistoryInv, [Next]_vars
  PROVE  SignedInv'
<1>1. TypeOK /\ SignedInv /\ Len(past) \in Nat \ {0}
  BY NowTyped DEF HistoryInv
<1>2. CASE UNCHANGED vars
  BY <1>1, <1>2 DEF vars, SignedInv, SignerTells, ReceiptTells, CertifyTells, QuoteTells,
                    ChosenBy
<1>3. CASE DeviceStep
  <2>1. PICK d \in Device : Becomes(d)
    BY <1>1, <1>3, DeviceMoves
  <2>2. /\ Len(past') \in Nat /\ Len(past) <= Len(past')
        /\ \A i \in 1..Len(past) : past'[i] = past[i]
        /\ asked' = asked /\ receipts' = receipts
    BY <1>1, <1>3, <2>1, Growth, DeviceLeaves
  <2>3. \A r \in receipts' : ReceiptTells(r)'
    BY <2>2, ReceiptStays
  <2>4. ASSUME NEW s \in Signers
        PROVE  SignerTells(s)'
    <3>1. CASE UNCHANGED <<pc, work>>
      BY <2>2, <3>1, SignerStays
    <3>2. CASE pc' = [t \in Signers |-> "idle"]
      BY <3>2 DEF SignerTells
    <3> QED  BY <1>1, <1>3, <3>1, <3>2, DeviceLeaves
  <2>5. \A n \in Nonces : asked'[n] <= Len(past')
    BY <1>1, <2>2, ReceiptsAssumption DEF SignedInv, TypeOK
  <2> QED  BY <2>3, <2>4, <2>5 DEF SignedInv
<1>4. ASSUME NEW n \in Nonces, Ask(n)
      PROVE  SignedInv'
  <2>1. /\ past' = past /\ pc' = pc /\ work' = work /\ receipts' = receipts
        /\ \A m \in Nonces : asked[m] # 0 => asked'[m] = asked[m]
        /\ \A m \in Nonces : asked'[m] <= Len(past')
    BY <1>1, <1>4 DEF Ask, TypeOK, SignedInv
  <2>2. Len(past') \in Nat /\ Len(past) <= Len(past')
        /\ \A i \in 1..Len(past) : past'[i] = past[i]
    BY <1>1, <2>1
  <2>3. \A r \in receipts' : ReceiptTells(r)'
    BY <2>1, <2>2, ReceiptStays
  <2>4. \A s \in Signers : SignerTells(s)'
    BY <2>1, <2>2, SignerStays
  <2> QED  BY <2>1, <2>3, <2>4 DEF SignedInv
<1>5. ASSUME NEW s \in Signers, SignStep(s)
      PROVE  SignedInv'
  <2>1. /\ past' = past /\ asked' = asked
        /\ Len(past') \in Nat /\ Len(past) <= Len(past')
        /\ \A i \in 1..Len(past) : past'[i] = past[i]
        /\ work \in [Signers -> WorkType] /\ work[s] \in WorkType
        /\ pc \in [Signers -> {"idle", "read", "certify", "pcrs", "quote"}]
        /\ \A n \in Nonces : asked[n] \in 0..Len(past)
        /\ SignerTells(s) /\ Now = past[Len(past)]
    BY <1>1, <1>5, HistoryKept, ReceiptsAssumption DEF TypeOK, WorkType, SignedInv, Now
  <2>2. ASSUME NEW t \in Signers \ {s}
        PROVE  SignerTells(t)'
    <3>1. pc'[t] = pc[t] /\ work'[t] = work[t]
      BY <1>1, <1>5, <2>1, SignMoves
    <3> QED  BY <2>1, <3>1, SignerStays
  <2>3. SignerTells(s)'
    <3>1. CASE Abandon(s)
      BY <2>1, <3>1 DEF Abandon, Goto, SignerTells
    <3>2. ASSUME NEW kind \in {"refusal", "status"}, NEW n \in Answers, Begin(s, kind, n)
          PROVE  SignerTells(s)'
      <4>1. pc'[s] = "read" /\ work'[s].nonce = n
        BY <2>1, <3>2 DEF Begin, Goto, NoWork, WorkType
      <4>2. n # NoNonce => asked'[n] # 0 /\ asked'[n] <= Len(past')
        BY <2>1, <3>2 DEF Begin, Answers
      <4> QED  BY <4>1, <4>2 DEF SignerTells, ChosenBy
    <3>3. ASSUME NEW released \in BOOLEAN, Read(s, released), ~Abandon(s)
          PROVE  SignerTells(s)'
      <4>1. pc'[s] = "certify" /\ pc[s] = "read" /\ work'[s].nonce = work[s].nonce
        BY <2>1, <3>3 DEF Read, Goto, WorkType
      <4> QED  BY <2>1, <4>1 DEF SignerTells, ChosenBy
    <3>4. CASE Certify(s)
      <4>1. /\ pc'[s] = "pcrs" /\ pc[s] = "certify" /\ Now.readable
            /\ work'[s].nonce = work[s].nonce
            /\ work'[s].cert = CertNow(s)
        BY <2>1, <3>4 DEF Certify, Goto, WorkType
      <4>2. /\ CertNow(s).at = Len(past) /\ CertNow(s).value = Now.counter
            /\ CertNow(s).boot = Boot(Now) /\ CertNow(s).clock = Now.clock
        BY DEF CertNow
      <4>3. ChosenBy(work[s].nonce, Len(past))
        BY <2>1, <4>1 DEF SignerTells
      <4> QED  BY <1>1, <2>1, <4>1, <4>2, <4>3 DEF SignerTells, CertifyTells, ChosenBy
    <3>5. CASE ReadPcrs(s)
      <4>1. /\ pc'[s] = "quote" /\ pc[s] = "pcrs"
            /\ work'[s].nonce = work[s].nonce /\ work'[s].cert = work[s].cert
        BY <2>1, <3>5 DEF ReadPcrs, Goto, WorkType
      <4> QED  BY <2>1, <4>1 DEF SignerTells, CertifyTells, ChosenBy
    <3> QED  BY <1>5, <3>1, <3>2, <3>3, <3>4, <3>5 DEF SignStep, Quote, Fail, Answers
  <2>4. \A r \in receipts' : ReceiptTells(r)'
    <3>1. \A r \in receipts : ReceiptTells(r)'
      BY <2>1, ReceiptStays
    <3>2. CASE receipts' = receipts
      BY <3>1, <3>2
    <3>3. ASSUME pc[s] = "quote", NEW r,
                 r = [msg |-> Message(s), bundle |-> Bundle(s),
                      quote |-> [extra |-> Message(s), pcrs |-> Now.build,
                                 boot |-> Boot(Now)]]
          PROVE  ReceiptTells(r)'
      <4>1. /\ r.bundle.cert = work[s].cert /\ r.bundle.nonce = work[s].nonce
            /\ r.quote.boot = Boot(Now) /\ r.quote.pcrs = Now.build
        BY <3>3 DEF Bundle
      <4>2. CertifyTells(r.bundle.cert, r.bundle.nonce)
        BY <2>1, <3>3, <4>1 DEF SignerTells
      <4>3. QuoteTells(r.quote, r.bundle.cert.at)
        BY <1>1, <2>1, <4>1, <4>2 DEF QuoteTells, CertifyTells
      <4> QED  BY <2>1, <4>2, <4>3 DEF ReceiptTells, CertifyTells, QuoteTells, ChosenBy
    <3> QED  BY <1>1, <1>5, <3>1, <3>2, <3>3, SignAdds
  <2>5. \A n \in Nonces : asked'[n] <= Len(past')
    BY <2>1
  <2> QED  BY <2>2, <2>3, <2>4, <2>5 DEF SignedInv
<1> QED  BY <1>2, <1>3, <1>4, <1>5 DEF Next

LEMMA HistoryStep == HistoryInv /\ [Next]_vars => HistoryInv'
  BY TypeStep, PastStep, SignedStep DEF HistoryInv
-----------------------------------------------------------------------------
(***************************************************************************)
(* What the invariant says of a receipt that passes, and of two.           *)
(***************************************************************************)
\* Two states of one boot, the later of them in the reference build: the
\* earlier was, and so was every one between.
LEMMA OneBoot ==
  ASSUME HistoryInv, NEW i \in 1..Len(past), NEW k \in i..Len(past), NEW j \in i..k,
         Boot(past[i]) = Boot(past[k])
  PROVE  /\ Boot(past[j]) = Boot(past[i])
         /\ past[k].build = Reference => past[j].build = Reference
         /\ past[i].clock <= past[k].clock
<1>1. /\ j \in 1..Len(past) /\ k \in 1..Len(past) /\ i <= j /\ j <= k /\ i <= k
      /\ past[i] \in Device /\ past[j] \in Device /\ past[k] \in Device
  BY DEF HistoryInv, TypeOK
<1>2. Later(past[i], past[j]) /\ Later(past[j], past[k]) /\ Later(past[i], past[k])
  BY <1>1 DEF HistoryInv, PastInv
<1> QED  BY <1>1, <1>2 DEF Later, Boot, Device

LEMMA AcceptedTells ==
  ASSUME HistoryInv, NEW r \in receipts, NEW n \in Nonces, Accepted(r, n)
  PROVE  LET at == r.bundle.cert.at
         IN  /\ at \in asked[n]..Len(past) /\ at \in 1..Len(past) /\ asked[n] # 0
             /\ past[at].readable
             /\ past[at].counter = r.bundle.record.epoch
             /\ Boot(past[at]) = r.bundle.cert.boot
             /\ past[at].clock = r.bundle.cert.clock
             /\ \E k \in at..Len(past) :
                  Boot(past[k]) = Boot(past[at]) /\ past[k].build = Reference
<1> DEFINE at == r.bundle.cert.at
<1>1. CertifyTells(r.bundle.cert, n) /\ r.bundle.cert.value = r.bundle.record.epoch
  BY DEF HistoryInv, SignedInv, ReceiptTells, Accepted
<1>2. /\ at \in 1..Len(past) /\ past[at].readable
      /\ past[at].counter = r.bundle.record.epoch
      /\ Boot(past[at]) = r.bundle.cert.boot
      /\ past[at].clock = r.bundle.cert.clock
      /\ asked[n] # 0 /\ asked[n] <= at
  BY <1>1, ReceiptsAssumption DEF CertifyTells, ChosenBy
<1>3. at \in asked[n]..Len(past)
  BY <1>2, ReceiptsAssumption DEF HistoryInv, TypeOK
<1>4. PICK k \in at..Len(past) : Boot(past[k]) = r.quote.boot /\ past[k].build = r.quote.pcrs
  BY DEF HistoryInv, SignedInv, ReceiptTells, QuoteTells
<1>5. r.quote.pcrs = Reference /\ SameBoot(r.bundle.cert.boot, r.quote.boot)
  BY DEF Accepted
<1>6. r.bundle.cert.boot = r.quote.boot
  <2>1. /\ r.bundle.cert.boot \in [reset : Nat, restart : Nat]
        /\ r.quote.boot \in [reset : Nat, restart : Nat]
    BY DEF HistoryInv, TypeOK, Bundles, Certs
  <2>2. \A x, y \in [reset : Nat, restart : Nat] : SameBoot(x, y) => x = y
    BY DEF SameBoot
  <2> QED  BY <1>5, <2>1, <2>2
<1> QED  BY <1>2, <1>3, <1>4, <1>5, <1>6

LEMMA HistoryGivesFresh == HistoryInv => FreshReceiptIsTrue
<1> SUFFICES ASSUME HistoryInv, NEW r \in receipts, NEW n \in Nonces, Accepted(r, n)
             PROVE  /\ asked[n] # 0
                    /\ \E i \in asked[n]..Len(past) :
                         /\ past[i].readable
                         /\ past[i].counter = r.bundle.record.epoch
                         /\ past[i].build = Reference
  BY DEF FreshReceiptIsTrue
<1> DEFINE at == r.bundle.cert.at
<1>1. /\ at \in asked[n]..Len(past) /\ at \in 1..Len(past) /\ asked[n] # 0
      /\ past[at].readable /\ past[at].counter = r.bundle.record.epoch
  BY AcceptedTells
<1>2. PICK k \in at..Len(past) : Boot(past[k]) = Boot(past[at]) /\ past[k].build = Reference
  BY AcceptedTells
<1>3. past[at].build = Reference
  <2>1. at \in at..k
    BY <1>1, <1>2
  <2> QED  BY <1>1, <1>2, <2>1, OneBoot
<1> QED  BY <1>1, <1>3

LEMMA HistoryGivesHeld == HistoryInv => StopHeldBetween
<1> SUFFICES ASSUME HistoryInv, NEW r1 \in receipts, NEW r2 \in receipts,
                    NEW n1 \in Nonces, NEW n2 \in Nonces, Held(r1, n1, r2, n2)
             PROVE  LET from == r1.bundle.cert.at
                        to   == r2.bundle.cert.at
                    IN  /\ from < to
                        /\ \A i \in from..to :
                             /\ Boot(past[i]) = Boot(past[from])
                             /\ past[i].build = Reference
                             /\ past[i].readable =>
                                  /\ past[i].counter = r1.bundle.record.epoch
                                  /\ Odd(past[i].counter)
  BY DEF StopHeldBetween
<1> DEFINE from == r1.bundle.cert.at
           to   == r2.bundle.cert.at
           epoch == r1.bundle.record.epoch
<1>1. /\ Accepted(r1, n1) /\ Accepted(r2, n2)
      /\ epoch = r2.bundle.record.epoch /\ Odd(epoch)
      /\ r1.bundle.cert.boot.reset = r2.bundle.cert.boot.reset
      /\ r1.bundle.cert.boot.restart = r2.bundle.cert.boot.restart
      /\ r1.bundle.cert.clock < r2.bundle.cert.clock
  BY DEF Held, Basis
<1>2. /\ from \in 1..Len(past) /\ past[from].counter = epoch
      /\ Boot(past[from]) = r1.bundle.cert.boot
      /\ past[from].clock = r1.bundle.cert.clock
  BY <1>1, AcceptedTells
<1>3. /\ to \in 1..Len(past) /\ past[to].counter = epoch
      /\ Boot(past[to]) = r2.bundle.cert.boot
      /\ past[to].clock = r2.bundle.cert.clock
  BY <1>1, AcceptedTells
<1>4. PICK k \in to..Len(past) : Boot(past[k]) = Boot(past[to]) /\ past[k].build = Reference
  BY <1>1, AcceptedTells
<1>5. Boot(past[from]) = Boot(past[to])
  BY <1>1, <1>2, <1>3 DEF Boot
<1>6. past[from] \in Device /\ past[to] \in Device /\ Len(past) \in Nat
  BY <1>2, <1>3 DEF HistoryInv, TypeOK
<1>7. from < to
  <2> SUFFICES ASSUME to <= from PROVE FALSE
    BY <1>2, <1>3
  <2>1. from \in to..Len(past) /\ to \in to..from
    BY <1>2, <1>3
  <2>2. past[to].clock <= past[from].clock
    BY <1>3, <1>5, <2>1, OneBoot
  <2>3. past[from].clock \in Nat /\ past[to].clock \in Nat
    BY <1>6 DEF Device
  <2>4. past[from].clock < past[to].clock
    BY <1>1, <1>2, <1>3
  <2> QED  BY <2>2, <2>3, <2>4
<1>8. ASSUME NEW i \in from..to
      PROVE  /\ Boot(past[i]) = Boot(past[from])
             /\ past[i].build = Reference
             /\ past[i].counter = epoch
  <2>1. /\ k \in from..Len(past) /\ i \in from..k /\ i \in 1..Len(past)
        /\ from <= i /\ i <= to
    BY <1>2, <1>3, <1>4, <1>6, <1>7
  <2>2. Boot(past[i]) = Boot(past[from]) /\ past[i].build = Reference
    BY <1>2, <1>4, <1>5, <2>1, OneBoot
  <2>3. Later(past[from], past[i]) /\ Later(past[i], past[to]) /\ past[i] \in Device
    BY <1>2, <1>3, <2>1 DEF HistoryInv, PastInv, TypeOK
  <2>4. past[i].counter = epoch
    <3>1. past[from].counter <= past[i].counter /\ past[i].counter <= past[to].counter
      BY <2>3 DEF Later
    <3>2. past[from].counter \in Nat /\ past[i].counter \in Nat /\ past[to].counter \in Nat
      BY <1>6, <2>3 DEF Device
    <3> HIDE DEF epoch
    <3> QED  BY <1>2, <1>3, <3>1, <3>2
  <2> QED  BY <2>2, <2>4
<1> QED  BY <1>1, <1>7, <1>8

\* A receipt that answers a verifier's nonce tells a state the device was in
\* after the nonce was chosen: the counter at that value, the accepted build.
THEOREM FreshMeansSince == Spec => []FreshReceiptIsTrue
<1>1. Spec => []HistoryInv
  BY HistoryInit, HistoryStep, PTL DEF Spec
<1> QED  BY <1>1, HistoryGivesFresh, PTL

\* Two receipts verify_stop_interval accepts: one boot, the accepted build and
\* the same odd counter at every moment between the two reads.
THEOREM IntervalMeansHeld == Spec => []StopHeldBetween
<1>1. Spec => []HistoryInv
  BY HistoryInit, HistoryStep, PTL DEF Spec
<1> QED  BY <1>1, HistoryGivesHeld, PTL
-----------------------------------------------------------------------------
(***************************************************************************)
(* What the service signs, a verifier accepts.                             *)
(***************************************************************************)
\* What a signer has put together is what a verifier will look for: the record
\* of a read, a certify bound to the record and to the nonce and of the value
\* the record tells.
Told(record, nonce) ==
  /\ record.state \in {"running", "stopped"}
  /\ ~(Odd(record.epoch) /\ record.state = "running")
  /\ nonce # NoNonce => record.kind = "status"

Bound(record, cert, nonce) ==
  cert.extra = Certified(record, nonce) /\ cert.value = record.epoch

WorkMade(s) ==
  LET w == work[s]
  IN  /\ pc[s] = "read" => (w.nonce # NoNonce => w.record.kind = "status")
      /\ pc[s] \in {"certify", "pcrs", "quote"} => Told(w.record, w.nonce)
      /\ pc[s] \in {"pcrs", "quote"} => Bound(w.record, w.cert, w.nonce)

ReceiptMade(r) ==
  LET b == r.bundle
  IN  /\ r.quote.extra = r.msg /\ r.msg.bundle = b /\ b.record.epoch = r.msg.counter
      /\ Told(b.record, b.nonce)
      /\ Bound(b.record, b.cert, b.nonce)

MadeInv ==
  /\ \A s \in Signers : WorkMade(s)
  /\ \A r \in receipts : ReceiptMade(r)

\* What each step of a signer makes of its work.
LEMMA WorkStep ==
  ASSUME TypeOK, NEW s \in Signers, WorkMade(s), SignStep(s)
  PROVE  WorkMade(s)'
<1> USE DEF WorkMade
<1>1. pc \in [Signers -> {"idle", "read", "certify", "pcrs", "quote"}]
      /\ work \in [Signers -> WorkType] /\ work[s] \in WorkType
  BY DEF TypeOK, WorkType
<1>2. CASE Abandon(s)
  BY <1>1, <1>2 DEF Abandon, Goto
<1>3. ASSUME NEW kind \in {"refusal", "status"}, NEW n \in Answers, Begin(s, kind, n)
      PROVE  WorkMade(s)'
  <2> DEFINE w == [NoWork EXCEPT !.record.kind = kind, !.nonce = n]
  <2>1. pc'[s] = "read" /\ work'[s] = w
    BY <1>1, <1>3 DEF Begin, Goto
  <2>2. w.record.kind = kind /\ w.nonce = n
    BY DEF NoWork, Blank
  <2>3. n # NoNonce => kind = "status"
    BY <1>3 DEF Begin
  <2> QED
    BY <2>1, <2>2, <2>3
<1>4. ASSUME NEW released \in BOOLEAN, Read(s, released), ~Abandon(s)
      PROVE  WorkMade(s)'
  <2> DEFINE open == ~Odd(Now.counter) /\ released
             state == IF open THEN "running" ELSE "stopped"
             w == [work[s] EXCEPT !.record.state = state, !.record.epoch = Now.counter]
  <2>1. /\ pc[s] = "read" /\ pc'[s] = "certify" /\ work'[s] = w
    BY <1>1, <1>4 DEF Read, Goto
  <2>2. /\ w.record.state = state /\ w.record.epoch = Now.counter
        /\ w.record.kind = work[s].record.kind /\ w.nonce = work[s].nonce
    BY <1>1 DEF WorkType, Records
  <2>3. Told(w.record, w.nonce)
    BY <2>1, <2>2 DEF Told
  <2> QED
    BY <2>1, <2>3
<1>5. CASE Certify(s)
  <2> DEFINE w == [work[s] EXCEPT !.cert = CertNow(s)]
  <2>1. /\ pc[s] = "certify" /\ pc'[s] = "pcrs" /\ work'[s] = w
        /\ Now.counter = work[s].record.epoch
    BY <1>1, <1>5 DEF Certify, Goto
  <2>2. w.record = work[s].record /\ w.nonce = work[s].nonce /\ w.cert = CertNow(s)
    BY <1>1 DEF WorkType
  <2>3. Bound(w.record, w.cert, w.nonce)
    BY <2>1, <2>2 DEF Bound, CertNow
  <2> QED
    BY <2>1, <2>2, <2>3
<1>6. CASE ReadPcrs(s)
  <2> DEFINE w == [work[s] EXCEPT !.pcrs = Now.build]
  <2>1. pc[s] = "pcrs" /\ pc'[s] = "quote" /\ work'[s] = w
    BY <1>1, <1>6 DEF ReadPcrs, Goto
  <2>2. w.record = work[s].record /\ w.nonce = work[s].nonce /\ w.cert = work[s].cert
    BY <1>1 DEF WorkType
  <2> QED
    BY <2>1, <2>2
<1> QED
  BY <1>2, <1>3, <1>4, <1>5, <1>6 DEF SignStep, Quote, Fail, Answers

LEMMA MadeStep ==
  TypeOK /\ MadeInv /\ [Next]_vars => MadeInv'
<1> SUFFICES ASSUME TypeOK, MadeInv, [Next]_vars PROVE MadeInv'
  OBVIOUS
<1>1. CASE UNCHANGED vars
  BY <1>1 DEF MadeInv, WorkMade, vars
<1>2. CASE DeviceStep
  BY <1>2, DeviceLeaves DEF MadeInv, WorkMade
<1>3. ASSUME NEW n \in Nonces, Ask(n)
      PROVE  MadeInv'
  BY <1>3 DEF Ask, MadeInv, WorkMade
<1>4. ASSUME NEW s \in Signers, SignStep(s)
      PROVE  MadeInv'
  <2>1. \A t \in Signers : WorkMade(t)'
    <3>1. \A t \in Signers : t # s => pc'[t] = pc[t] /\ work'[t] = work[t]
      BY <1>4, SignMoves DEF TypeOK
    <3>2. WorkMade(s)'
      BY <1>4, WorkStep DEF MadeInv
    <3> QED
      BY <3>1, <3>2 DEF MadeInv, WorkMade
  <2>2. \A r \in receipts' : ReceiptMade(r)
    <3> DEFINE made == [msg |-> Message(s), bundle |-> Bundle(s),
                        quote |-> [extra |-> Message(s), pcrs |-> Now.build,
                                   boot |-> Boot(Now)]]
    <3>1. pc[s] = "quote" => ReceiptMade(made)
      <4>1. pc[s] = "quote" =>
              /\ Told(work[s].record, work[s].nonce)
              /\ Bound(work[s].record, work[s].cert, work[s].nonce)
        BY DEF MadeInv, WorkMade
      <4> QED
        BY <4>1 DEF ReceiptMade, Message, Bundle
    <3> HIDE DEF made
    <3>2. receipts' = receipts \/ (pc[s] = "quote" /\ receipts' = receipts \union {made})
      BY <1>4, SignAdds DEF made
    <3> QED
      BY <3>1, <3>2 DEF MadeInv
  <2> QED
    BY <2>1, <2>2 DEF MadeInv
<1> QED
  BY <1>1, <1>2, <1>3, <1>4 DEF Next

LEMMA MadeIsAccepted ==
  TypeOK /\ MadeInv => SignedIsAccepted
<1> SUFFICES ASSUME TypeOK, MadeInv, NEW r \in receipts,
                    r.bundle.cert.boot = r.quote.boot,
                    r.quote.pcrs = Reference, r.msg.pcrs = Reference
             PROVE  Verdict(r, r.bundle.nonce) = r.bundle.record.state
  BY DEF SignedIsAccepted
<1>1. ReceiptMade(r)
  BY DEF MadeInv
<1>2. Accepted(r, r.bundle.nonce)
  BY <1>1 DEF ReceiptMade, Told, Bound, Accepted, SameBoot
<1>3. /\ r.bundle.record.state \in {"running", "stopped"}
      /\ ~(Odd(r.bundle.record.epoch) /\ r.bundle.record.state = "running")
  BY <1>1 DEF ReceiptMade, Told
<1>4. Basis(r) = "running" <=> r.bundle.record.state = "running"
  BY <1>3 DEF Basis
<1> QED
  BY <1>2, <1>3, <1>4 DEF Verdict

\* Every receipt whose steps fell in one boot of the accepted build passes, and
\* the verdict is the state the service read (attest-stop lib.rs:164).
THEOREM SignedReceiptsPass == Spec => []SignedIsAccepted
<1>1. Init => MadeInv
  BY DEF Init, MadeInv, WorkMade
<1> QED
  BY <1>1, MadeStep, MadeIsAccepted, TypeCorrect, PTL DEF Spec
=============================================================================
