-------------------------- MODULE PanelPagesProofs --------------------------
(***************************************************************************)
(* Proofs about the panel's pages, certificate, downloads and uploads,     *)
(* each as a property of PagesSpec, whose behaviours are those of one of   *)
(* the four.                                                               *)
(***************************************************************************)
EXTENDS MCPanelPages, FiniteSets, Sequences, Integers, TLAPS, WellFoundedInduction

(***************************************************************************)
(* The certificate (PanelTLS).                                             *)
(***************************************************************************)
Writing == {"writeKey", "writeCert", "dropKey", "store"}

(* What there is of certificates, and who refers to them.                  *)
CertsInv ==
  /\ mode \in {"acme", "files"} /\ address \in Addresses /\ now \in 1..LastTick
  /\ issued \in Seq(T!Certs) /\ Len(issued) <= MaxIssued
  /\ \A n \in 1..Len(issued) : issued[n].to - issued[n].from \in Lifetimes
  /\ keyFile \in 0..Len(issued) /\ certFile \in 0..Len(issued)
  /\ served \in 0..Len(issued) /\ pending \in 0..Len(issued)
  /\ phase \in {"down", "ensure", "listen", "serving"}
  /\ task \in {"none", "order"} \cup Writing
  /\ due \in BOOLEAN /\ retrying \in BOOLEAN /\ torn \in BOOLEAN
  /\ mishaps \in 0..MaxMishaps

(* The two files while a pair is written; a cut in between is remembered.  *)
PairInv ==
  ~torn =>
    /\ task \in {"none", "order", "writeKey"} =>
         keyFile = 0 \/ certFile = 0 \/ keyFile = certFile
    /\ task = "writeCert" => keyFile = pending
    /\ task = "store" => keyFile = pending /\ certFile = pending

Fits(cert, where)    == cert.address = where
Expiring(cert, when) == when + T!RenewalWindow(cert) >= cert.to

(* The certificate in use; one that is due for renewal is being seen to.   *)
ServedInv ==
  /\ phase \in {"down", "listen"} => task = "none"
  /\ task \in Writing =>
       pending # 0 /\ Fits(issued[pending], address) /\ ~Expiring(issued[pending], now)
  /\ mode = "acme" /\ phase \in {"listen", "serving"} =>
       served # 0 /\ Fits(issued[served], address)
  /\ mode = "acme" /\ phase = "serving" /\ task = "none" =>
       /\ Expiring(issued[served], now) => due \/ retrying
       /\ issued[served].to <= now => retrying

CertInv == CertsInv /\ PairInv /\ ServedInv

LEMMA OfTheCert ==
  ASSUME NEW cert
  PROVE  T!Covers(cert) = Fits(cert, address) /\ T!NeedsRenewal(cert) = Expiring(cert, now)
BY DEF T!Covers, Fits, T!NeedsRenewal, Expiring

(* A renewal begins at least a tick before the end, and never at the start *)
(* of a lifetime.                                                          *)
LEMMA Window ==
  ASSUME NEW cert \in T!Certs, cert.to - cert.from \in Lifetimes
  PROVE  /\ T!RenewalWindow(cert) \in Nat /\ 1 <= T!RenewalWindow(cert)
         /\ T!RenewalWindow(cert) < cert.to - cert.from
<1>a. PICK life \in Lifetimes : life = cert.to - cert.from
  OBVIOUS
<1>b. Lifetimes \subseteq Nat \ {0, 1}
  BY PagesAssumption
<1>1. life \in Nat /\ life = cert.to - cert.from /\ life >= 2
  BY <1>a, <1>b
<1>2. life \div 3 \in Nat /\ life \div 2 \in Nat /\ 1 <= life \div 2 /\ life \div 2 < life
  BY <1>1
<1>3. T!RenewalWindow(cert) =
        T!Least(T!Greatest(T!Least(life \div 3, MaximumWindow), MinimumWindow), life \div 2)
  BY <1>1 DEF T!RenewalWindow
<1>4. T!Least(life \div 3, MaximumWindow) \in Nat
  BY <1>2, PagesAssumption DEF T!Least
<1>5. /\ T!Greatest(T!Least(life \div 3, MaximumWindow), MinimumWindow) \in Nat
      /\ 1 <= T!Greatest(T!Least(life \div 3, MaximumWindow), MinimumWindow)
  BY <1>4, PagesAssumption DEF T!Greatest
<1> QED
  BY <1>1, <1>2, <1>3, <1>5 DEF T!Least

(* How obtain's caller takes a failure.                                    *)
LEMMA RenewalFails ==
  ASSUME CertInv, task # "none", T!Fails
  PROVE  /\ task' = "none" /\ pending' = 0 /\ due' = due
         /\ served' \in {served, 0} /\ retrying' \in BOOLEAN
         /\ phase' \in {"serving", "listen", "down"}
         /\ phase' = "serving" => phase = "serving" /\ served' = served /\ retrying'
         /\ phase' = "listen" => served' = served /\ served # 0 /\ Fits(issued[served], address)
<1>1. phase \in {"ensure", "serving"}
  BY DEF CertInv, CertsInv, ServedInv
<1>2. retrying \in BOOLEAN
  BY DEF CertInv, CertsInv
<1> QED
  BY <1>1, <1>2, OfTheCert DEF T!Fails, T!Keep, T!Usable

(* What every step keeps of the certificates there are.                    *)
LEMMA CertsStep ==
  ASSUME CertInv, T!Next
  PROVE  CertsInv'
<1> USE DEF CertsInv, T!world, T!disk, T!memory, T!NoFault
<1>0. CertsInv
  BY DEF CertInv
<1>a. CertsInv /\ 0 \in 0..Len(issued)
  <2>1. Len(issued) \in Nat
    BY <1>0
  <2> QED
    BY <1>0, <2>1
<1>b. T!Fault => mishaps' \in 0..MaxMishaps
  BY <1>a, PagesAssumption DEF T!Fault
<1>1. CASE T!Start
  BY <1>a, <1>1 DEF T!Start, T!Loaded
<1>2. CASE T!Ensure
  BY <1>a, <1>2 DEF T!Ensure
<1>3. CASE T!Listen
  BY <1>a, <1>3 DEF T!Listen
<1>4. CASE T!Check
  BY <1>a, <1>4 DEF T!Check
<1>5. CASE T!Order
  <2>1. CASE T!Fails /\ UNCHANGED issued
    BY <1>a, <1>5, <2>1, RenewalFails DEF T!Order
  <2>2. ASSUME Len(issued) < MaxIssued, NEW life \in Lifetimes,
               issued' = Append(issued, [from |-> now, to |-> now + life, address |-> address]),
               task' = "writeKey", pending' = Len(issued'),
               UNCHANGED <<phase, served, due, retrying>>
        PROVE  CertsInv'
    <3> DEFINE cert == [from |-> now, to |-> now + life, address |-> address]
    <3>0. life \in Nat /\ now \in Nat /\ LastTick \in Nat
      BY <1>a, PagesAssumption
    <3>1. cert \in T!Certs /\ cert.to - cert.from \in Lifetimes
      <4>1. now + life \in Nat /\ (now + life) - now = life
        BY <3>0
      <4> QED
        BY <1>a, <3>0, <4>1 DEF T!Certs
    <3>2. issued' = Append(issued, cert)
      BY <2>2
    <3> HIDE DEF cert
    <3>3. /\ issued' \in Seq(T!Certs) /\ Len(issued') = Len(issued) + 1
          /\ \A n \in 1..Len(issued) : issued'[n] = issued[n]
          /\ issued'[Len(issued) + 1] = cert
      BY <1>a, <3>1, <3>2
    <3>4. Len(issued) \in Nat /\ Len(issued') <= MaxIssued
      BY <1>a, <2>2, <3>3, PagesAssumption
    <3>5. \A n \in 1..Len(issued') : issued'[n].to - issued'[n].from \in Lifetimes
      <4>1. \A n \in 1..Len(issued') : n \in 1..Len(issued) \/ n = Len(issued) + 1
        BY <3>3, <3>4
      <4> QED
        BY <1>a, <3>1, <3>3, <4>1
    <3>6. /\ 0..Len(issued) \subseteq 0..Len(issued') /\ pending' \in 0..Len(issued')
      BY <2>2, <3>3, <3>4
    <3>7. UNCHANGED <<mode, address, now, keyFile, certFile, torn, mishaps>>
      BY <1>5 DEF T!Order
    <3> QED
      BY <1>a, <2>2, <3>3, <3>4, <3>5, <3>6, <3>7 DEF Writing
  <2> QED
    BY <1>5, <2>1, <2>2 DEF T!Order
<1>6. CASE T!WriteKey
  <2>1. CASE T!Fails
    BY <1>a, <1>b, <1>6, <2>1, RenewalFails DEF T!WriteKey
  <2>2. CASE ~T!Fails
    BY <1>a, <1>6, <2>2 DEF T!WriteKey, Writing
  <2> QED
    BY <2>1, <2>2
<1>7. CASE T!WriteCert
  BY <1>a, <1>b, <1>7 DEF T!WriteCert, Writing
<1>8. CASE T!DropKey
  BY <1>a, <1>b, <1>8, RenewalFails DEF T!DropKey
<1>9. CASE T!Store
  BY <1>a, <1>9 DEF T!Store
<1>10. CASE T!Stop
  BY <1>a, <1>b, <1>10 DEF T!Stop
<1>11. CASE T!Reconfigure
  BY <1>a, <1>b, <1>11 DEF T!Reconfigure
<1>12. CASE T!Tick
  <2>1. now' \in 1..LastTick
    BY <1>a, <1>12, PagesAssumption DEF T!Tick
  <2> QED
    BY <1>a, <1>12, <2>1 DEF T!Tick
<1> QED
  BY <1>1, <1>2, <1>3, <1>4, <1>5, <1>6, <1>7, <1>8, <1>9, <1>10, <1>11, <1>12
  DEF T!Next, T!Obtain

LEMMA PairStep ==
  ASSUME CertInv, T!Next
  PROVE  PairInv'
<1> USE DEF PairInv, T!world, T!disk, T!memory, T!NoFault
<1>a. PairInv /\ torn \in BOOLEAN
  BY DEF CertInv, CertsInv
<1>b. task # "none" /\ T!Fails => task' = "none"
  BY RenewalFails
<1>1. CASE T!Start \/ T!Listen \/ T!Reconfigure \/ T!Tick
  BY <1>a, <1>1 DEF T!Start, T!Listen, T!Reconfigure, T!Tick, CertInv, ServedInv
<1>2. CASE T!Ensure \/ T!Check
  BY <1>a, <1>2 DEF T!Ensure, T!Check
<1>3. CASE T!Order
  BY <1>a, <1>b, <1>3 DEF T!Order
<1>4. CASE T!WriteKey
  BY <1>a, <1>b, <1>4 DEF T!WriteKey
<1>5. CASE T!WriteCert
  BY <1>a, <1>5 DEF T!WriteCert
<1>6. CASE T!DropKey
  BY <1>a, <1>b, <1>6 DEF T!DropKey
<1>7. CASE T!Store
  BY <1>a, <1>7 DEF T!Store
<1>8. CASE T!Stop
  BY <1>a, <1>8 DEF T!Stop, CertInv, CertsInv, Writing
<1> QED
  BY <1>1, <1>2, <1>3, <1>4, <1>5, <1>6, <1>7, <1>8 DEF T!Next, T!Obtain

LEMMA ServedStep ==
  ASSUME CertInv, T!Next
  PROVE  ServedInv'
<1> USE DEF T!world, T!disk, T!memory, T!NoFault
<1>a. CertsInv /\ ServedInv
  BY DEF CertInv
<1>b. \A cert : T!Covers(cert) = Fits(cert, address) /\ T!NeedsRenewal(cert) = Expiring(cert, now)
  BY OfTheCert
<1>c. task # "none" /\ T!Fails =>
        /\ task' = "none"
        /\ phase' = "serving" => phase = "serving" /\ served' = served /\ retrying'
        /\ phase' = "listen" => served' = served /\ served # 0 /\ Fits(issued[served], address)
  BY RenewalFails
<1>1. CASE T!Start
  <2>1. task' = "none" /\ phase' \in {"listen", "ensure"} /\ (phase' = "listen" => mode' = "files")
    BY <1>a, <1>1 DEF T!Start, ServedInv
  <2> QED
    BY <1>a, <2>1 DEF ServedInv, CertsInv, Writing
<1>2. CASE T!Ensure
  <2>1. UNCHANGED <<mode, address, now, issued, served>> /\ phase = "ensure" /\ task = "none"
    BY <1>2 DEF T!Ensure
  <2>2. \/ phase' = "listen" /\ task' = "none" /\ T!Keep
        \/ phase' = "ensure" /\ task' = "order"
    BY <1>2 DEF T!Ensure
  <2> QED
    BY <1>b, <2>1, <2>2 DEF ServedInv, T!Keep, T!Usable, Writing
<1>3. CASE T!Listen
  <2>1. UNCHANGED <<mode, address, now, issued>> /\ phase = "listen" /\ task' = "none"
    BY <1>a, <1>3 DEF T!Listen, ServedInv
  <2>2. CASE phase' = "down"
    BY <2>1, <2>2 DEF ServedInv, Writing
  <2>3. CASE phase' = "serving" /\ served' = served
                /\ retrying' = (mode = "acme" /\ Expiring(issued[served], now))
    <3>1. ASSUME mode = "acme"
          PROVE  /\ served # 0 /\ Fits(issued[served], address)
                 /\ Expiring(issued[served], now) => retrying'
                 /\ issued[served].to <= now => retrying'
      <4>1. served \in 1..Len(issued) /\ Fits(issued[served], address)
        BY <1>a, <2>1, <3>1 DEF ServedInv, CertsInv
      <4>2. issued[served] \in T!Certs /\ issued[served].to - issued[served].from \in Lifetimes
            /\ now \in Nat
        BY <1>a, <4>1 DEF CertsInv
      <4>3. issued[served].to <= now => Expiring(issued[served], now)
        BY <4>2, Window DEF Expiring, T!Certs
      <4>4. Expiring(issued[served], now) => retrying'
        BY <2>3, <3>1, Zenon
      <4> QED
        BY <4>1, <4>3, <4>4
    <3> QED
      BY <1>b, <2>1, <2>3, <3>1 DEF ServedInv, Writing
  <2> QED
    BY <1>b, <1>3, <2>2, <2>3 DEF T!Listen
<1>4. CASE T!Check
  <2>1. UNCHANGED <<mode, address, now, issued, phase, served>> /\ phase = "serving"
        /\ mode = "acme" /\ task = "none"
    BY <1>4 DEF T!Check
  <2>2. CASE Expiring(issued[served], now)
    <3>1. task' = "order"
      BY <1>b, <1>4, <2>2 DEF T!Check
    <3> QED
      BY <1>a, <1>b, <2>1, <3>1 DEF ServedInv, Writing
  <2>3. CASE ~Expiring(issued[served], now)
    <3>1. served \in 1..Len(issued)
      BY <1>a, <2>1 DEF ServedInv, CertsInv
    <3>2. issued[served] \in T!Certs /\ issued[served].to - issued[served].from \in Lifetimes
          /\ now \in Nat
      BY <1>a, <3>1 DEF CertsInv
    <3>3. ~(issued[served].to <= now)
      BY <2>3, <3>2, Window DEF Expiring, T!Certs
    <3>4. task' = "none"
      BY <1>b, <1>4, <2>1, <2>3 DEF T!Check
    <3> QED
      BY <1>a, <1>b, <2>1, <2>3, <3>3, <3>4 DEF ServedInv, Writing
  <2> QED
    BY <2>2, <2>3
<1>5. CASE T!Order
  <2>0. UNCHANGED <<mode, address, now>> /\ task = "order"
    BY <1>5 DEF T!Order
  <2>1. CASE T!Fails /\ UNCHANGED issued
    BY <1>a, <1>b, <1>c, <2>0, <2>1 DEF ServedInv, Writing
  <2>2. ASSUME NEW life \in Lifetimes,
               issued' = Append(issued, [from |-> now, to |-> now + life, address |-> address]),
               task' = "writeKey", pending' = Len(issued'),
               UNCHANGED <<phase, served, due, retrying>>
        PROVE  ServedInv'
    <3> DEFINE cert == [from |-> now, to |-> now + life, address |-> address]
    <3>0. life \in Nat /\ now \in Nat /\ Len(issued) \in Nat
      BY <1>a, PagesAssumption DEF CertsInv, Writing
    <3>1. cert \in T!Certs /\ cert.from = now /\ cert.to = now + life /\ cert.address = address
          /\ cert.to - cert.from = life
      <4>1. now + life \in Nat /\ (now + life) - now = life
        BY <3>0
      <4> QED
        BY <1>a, <3>0, <4>1 DEF T!Certs, CertsInv
    <3>2. issued' = Append(issued, cert)
      BY <2>2
    <3> HIDE DEF cert
    <3>3. /\ pending' = Len(issued) + 1 /\ issued'[pending'] = cert
          /\ \A n \in 1..Len(issued) : issued'[n] = issued[n]
      BY <1>a, <2>2, <3>1, <3>2 DEF CertsInv
    <3>4. now + T!RenewalWindow(cert) < cert.to
      BY <3>0, <3>1, Window
    <3>5. /\ pending' # 0 /\ Fits(issued'[pending'], address')
          /\ ~Expiring(issued'[pending'], now')
      <4>1. cert.to \in Nat /\ T!RenewalWindow(cert) \in Nat
        BY <3>0, <3>1, Window
      <4> QED
        BY <2>0, <3>0, <3>1, <3>3, <3>4, <4>1 DEF Fits, Expiring
    <3>6. mode = "acme" /\ phase \in {"listen", "serving"} =>
            served # 0 /\ Fits(issued'[served], address')
      BY <1>a, <2>0, <3>3 DEF ServedInv, CertsInv
    <3>7. phase \notin {"down", "listen"}
      BY <1>a, <2>0 DEF ServedInv
    <3> QED
      BY <2>0, <2>2, <3>5, <3>6, <3>7 DEF ServedInv
  <2> QED
    BY <1>5, <2>1, <2>2 DEF T!Order
<1>6. CASE T!WriteKey \/ T!WriteCert \/ T!DropKey
  <2>1. UNCHANGED <<mode, address, now, issued>> /\ task \in Writing
    BY <1>6 DEF T!WriteKey, T!WriteCert, T!DropKey, Writing
  <2>2. \/ T!Fails
        \/ UNCHANGED <<phase, served, pending, due, retrying>> /\ task' \in Writing
    BY <1>6 DEF T!WriteKey, T!WriteCert, T!DropKey, Writing
  <2>3. task # "none"
    BY <2>1 DEF Writing
  <2> QED
    BY <1>a, <1>b, <1>c, <2>1, <2>2, <2>3 DEF ServedInv, Writing
<1>7. CASE T!Store
  <2>1. /\ UNCHANGED <<mode, address, now, issued, due>> /\ task' = "none"
        /\ served' = pending /\ task \in Writing
    BY <1>7 DEF T!Store, Writing
  <2>2. pending \in 1..Len(issued) /\ Fits(issued[pending], address) /\ ~Expiring(issued[pending], now)
    BY <1>a, <2>1 DEF ServedInv, CertsInv
  <2>3. issued[pending] \in T!Certs /\ issued[pending].to - issued[pending].from \in Lifetimes
        /\ now \in Nat
    BY <1>a, <2>2 DEF CertsInv
  <2>4. ~(issued[pending].to <= now)
    BY <2>2, <2>3, Window DEF Expiring, T!Certs
  <2> QED
    BY <1>b, <2>1, <2>2, <2>4 DEF ServedInv, Writing
<1>8. CASE T!Stop
  BY <1>8 DEF T!Stop, ServedInv, Writing
<1>9. CASE T!Reconfigure
  BY <1>a, <1>9 DEF T!Reconfigure, ServedInv, Writing
<1>10. CASE T!Tick
  <2>1. /\ UNCHANGED <<mode, address, issued, phase, served, retrying>> /\ task' = "none"
        /\ now' = now + 1 /\ task = "none" /\ ~due /\ phase \in {"down", "serving"}
        /\ due' = (phase = "serving" /\ mode = "acme")
    BY <1>10 DEF T!Tick
  <2>2. ASSUME mode = "acme", phase = "serving"
        PROVE  /\ served # 0 /\ Fits(issued[served], address)
               /\ issued[served].to <= now + 1 => retrying
    <3>1. served \in 1..Len(issued) /\ Fits(issued[served], address)
          /\ (Expiring(issued[served], now) => retrying)
      BY <1>a, <2>1, <2>2 DEF ServedInv, CertsInv
    <3>2. issued[served] \in T!Certs /\ issued[served].to - issued[served].from \in Lifetimes
          /\ now \in Nat
      BY <1>a, <3>1 DEF CertsInv
    <3>3. issued[served].to <= now + 1 => Expiring(issued[served], now)
      BY <3>2, Window DEF Expiring, T!Certs
    <3> QED
      BY <3>1, <3>3
  <2> QED
    BY <2>1, <2>2 DEF ServedInv, Writing
<1> QED
  BY <1>1, <1>2, <1>3, <1>4, <1>5, <1>6, <1>7, <1>8, <1>9, <1>10 DEF T!Next, T!Obtain

LEMMA CertInit ==
  ASSUME T!Init
  PROVE  CertInv
<1>b. /\ mode \in {"acme", "files"} /\ address \in Addresses /\ now = 1
      /\ keyFile = Len(issued) /\ certFile = Len(issued) /\ phase = "down"
      /\ served = 0 /\ task = "none" /\ pending = 0 /\ due = FALSE /\ retrying = FALSE
      /\ torn = FALSE /\ mishaps = 0
  BY DEF T!Init
<1>c. \/ issued = <<>>
      \/ \E f \in {0, 2}, life \in Lifetimes, x \in Addresses :
           issued = <<[from |-> f, to |-> f + life, address |-> x]>>
  BY DEF T!Init
<1>a. 1 \in 1..LastTick /\ 0 \in 0..MaxMishaps /\ MaxIssued \in Nat /\ 1 <= MaxIssued
  BY PagesAssumption
<1>1. CASE issued = <<>>
  <2>1. Len(issued) = 0 /\ issued \in Seq(T!Certs)
    BY <1>1
  <2>2. CertsInv
    <3>1. /\ Len(issued) <= MaxIssued /\ 0 \in 0..Len(issued) /\ Len(issued) \in 0..Len(issued)
          /\ \A n \in 1..Len(issued) : issued[n].to - issued[n].from \in Lifetimes
      BY <1>a, <2>1
    <3>2. /\ now \in 1..LastTick /\ mishaps \in 0..MaxMishaps /\ served = 0 /\ pending = 0
          /\ keyFile = Len(issued) /\ certFile = Len(issued)
      BY <1>a, <1>b
    <3> QED
      BY <1>a, <2>1, <1>b, <3>1, <3>2 DEF CertsInv
  <2> QED
    BY <1>b, <2>2, <2>1 DEF CertInv, PairInv, ServedInv, Writing
<1>2. ASSUME NEW f \in {0, 2}, NEW life \in Lifetimes, NEW x \in Addresses,
             issued = <<[from |-> f, to |-> f + life, address |-> x]>>
      PROVE  CertInv
  <2>0. life \in Nat /\ f \in Nat /\ f + life \in Nat /\ (f + life) - f = life
    BY PagesAssumption
  <2>1. [from |-> f, to |-> f + life, address |-> x] \in T!Certs
    BY <2>0 DEF T!Certs
  <2>2. /\ issued \in Seq(T!Certs) /\ Len(issued) = 1
        /\ issued[1] = [from |-> f, to |-> f + life, address |-> x]
    BY <1>2, <2>1
  <2>3. \A n \in 1..Len(issued) : issued[n].to - issued[n].from \in Lifetimes
    BY <2>0, <2>2
  <2>4. CertsInv
    <3>1. /\ Len(issued) <= MaxIssued /\ 0 \in 0..Len(issued) /\ Len(issued) \in 0..Len(issued)
          /\ \A n \in 1..Len(issued) : issued[n].to - issued[n].from \in Lifetimes
      BY <1>a, <2>2, <2>3
    <3>2. /\ now \in 1..LastTick /\ mishaps \in 0..MaxMishaps /\ served = 0 /\ pending = 0
          /\ keyFile = Len(issued) /\ certFile = Len(issued)
      BY <1>a, <1>b
    <3> QED
      BY <1>a, <2>2, <2>3, <1>b, <3>1, <3>2 DEF CertsInv
  <2> QED
    BY <1>b, <2>4 DEF CertInv, PairInv, ServedInv, Writing
<1> QED
  BY <1>1, <1>2, <1>c

LEMMA CertImplies ==
  ASSUME CertInv
  PROVE  T!TypeOK /\ T!ServesValid /\ T!NeverMismatched
<1>1. CertsInv /\ PairInv /\ ServedInv
  BY DEF CertInv
<1>2. T!TypeOK
  <2>1. Len(issued) \in Nat /\ MaxIssued \in Nat
    BY <1>1, PagesAssumption DEF CertsInv, Writing
  <2>2. 0..Len(issued) \subseteq 0..MaxIssued
    BY <1>1, <2>1 DEF CertsInv
  <2> QED
    BY <1>1, <2>2 DEF CertsInv, T!TypeOK, Writing
<1>3. T!ServesValid
  BY <1>1, OfTheCert DEF ServedInv, T!ServesValid
<1>4. T!NeverMismatched
  BY <1>1 DEF PairInv, T!NeverMismatched
<1> QED
  BY <1>2, <1>3, <1>4

LEMMA CertStutter ==
  ASSUME CertInv, UNCHANGED tlsVars
  PROVE  CertInv'
BY DEF CertInv, CertsInv, PairInv, ServedInv, tlsVars

(* The panel never serves a certificate of another address, nor an expired *)
(* one unless an attempt to renew it in time has failed, and a start finds *)
(* two halves that match or one missing, unless the writing of a pair was  *)
(* cut: for any addresses, lifetimes of two days or more, renewals and     *)
(* failures (tls.go).                                                      *)
THEOREM PanelCertificate == PagesSpec => []CertificateHolds
<1> DEFINE Inv == component = "tls" => CertInv
<1>1. PagesInit => Inv
  BY CertInit DEF PagesInit
<1>2. Inv /\ [PagesNext]_pagesVars => Inv'
  <2>1. ASSUME CertInv, T!Next
        PROVE  CertInv'
    BY <2>1, CertsStep, PairStep, ServedStep DEF CertInv
  <2> QED
    BY <2>1, CertStutter DEF PagesNext, pagesVars
<1>3. Inv => CertificateHolds
  BY CertImplies DEF CertificateHolds
<1> QED
  BY <1>1, <1>2, <1>3, PTL DEF PagesSpec

-----------------------------------------------------------------------------
(***************************************************************************)
(* One upload (Upload).                                                    *)
(***************************************************************************)
ImportSteps == {"validate", "rename", "sync", "undo", "copy", "commit", "syncCopy",
                "removeSource", "unpublish"}

UploadTypes ==
  /\ U!TypeOK
  /\ good \in BOOLEAN /\ csrf \in BOOLEAN /\ gone \in BOOLEAN
  /\ import \in {"off", "over"} \cup ImportSteps

(* The command runs for the handler that waits for it, after the token.    *)
TurnInv ==
  /\ panel \in {"receive", "write"} => import = "off"
  /\ panel = "import" => import # "off"
  /\ import # "off" => csrf
  /\ import \in ImportSteps => panel = "import"
  /\ import = "over" <=> reply # "none"

(* What each step of the command finds of the package.                     *)
PackageInv ==
  /\ import \in {"off", "validate", "rename", "copy"} => ~stored /\ ~copy
  /\ import \in {"rename", "copy", "commit", "sync", "syncCopy", "removeSource"} => good
  /\ import \in {"sync", "syncCopy", "removeSource"} => stored /\ ~copy
  /\ import \in {"undo", "unpublish"} => failures > 0 /\ ~copy
  /\ import = "commit" => ~stored
  /\ reply = "ok" => stored /\ good /\ ~copy
  /\ reply = "error" /\ failures < 2 => ~stored /\ ~copy

(* What the answer rests on.                                               *)
AnswerInv ==
  panel = "done" =>
    /\ said = "ok" => reply = "ok"
    /\ said = "error" => gone \/ reply \in {"none", "error", "killed"}
    /\ failures = 0 => file = "none"

UploadInv == UploadTypes /\ TurnInv /\ PackageInv /\ AnswerInv

LEMMA Counting ==
  ASSUME UploadTypes
  PROVE  /\ failures \in Nat /\ failures \in 0..MaxUploadFaults
         /\ U!Fails => failures' \in 0..MaxUploadFaults /\ failures' = failures + 1
                       /\ failures' \in Nat /\ failures' > 0
         /\ failures + 2 <= MaxUploadFaults /\ failures' = failures + 2 =>
              failures' \in 0..MaxUploadFaults /\ failures' \in Nat /\ failures' > 1
BY PagesAssumption DEF UploadTypes, U!TypeOK, U!Fails

(* The handler.                                                            *)
LEMMA HandlerStep ==
  ASSUME UploadInv,
         U!NextPart \/ U!receiveUpload \/ U!NotReceived \/ U!handleModsUpload \/ U!Answer
           \/ U!Cancel \/ U!PanelDies
  PROVE  UploadInv'
<1> USE Counting
<1> USE DEF U!Works, U!Fixed, U!panelVars, U!importVars, U!Finish, U!removeUpload
<1>a. UploadTypes /\ TurnInv /\ PackageInv /\ AnswerInv /\ failures \in Nat
  BY DEF UploadInv
<1>b. import \in ImportSteps <=> U!Running
  BY <1>a DEF UploadTypes, U!Running, ImportSteps
<1>1. UploadTypes'
  <2>1. CASE U!NextPart
    BY <1>a, <2>1 DEF UploadTypes, U!TypeOK, U!NextPart
  <2>2. CASE U!receiveUpload
    BY <1>a, <2>2 DEF UploadTypes, U!TypeOK, U!receiveUpload
  <2>3. CASE U!NotReceived
    BY <1>a, <2>3 DEF UploadTypes, U!TypeOK, U!NotReceived
  <2>4. CASE U!handleModsUpload
    BY <1>a, <2>4 DEF UploadTypes, U!TypeOK, U!handleModsUpload, ImportSteps
  <2>5. CASE U!Answer
    BY <1>a, <2>5 DEF UploadTypes, U!TypeOK, U!Answer, TurnInv
  <2>6. CASE U!Cancel
    BY <1>a, <2>6 DEF UploadTypes, U!TypeOK, U!Cancel
  <2>7. CASE U!PanelDies
    BY <1>a, <2>7 DEF UploadTypes, U!TypeOK, U!PanelDies
  <2> QED
    BY <2>1, <2>2, <2>3, <2>4, <2>5, <2>6, <2>7
<1>2. TurnInv'
  <2>1. CASE U!NextPart \/ U!receiveUpload
    BY <1>a, <2>1 DEF UploadTypes, TurnInv, U!NextPart, U!receiveUpload, ImportSteps
  <2>2. CASE U!NotReceived \/ U!handleModsUpload \/ U!Answer
    BY <1>a, <2>2 DEF UploadTypes, TurnInv, U!NotReceived, U!handleModsUpload, U!Answer,
                      ImportSteps
  <2>3. CASE U!Cancel
    BY <1>a, <2>3 DEF TurnInv, U!Cancel
  <2>4. CASE U!PanelDies
    BY <1>a, <1>b, <2>4 DEF TurnInv, U!PanelDies, ImportSteps
  <2> QED
    BY <2>1, <2>2, <2>3, <2>4
<1>3. PackageInv'
  <2>1. CASE U!NextPart \/ U!receiveUpload \/ U!Cancel
    BY <1>a, <2>1 DEF PackageInv, U!NextPart, U!receiveUpload, U!Cancel
  <2>2. CASE U!NotReceived \/ U!handleModsUpload \/ U!Answer
    <3>1. UNCHANGED <<good, copy, stored, reply>>
          /\ (import' = import \/ (import = "off" /\ import' = "validate"))
          /\ failures' >= failures /\ failures' \in Nat
      BY <1>a, <2>2 DEF U!NotReceived, U!handleModsUpload, U!Answer, TurnInv
    <3> QED
      BY <1>a, <3>1 DEF PackageInv
  <2>3. CASE U!PanelDies
    <3>1. UNCHANGED <<good, copy, stored, failures>>
          /\ (UNCHANGED <<import, reply>> \/ (import' = "over" /\ reply' = "killed"))
      BY <2>3 DEF U!PanelDies
    <3> QED
      BY <1>a, <3>1 DEF PackageInv
  <2> QED
    BY <2>1, <2>2, <2>3
<1>4. AnswerInv'
  <2>1. CASE U!NextPart \/ U!receiveUpload \/ U!Cancel \/ U!PanelDies
    BY <1>a, <2>1 DEF AnswerInv, U!NextPart, U!receiveUpload, U!Cancel, U!PanelDies
  <2>2. CASE U!NotReceived \/ U!handleModsUpload
    BY <1>a, <2>2 DEF AnswerInv, U!NotReceived, U!handleModsUpload, TurnInv
  <2>3. CASE U!Answer
    BY <1>a, <2>3 DEF AnswerInv, U!Answer, UploadTypes, U!TypeOK
  <2> QED
    BY <2>1, <2>2, <2>3
<1> QED
  BY <1>1, <1>2, <1>3, <1>4 DEF UploadInv

(* The command.                                                            *)
LEMMA ImportStep ==
  ASSUME UploadInv,
         U!Validate \/ U!Rename \/ U!SyncDir \/ U!Undo \/ U!CopyUpload \/ U!Commit \/ U!SyncCopy
           \/ U!RemoveSource \/ U!Unpublish \/ U!ImportDies
  PROVE  UploadInv'
<1> USE Counting
<1> USE DEF U!Works, U!Fixed, U!panelVars, U!At, U!Then, U!Exit
<1>a. UploadTypes /\ TurnInv /\ PackageInv /\ AnswerInv /\ failures \in Nat
  BY DEF UploadInv
<1>b. import \in ImportSteps /\ panel = "import" /\ panel' = "import"
      /\ reply = "none" /\ csrf /\ csrf'
      /\ UNCHANGED <<good, csrf, gone, said, panel>>
  BY <1>a DEF U!Validate, U!Rename, U!SyncDir, U!Undo, U!CopyUpload, U!Commit, U!SyncCopy,
              U!RemoveSource, U!Unpublish, U!ImportDies, U!Running, UploadTypes, TurnInv, ImportSteps
<1>c. \/ import' \in ImportSteps /\ reply' = "none"
      \/ import' = "over" /\ reply' \in {"ok", "error", "killed"}
  BY <1>b DEF U!Validate, U!Rename, U!SyncDir, U!Undo, U!CopyUpload, U!Commit, U!SyncCopy,
              U!RemoveSource, U!Unpublish, U!ImportDies, ImportSteps
<1>1. UploadTypes'
  <2>1. /\ file' \in {"none", "partial", "whole"} /\ copy' \in BOOLEAN /\ stored' \in BOOLEAN
        /\ failures' \in 0..MaxUploadFaults
    BY <1>a DEF U!Validate, U!Rename, U!SyncDir, U!Undo, U!CopyUpload, U!Commit, U!SyncCopy,
                U!RemoveSource, U!Unpublish, U!ImportDies, UploadTypes, U!TypeOK
  <2> QED
    BY <1>a, <1>b, <1>c, <2>1 DEF UploadTypes, U!TypeOK
<1>2. TurnInv'
  BY <1>b, <1>c DEF TurnInv, ImportSteps
<1>3. AnswerInv'
  BY <1>b DEF AnswerInv
<1>4. PackageInv'
  <2> USE DEF PackageInv
  <2>1. CASE U!Validate
    BY <1>a, <1>b, <2>1 DEF U!Validate
  <2>2. CASE U!Rename
    BY <1>a, <1>b, <2>2 DEF U!Rename
  <2>3. CASE U!SyncDir
    BY <1>a, <1>b, <2>3 DEF U!SyncDir
  <2>4. CASE U!Undo
    BY <1>a, <1>b, <2>4 DEF U!Undo
  <2>5. CASE U!CopyUpload
    BY <1>a, <1>b, <2>5 DEF U!CopyUpload
  <2>6. CASE U!Commit
    BY <1>a, <1>b, <2>6 DEF U!Commit
  <2>7. CASE U!SyncCopy
    BY <1>a, <1>b, <2>7 DEF U!SyncCopy
  <2>8. CASE U!RemoveSource
    BY <1>a, <1>b, <2>8 DEF U!RemoveSource
  <2>9. CASE U!Unpublish
    BY <1>a, <1>b, <2>9 DEF U!Unpublish
  <2>10. CASE U!ImportDies
    BY <1>a, <1>b, <2>10 DEF U!ImportDies
  <2> QED
    BY <2>1, <2>2, <2>3, <2>4, <2>5, <2>6, <2>7, <2>8, <2>9, <2>10
<1> QED
  BY <1>1, <1>2, <1>3, <1>4 DEF UploadInv

LEMMA UploadStutter ==
  ASSUME UploadInv, UNCHANGED uploadVars
  PROVE  UploadInv'
BY DEF UploadInv, UploadTypes, U!TypeOK, TurnInv, PackageInv, AnswerInv, uploadVars

(* Whatever the order of the form's parts, and wherever the request, the   *)
(* panel or the command is cut off or an operation fails: the operator is  *)
(* told what became of the upload, and nothing is stored without a valid   *)
(* token (handleModsUpload, publishUpload, copyUpload).                    *)
THEOREM PanelUpload == PagesSpec => []UploadIsSettled
<1> DEFINE Inv == component = "upload" => UploadInv
<1>1. PagesInit => Inv
  <2>1. ASSUME U!Init
        PROVE  UploadInv
    <3>1. /\ good \in BOOLEAN /\ panel = "receive" /\ csrf = FALSE /\ said = "none"
          /\ gone = FALSE /\ import = "off" /\ reply = "none" /\ copy = FALSE /\ stored = FALSE
          /\ file = "none" /\ failures = 0 /\ 0 \in 0..MaxUploadFaults
      BY <2>1, PagesAssumption DEF U!Init
    <3>2. UploadTypes
      BY <3>1 DEF UploadTypes, U!TypeOK
    <3>3. TurnInv /\ PackageInv /\ AnswerInv
      BY <3>1 DEF TurnInv, PackageInv, AnswerInv, ImportSteps
    <3> QED
      BY <3>2, <3>3 DEF UploadInv
  <2> QED
    BY <2>1 DEF PagesInit
<1>2. Inv /\ [PagesNext]_pagesVars => Inv'
  <2>1. ASSUME UploadInv, U!Next
        PROVE  UploadInv'
    <3>1. U!Settled => UNCHANGED uploadVars
      BY DEF U!Settled, U!vars, U!panelVars, U!importVars, uploadVars
    <3> QED
      BY <2>1, <3>1, HandlerStep, ImportStep, UploadStutter DEF U!Next
  <2> QED
    BY <2>1, UploadStutter DEF PagesNext, pagesVars
<1>3. Inv => UploadIsSettled
  <2>1. ASSUME UploadInv
        PROVE  U!TypeOK /\ U!UploadIsSettled
    <3>1. U!Running <=> import \in ImportSteps
      BY <2>1 DEF UploadInv, UploadTypes, U!Running, ImportSteps
    <3>2. stored => import # "off"
      BY <2>1 DEF UploadInv, PackageInv
    <3>3. reply = "none" /\ panel = "done" => import = "off"
      BY <2>1 DEF UploadInv, UploadTypes, TurnInv
    <3> QED
      BY <2>1, <3>1, <3>2, <3>3 DEF UploadInv, UploadTypes, TurnInv, PackageInv, AnswerInv,
                                    U!UploadIsSettled, ImportSteps
  <2> QED
    BY <2>1 DEF UploadIsSettled
<1> QED
  BY <1>1, <1>2, <1>3, PTL DEF PagesSpec

-----------------------------------------------------------------------------
(***************************************************************************)
(* The downloads (PanelDownloads).                                         *)
(***************************************************************************)
Stored == MCPacks \cup {Nothing}

(* Every number the store refers to names a pack, and the right one.       *)
StoreInv ==
  /\ mods \in [D!Numbers -> Stored]
  /\ states \in [D!Numbers -> D!Numbers \cup {D!None}]
  /\ holds \in [D!Numbers -> Stored]
  /\ current.name \in D!Numbers
  /\ mods[current.name] # Nothing /\ mods[current.name].sha = current.sha
  /\ \A s \in D!Numbers : states[s] # D!None =>
       mods[states[s]] # Nothing /\ mods[states[s]] = holds[s]

RequestTypes ==
  /\ asked \in [Visitors -> {"archive", "bundle"}]
  /\ stage \in [Visitors -> {"idle", "size", "get", "open", "send", "verify",
                             "state", "mods", "done"}]
  /\ tries \in [Visitors -> 0..Attempts]
  /\ reused \in [Visitors -> BOOLEAN]
  /\ want \in [Visitors -> [state : D!Numbers \cup {D!None}, mods : D!Numbers \cup {D!None}]]
  /\ sent \in [Visitors -> [mods : Stored, of : Stored]]
  /\ cur = [v \in Visitors |-> cur[v]] /\ meta = [v \in Visitors |-> meta[v]]

(* Where a request is in its handler, and what it goes by.                 *)
Coherent(v) ==
  /\ stage[v] \in {"idle", "size", "get", "open", "send", "verify"} => asked[v] = "archive"
  /\ stage[v] \in {"state", "mods"} => asked[v] = "bundle"
  /\ stage[v] \in {"size", "open"} => cur[v].name \in D!Numbers
  /\ stage[v] \in {"state", "mods"} => want[v].state \in D!Numbers /\ want[v].mods \in D!Numbers
  /\ stage[v] = "done" /\ asked[v] = "archive" => sent[v].mods.sha = meta[v].sha

(* A name read before is free now, or still names what it named.           *)
Reliable(v) ==
  ~reused[v] =>
    /\ stage[v] \in {"size", "open"} => mods[cur[v].name] = Nothing
                                        \/ mods[cur[v].name].sha = cur[v].sha
    /\ stage[v] = "send" => sent[v].mods.sha = cur[v].sha
    /\ stage[v] = "state" => states[want[v].state] \in {D!None, want[v].mods}
    /\ stage[v] = "mods" => mods[want[v].mods] \in {Nothing, sent[v].of}
    /\ stage[v] = "done" /\ asked[v] = "bundle" => sent[v].mods = sent[v].of

DownloadsInv ==
  StoreInv /\ RequestTypes /\ \A v \in Visitors : Coherent(v) /\ Reliable(v)

(* A set of natural numbers that is not empty has a least element.         *)
LEMMA Least ==
  ASSUME NEW nums, nums \subseteq Nat, nums # {}
  PROVE  D!Min(nums) \in nums
<1> DEFINE R == OpToRel(<, Nat)
<1>1. IsWellFoundedOn(R, Nat)
  BY NatLessThanWellFounded
<1>2. \A x \in Nat, y \in Nat : x < y => <<x, y>> \in R
  BY DEF OpToRel
<1> HIDE DEF R
<1>3. PICK m \in nums : \A k \in nums : ~ (<<k, m>> \in R)
  BY <1>1, WFMin
<1>4. ASSUME NEW k \in nums
      PROVE  m <= k
  <2>1. ~ (k < m)
    BY <1>2, <1>3
  <2> QED
    BY <2>1
<1> QED
  BY <1>4 DEF D!Min

(* The name an archive gets is free.                                       *)
LEMMA NextNameIsFree ==
  ASSUME NEW taken, NEW n \in D!NextArchiveName(taken)
  PROVE  n \in D!Numbers /\ n \notin taken
<1>1. ~ (D!Numbers \subseteq taken) /\ n = D!Min(D!Numbers \ taken)
  BY DEF D!NextArchiveName
<1>2. D!Numbers \ taken \subseteq Nat /\ D!Numbers \ taken # {}
  BY <1>1, PagesAssumption DEF D!Numbers
<1> QED
  BY <1>1, <1>2, Least

LEMMA NotANumber == D!None \notin D!Numbers
BY PagesAssumption DEF D!None, D!Numbers

(* A visitor's step, seen from the others and from the store.              *)
LEMMA StoreStays ==
  ASSUME StoreInv, UNCHANGED D!store
  PROVE  StoreInv'
BY DEF StoreInv, D!store

LEMMA OthersStay ==
  ASSUME NEW v \in Visitors, NEW w \in Visitors, w # v, Coherent(w), Reliable(w),
         UNCHANGED D!store, stage'[w] = stage[w], asked'[w] = asked[w], cur'[w] = cur[w],
         want'[w] = want[w], sent'[w] = sent[w], reused'[w] = reused[w], meta'[w] = meta[w]
  PROVE  Coherent(w)' /\ Reliable(w)'
BY DEF Coherent, Reliable, D!store

(* The request is over.                                                    *)
LEMMA EndsStep ==
  ASSUME DownloadsInv, NEW v \in Visitors, D!Ends(v), UNCHANGED D!store
  PROVE  DownloadsInv'
<1>a. StoreInv /\ RequestTypes /\ \A w \in Visitors : Coherent(w) /\ Reliable(w)
  BY DEF DownloadsInv
<1>1. RequestTypes'
  <2>1. 0 \in 0..Attempts
    BY PagesAssumption
  <2>2. /\ asked' \in [Visitors -> {"archive", "bundle"}]
        /\ stage' \in [Visitors -> {"idle", "size", "get", "open", "send", "verify",
                                    "state", "mods", "done"}]
    BY <1>a DEF RequestTypes, D!Ends, D!Goes
  <2>3. tries' \in [Visitors -> 0..Attempts] /\ reused' \in [Visitors -> BOOLEAN]
    BY <1>a, <2>1 DEF RequestTypes, D!Ends
  <2>4. /\ want' \in [Visitors -> [state : D!Numbers \cup {D!None}, mods : D!Numbers \cup {D!None}]]
        /\ sent' \in [Visitors -> [mods : Stored, of : Stored]]
    BY <1>a DEF RequestTypes, D!Ends, D!NoRequest, Stored
  <2>5. cur' = [w \in Visitors |-> cur'[w]] /\ meta' = [w \in Visitors |-> meta'[w]]
    BY <1>a DEF RequestTypes, D!Ends
  <2> QED
    BY <2>2, <2>3, <2>4, <2>5 DEF RequestTypes
<1>2. ASSUME NEW w \in Visitors
      PROVE  Coherent(w)' /\ Reliable(w)'
  <2>1. CASE w = v
    <3>1. stage'[v] = "idle" /\ asked'[v] = "archive"
      BY <1>a DEF RequestTypes, D!Ends, D!Goes
    <3> QED
      BY <2>1, <3>1 DEF Coherent, Reliable
  <2>2. CASE w # v
    <3>1. /\ stage'[w] = stage[w] /\ asked'[w] = asked[w] /\ cur'[w] = cur[w]
          /\ want'[w] = want[w] /\ sent'[w] = sent[w] /\ reused'[w] = reused[w]
          /\ meta'[w] = meta[w]
      BY <1>a, <2>2 DEF RequestTypes, D!Ends, D!Goes
    <3> QED
      BY <1>a, <2>2, <3>1, OthersStay
  <2> QED
    BY <2>1, <2>2
<1> QED
  BY <1>a, <1>1, <1>2, StoreStays DEF DownloadsInv

(* A step of v's request that leaves the store alone.                      *)
Only(v) ==
  /\ UNCHANGED D!store
  /\ \A w \in Visitors \ {v} :
       /\ stage'[w] = stage[w] /\ asked'[w] = asked[w] /\ cur'[w] = cur[w]
       /\ want'[w] = want[w] /\ sent'[w] = sent[w] /\ reused'[w] = reused[w]
       /\ meta'[w] = meta[w]

LEMMA OnlyStep ==
  ASSUME DownloadsInv, NEW v \in Visitors, Only(v), RequestTypes', Coherent(v)', Reliable(v)'
  PROVE  DownloadsInv'
<1>1. StoreInv'
  BY StoreStays DEF DownloadsInv, Only
<1>2. ASSUME NEW w \in Visitors, w # v
      PROVE  Coherent(w)' /\ Reliable(w)'
  <2>1. Coherent(w) /\ Reliable(w)
    BY DEF DownloadsInv
  <2> QED
    BY <1>2, <2>1, OthersStay DEF Only
<1> QED
  BY <1>1, <1>2 DEF DownloadsInv

(* GET of the announcement and of the archive, and the client's retries.   *)
LEMMA ArchiveStep ==
  ASSUME DownloadsInv, NEW v \in Visitors,
         \/ D!ReadCurrent(v, "idle", "size")
         \/ D!Announce(v)
         \/ D!ReadCurrent(v, "get", "open")
         \/ D!OpenArchive(v)
         \/ D!Retry(v)
         \/ D!Receive(v)
         \/ D!Verify(v)
  PROVE  DownloadsInv'
<1>a. StoreInv /\ RequestTypes /\ \A w \in Visitors : Coherent(w) /\ Reliable(w)
  BY DEF DownloadsInv
<1>b. Coherent(v) /\ Reliable(v)
  BY <1>a
<1>c. SUFFICES ASSUME ~ (D!Ends(v) /\ UNCHANGED D!store)
               PROVE  DownloadsInv'
  BY EndsStep
<1>1. ASSUME NEW from \in {"idle", "get"}, NEW to \in {"size", "open"},
             D!ReadCurrent(v, from, to)
      PROVE  DownloadsInv'
  <2>1. RequestTypes'
    BY <1>a, <1>1 DEF RequestTypes, D!ReadCurrent, D!Goes
  <2>2. Only(v)
    BY <1>a, <1>1 DEF RequestTypes, D!ReadCurrent, D!Goes, Only
  <2>3. /\ cur'[v] = current /\ reused'[v] = FALSE /\ stage'[v] = to /\ asked'[v] = "archive"
        /\ mods' = mods
    BY <1>a, <1>1 DEF RequestTypes, D!ReadCurrent, D!Goes, D!store
  <2>4. Coherent(v)' /\ Reliable(v)'
    BY <1>a, <2>3 DEF StoreInv, Coherent, Reliable
  <2> QED
    BY <2>1, <2>2, <2>4, OnlyStep
<1>2. CASE D!Announce(v)
  <2>1. /\ stage[v] = "size" /\ D!Goes(v, "get")
        /\ meta' = [meta EXCEPT ![v] = [sha |-> cur[v].sha, size |-> mods[cur[v].name].size]]
        /\ UNCHANGED <<asked, cur, want, sent, reused, tries>> /\ UNCHANGED D!store
    BY <1>c, <1>2 DEF D!Announce
  <2>2. RequestTypes'
    BY <1>a, <2>1 DEF RequestTypes, D!Goes
  <2>3. Only(v)
    BY <1>a, <2>1 DEF RequestTypes, D!Goes, Only
  <2>4. stage'[v] = "get" /\ asked'[v] = "archive"
    BY <1>a, <1>b, <2>1 DEF RequestTypes, D!Goes, Coherent
  <2>5. Coherent(v)' /\ Reliable(v)'
    BY <2>4 DEF Coherent, Reliable
  <2> QED
    BY <2>2, <2>3, <2>5, OnlyStep
<1>3. CASE D!OpenArchive(v)
  <2>1. /\ stage[v] = "open" /\ D!Goes(v, "send") /\ mods[cur[v].name] # Nothing
        /\ sent' = [sent EXCEPT ![v].mods = mods[cur[v].name]]
        /\ UNCHANGED <<asked, cur, want, reused, meta, tries>> /\ UNCHANGED D!store
    BY <1>c, <1>3 DEF D!OpenArchive
  <2>2. asked[v] = "archive" /\ cur[v].name \in D!Numbers /\ mods[cur[v].name] \in Stored
        /\ (~reused[v] => mods[cur[v].name].sha = cur[v].sha)
    BY <1>a, <1>b, <2>1 DEF StoreInv, Coherent, Reliable
  <2>3. RequestTypes'
    BY <1>a, <2>1, <2>2 DEF RequestTypes, D!Goes
  <2>4. Only(v)
    BY <1>a, <2>1 DEF RequestTypes, D!Goes, Only
  <2>5. stage'[v] = "send" /\ asked'[v] = "archive" /\ sent'[v].mods = mods[cur[v].name]
    BY <1>a, <2>1, <2>2 DEF RequestTypes, D!Goes
  <2>6. Coherent(v)' /\ Reliable(v)'
    BY <2>1, <2>2, <2>5 DEF Coherent, Reliable
  <2> QED
    BY <2>3, <2>4, <2>6, OnlyStep
<1>4. CASE D!Retry(v)
  <2>1. /\ stage[v] \in {"open", "send"} /\ D!Goes(v, "get") /\ ~ (tries[v] + 1 >= Attempts)
        /\ tries' = [tries EXCEPT ![v] = @ + 1]
        /\ sent' = [sent EXCEPT ![v] = D!NoRequest.sent]
        /\ UNCHANGED <<asked, cur, want, reused, meta>> /\ UNCHANGED D!store
    BY <1>c, <1>4 DEF D!Retry
  <2>2. asked[v] = "archive"
    BY <1>b, <2>1 DEF Coherent
  <2>3. tries[v] + 1 \in 0..Attempts
    BY <1>a, <2>1, PagesAssumption DEF RequestTypes
  <2>4. RequestTypes'
    BY <1>a, <2>1, <2>3 DEF RequestTypes, D!Goes, D!NoRequest, Stored
  <2>5. Only(v)
    BY <1>a, <2>1 DEF RequestTypes, D!Goes, Only
  <2>6. stage'[v] = "get" /\ asked'[v] = "archive"
    BY <1>a, <2>1, <2>2 DEF RequestTypes, D!Goes
  <2>7. Coherent(v)' /\ Reliable(v)'
    BY <2>6 DEF Coherent, Reliable
  <2> QED
    BY <2>4, <2>5, <2>7, OnlyStep
<1>5. CASE D!Receive(v) \/ D!Verify(v)
  <2>1. /\ \/ stage[v] = "send" /\ D!Goes(v, "verify")
           \/ stage[v] = "verify" /\ D!Goes(v, "done") /\ sent[v].mods.sha = meta[v].sha
        /\ UNCHANGED <<asked, cur, want, sent, reused, meta, tries>> /\ UNCHANGED D!store
    BY <1>c, <1>5 DEF D!Receive, D!Verify
  <2>2. asked[v] = "archive"
    BY <1>b, <2>1 DEF Coherent
  <2>3. RequestTypes'
    BY <1>a, <2>1 DEF RequestTypes, D!Goes
  <2>4. Only(v)
    BY <1>a, <2>1 DEF RequestTypes, D!Goes, Only
  <2>5. \/ stage'[v] = "verify"
        \/ stage'[v] = "done" /\ sent'[v].mods.sha = meta'[v].sha
    BY <1>a, <2>1 DEF RequestTypes, D!Goes
  <2>6. Coherent(v)' /\ Reliable(v)'
    BY <2>1, <2>2, <2>5 DEF Coherent, Reliable
  <2> QED
    BY <2>3, <2>4, <2>6, OnlyStep
<1> QED
  BY <1>1, <1>2, <1>3, <1>4, <1>5

(* The bundle of a snapshot and its pack.                                  *)
LEMMA BundleStep ==
  ASSUME DownloadsInv, NEW v \in Visitors,
         D!ValidateState(v) \/ D!OpenState(v) \/ D!OpenMods(v) \/ D!Done(v)
  PROVE  DownloadsInv'
<1>a. StoreInv /\ RequestTypes /\ \A w \in Visitors : Coherent(w) /\ Reliable(w)
  BY DEF DownloadsInv
<1>b. Coherent(v) /\ Reliable(v)
  BY <1>a
<1>c. SUFFICES ASSUME ~ (D!Ends(v) /\ UNCHANGED D!store)
               PROVE  DownloadsInv'
  BY EndsStep
<1>1. CASE D!ValidateState(v)
  <2>1. PICK s \in D!TakenStates : want' = [want EXCEPT ![v] = [state |-> s, mods |-> states[s]]]
    BY <1>1 DEF D!ValidateState
  <2>2. /\ asked' = [asked EXCEPT ![v] = "bundle"] /\ D!Goes(v, "state")
        /\ UNCHANGED <<cur, sent, reused, meta, tries>> /\ UNCHANGED D!store
    BY <1>1 DEF D!ValidateState
  <2>3. s \in D!Numbers /\ states[s] \in D!Numbers
    BY <1>a, <2>1 DEF D!TakenStates, StoreInv
  <2>4. RequestTypes'
    BY <1>a, <2>1, <2>2, <2>3 DEF RequestTypes, D!Goes
  <2>5. Only(v)
    BY <1>a, <2>1, <2>2 DEF RequestTypes, D!Goes, Only
  <2>6. /\ stage'[v] = "state" /\ asked'[v] = "bundle"
        /\ want'[v].state = s /\ want'[v].mods = states[s] /\ states' = states
    BY <1>a, <2>1, <2>2 DEF RequestTypes, D!Goes, D!store
  <2>7. Coherent(v)' /\ Reliable(v)'
    BY <2>3, <2>6 DEF Coherent, Reliable
  <2> QED
    BY <2>4, <2>5, <2>7, OnlyStep
<1>2. CASE D!OpenState(v)
  <2>1. /\ stage[v] = "state" /\ D!Goes(v, "mods") /\ states[want[v].state] # D!None
        /\ sent' = [sent EXCEPT ![v].of = holds[want[v].state]]
        /\ UNCHANGED <<asked, cur, want, reused, meta, tries>> /\ UNCHANGED D!store
    BY <1>c, <1>2 DEF D!OpenState
  <2>2. /\ asked[v] = "bundle" /\ want[v].state \in D!Numbers /\ want[v].mods \in D!Numbers
        /\ holds[want[v].state] \in Stored
        /\ ~reused[v] => mods[want[v].mods] = holds[want[v].state]
    BY <1>a, <1>b, <2>1 DEF StoreInv, Coherent, Reliable
  <2>3. RequestTypes'
    BY <1>a, <2>1, <2>2 DEF RequestTypes, D!Goes
  <2>4. Only(v)
    BY <1>a, <2>1 DEF RequestTypes, D!Goes, Only
  <2>5. /\ stage'[v] = "mods" /\ asked'[v] = "bundle" /\ sent'[v].of = holds[want[v].state]
        /\ want'[v] = want[v] /\ reused'[v] = reused[v] /\ mods' = mods
    BY <1>a, <2>1, <2>2 DEF RequestTypes, D!Goes, D!store
  <2>6. Coherent(v)' /\ Reliable(v)'
    BY <2>2, <2>5 DEF Coherent, Reliable
  <2> QED
    BY <2>3, <2>4, <2>6, OnlyStep
<1>3. CASE D!OpenMods(v)
  <2>1. /\ stage[v] = "mods" /\ D!Goes(v, "done") /\ mods[want[v].mods] # Nothing
        /\ sent' = [sent EXCEPT ![v].mods = mods[want[v].mods]]
        /\ UNCHANGED <<asked, cur, want, reused, meta, tries>> /\ UNCHANGED D!store
    BY <1>c, <1>3 DEF D!OpenMods
  <2>2. /\ asked[v] = "bundle" /\ want[v].mods \in D!Numbers
        /\ mods[want[v].mods] \in Stored
        /\ ~reused[v] => mods[want[v].mods] = sent[v].of
    BY <1>a, <1>b, <2>1 DEF StoreInv, Coherent, Reliable
  <2>3. RequestTypes'
    BY <1>a, <2>1, <2>2 DEF RequestTypes, D!Goes
  <2>4. Only(v)
    BY <1>a, <2>1 DEF RequestTypes, D!Goes, Only
  <2>5. /\ stage'[v] = "done" /\ asked'[v] = "bundle" /\ reused'[v] = reused[v]
        /\ sent'[v].mods = mods[want[v].mods] /\ sent'[v].of = sent[v].of
    BY <1>a, <2>1, <2>2 DEF RequestTypes, D!Goes
  <2>6. Coherent(v)' /\ Reliable(v)'
    BY <2>2, <2>5 DEF Coherent, Reliable
  <2> QED
    BY <2>3, <2>4, <2>6, OnlyStep
<1>4. CASE D!Done(v)
  BY <1>c, <1>4 DEF D!Done
<1> QED
  BY <1>1, <1>2, <1>3, <1>4

(* The ops commands.                                                       *)
LEMMA OpsStep ==
  ASSUME DownloadsInv, D!Import \/ D!Deploy \/ D!Backup \/ D!PruneState \/ D!PruneMods
  PROVE  DownloadsInv'
<1>a. StoreInv /\ RequestTypes /\ \A w \in Visitors : Coherent(w) /\ Reliable(w)
  BY DEF DownloadsInv
<1>b. UNCHANGED <<asked, stage, cur, want, sent, meta, tries>>
  BY DEF D!Import, D!Deploy, D!Backup, D!PruneState, D!PruneMods, D!request
<1>c. D!None \notin D!Numbers
  BY NotANumber
<1>1. reused' \in [Visitors -> BOOLEAN]
  BY <1>a DEF RequestTypes, D!Import, D!Deploy, D!Backup, D!PruneState, D!PruneMods, D!Reuses
<1>2. RequestTypes'
  BY <1>a, <1>b, <1>1 DEF RequestTypes
<1>3. \A w \in Visitors : Coherent(w)'
  BY <1>a, <1>b DEF Coherent
<1>4. StoreInv' /\ \A w \in Visitors : Reliable(w)'
  <2>1. CASE D!Import
    <3>1. PICK n \in D!NextArchiveName(D!TakenMods), p \in MCPacks :
            mods' = [mods EXCEPT ![n] = p] /\ D!Reuses(TRUE, n)
      BY <2>1 DEF D!Import
    <3>2. n \in D!Numbers /\ mods[n] = Nothing /\ UNCHANGED <<states, holds, current>>
      BY <2>1, NextNameIsFree DEF D!TakenMods, D!Import
    <3>3. StoreInv'
      BY <1>a, <1>c, <3>1, <3>2 DEF StoreInv, Stored
    <3>4. ASSUME NEW w \in Visitors, ~reused'[w]
          PROVE  /\ ~reused[w]
                 /\ stage[w] \in {"size", "open"} => cur[w].name # n
                 /\ asked[w] = "bundle" => want[w].mods # n
      BY <3>1, <3>4 DEF D!Reuses
    <3>5. \A w \in Visitors : Reliable(w)'
      BY <1>a, <1>b, <3>1, <3>2, <3>4 DEF Reliable, Coherent, StoreInv
    <3> QED
      BY <3>3, <3>5
  <2>2. CASE D!Deploy
    <3>1. PICK n \in D!TakenMods : current' = [name |-> n, sha |-> mods[n].sha]
      BY <2>2 DEF D!Deploy
    <3>2. UNCHANGED <<mods, states, holds, reused>> /\ n \in D!Numbers /\ mods[n] # Nothing
      BY <2>2, <3>1 DEF D!Deploy, D!TakenMods
    <3>3. StoreInv'
      BY <1>a, <3>1, <3>2 DEF StoreInv
    <3> QED
      BY <1>a, <1>b, <3>2, <3>3 DEF Reliable
  <2>3. CASE D!Backup
    <3>1. PICK n \in D!NextArchiveName(D!TakenStates) :
            /\ states' = [states EXCEPT ![n] = current.name]
            /\ holds' = [holds EXCEPT ![n] = mods[current.name]]
            /\ D!Reuses(FALSE, n)
      BY <2>3 DEF D!Backup
    <3>2. n \in D!Numbers /\ states[n] = D!None /\ UNCHANGED <<mods, current>>
      BY <2>3, NextNameIsFree DEF D!TakenStates, D!Backup
    <3>3. StoreInv'
      BY <1>a, <1>c, <3>1, <3>2 DEF StoreInv
    <3>4. ASSUME NEW w \in Visitors, ~reused'[w]
          PROVE  ~reused[w] /\ (asked[w] = "bundle" => want[w].state # n)
      BY <3>1, <3>4 DEF D!Reuses
    <3>5. \A w \in Visitors : Reliable(w)'
      BY <1>a, <1>b, <3>1, <3>2, <3>4 DEF Reliable, Coherent, StoreInv
    <3> QED
      BY <3>3, <3>5
  <2>4. CASE D!PruneState
    <3>1. PICK s \in D!TakenStates : /\ states' = [states EXCEPT ![s] = D!None]
                                     /\ holds' = [holds EXCEPT ![s] = Nothing]
      BY <2>4 DEF D!PruneState
    <3>2. UNCHANGED <<mods, current, reused>> /\ s \in D!Numbers
      BY <2>4, <3>1 DEF D!PruneState, D!TakenStates
    <3>3. StoreInv'
      BY <1>a, <1>c, <3>1, <3>2 DEF StoreInv, Stored
    <3>4. \A w \in Visitors : Reliable(w)'
      BY <1>a, <1>b, <3>1, <3>2 DEF Reliable, Coherent, StoreInv
    <3> QED
      BY <3>3, <3>4
  <2>5. CASE D!PruneMods
    <3>1. PICK n \in D!TakenMods \ D!referenced : mods' = [mods EXCEPT ![n] = Nothing]
      BY <2>5 DEF D!PruneMods
    <3>2. /\ UNCHANGED <<states, holds, current, reused>> /\ n \in D!Numbers
          /\ n # current.name
          /\ \A s \in D!Numbers : states[s] # D!None => states[s] # n
      BY <2>5, <3>1 DEF D!PruneMods, D!TakenMods, D!TakenStates, D!referenced
    <3>3. StoreInv'
      BY <1>a, <1>c, <3>1, <3>2 DEF StoreInv, Stored
    <3>4. \A w \in Visitors : Reliable(w)'
      BY <1>a, <1>b, <3>1, <3>2 DEF Reliable, Coherent, StoreInv
    <3> QED
      BY <3>3, <3>4
  <2> QED
    BY <2>1, <2>2, <2>3, <2>4, <2>5
<1> QED
  BY <1>2, <1>3, <1>4 DEF DownloadsInv

LEMMA DownloadsStutter ==
  ASSUME DownloadsInv, UNCHANGED downloadVars
  PROVE  DownloadsInv'
BY DEF DownloadsInv, StoreInv, RequestTypes, Coherent, Reliable, downloadVars

LEMMA DownloadsInit ==
  ASSUME D!Init
  PROVE  DownloadsInv
<1>1. PICK p \in MCPacks : /\ mods = [n \in D!Numbers |-> IF n = 0 THEN p ELSE Nothing]
                           /\ current = [name |-> 0, sha |-> p.sha]
  BY DEF D!Init
<1>2. /\ states = [n \in D!Numbers |-> D!None] /\ holds = [n \in D!Numbers |-> Nothing]
      /\ asked = [v \in Visitors |-> "archive"] /\ stage = [v \in Visitors |-> "idle"]
      /\ cur = [v \in Visitors |-> D!NoRequest.cur] /\ want = [v \in Visitors |-> D!NoRequest.want]
      /\ sent = [v \in Visitors |-> D!NoRequest.sent] /\ reused = [v \in Visitors |-> FALSE]
      /\ meta = [v \in Visitors |-> D!NoRequest.meta] /\ tries = [v \in Visitors |-> 0]
  BY DEF D!Init
<1>3. 0 \in D!Numbers /\ 0 \in 0..Attempts
  BY PagesAssumption DEF D!Numbers
<1>4. p # Nothing
  BY PagesAssumption
<1>5. StoreInv
  BY <1>1, <1>2, <1>3, <1>4 DEF StoreInv, Stored
<1>6. RequestTypes
  <2>1. /\ D!NoRequest.want \in [state : D!Numbers \cup {D!None}, mods : D!Numbers \cup {D!None}]
        /\ D!NoRequest.sent \in [mods : Stored, of : Stored]
    BY DEF D!NoRequest, Stored
  <2>2. cur = [v \in Visitors |-> cur[v]] /\ meta = [v \in Visitors |-> meta[v]]
    BY <1>2
  <2> QED
    BY <1>2, <1>3, <2>1, <2>2 DEF RequestTypes
<1>7. \A v \in Visitors : Coherent(v) /\ Reliable(v)
  BY <1>2 DEF Coherent, Reliable
<1> QED
  BY <1>5, <1>6, <1>7 DEF DownloadsInv

(* Whatever is deployed, imported, backed up and pruned between the reads  *)
(* of a request, with any number of visitors and of names: the archive a   *)
(* visitor gets is the one its answer names unless its name was given to   *)
(* another archive meanwhile, a bundle is the snapshot's pack, and a pack  *)
(* that the client keeps is the announced one (public.go, serverapi).      *)
THEOREM PanelDownloaded == PagesSpec => []DownloadsMatch
<1> DEFINE Inv == component = "downloads" => DownloadsInv
<1>1. PagesInit => Inv
  BY DownloadsInit DEF PagesInit
<1>2. Inv /\ [PagesNext]_pagesVars => Inv'
  <2>1. ASSUME DownloadsInv, D!Next
        PROVE  DownloadsInv'
    BY <2>1, ArchiveStep, BundleStep, OpsStep DEF D!Next
  <2> QED
    BY <2>1, DownloadsStutter DEF PagesNext, pagesVars
<1>3. Inv => DownloadsMatch
  <2>1. ASSUME DownloadsInv
        PROVE  D!TypeOK /\ D!ServedAsNamed /\ D!KeptIsAnnounced
    <3>1. D!TypeOK
      BY <2>1 DEF DownloadsInv, StoreInv, RequestTypes, D!TypeOK, Stored
    <3>2. D!ServedAsNamed
      BY <2>1 DEF DownloadsInv, Reliable, D!ServedAsNamed
    <3>3. D!KeptIsAnnounced
      BY <2>1 DEF DownloadsInv, Coherent, D!KeptIsAnnounced
    <3> QED
      BY <3>1, <3>2, <3>3
  <2> QED
    BY <2>1 DEF DownloadsMatch
<1> QED
  BY <1>1, <1>2, <1>3, PTL DEF PagesSpec

-----------------------------------------------------------------------------
(***************************************************************************)
(* The settings pages (PanelSettings).                                     *)
(***************************************************************************)
Lists == {"config", "bans", "ban", "unban"}
AllKinds == Lists \cup {"staff", "start", "stop", "restart", "look"}
Steps == {"idle", "gate", "doctor", "read", "run", "reread", "show", "isactive", "done"}
Before == {"idle", "gate", "doctor", "read", "show", "isactive"}

SettingsTypes ==
  /\ page \in {"config", "players", "staff", "server"} /\ lists \in S!Forms
  /\ rank \in [Names -> {0, 1, S!BadJSON}] /\ unit \in S!ActiveStates
  /\ host \in {"ok", "error"} /\ brokenFor \in 0..(MaxLag + 1)
  /\ doctor \in [valid : BOOLEAN, age : 0..2, status : {"ok", "error", "none"}]
  /\ doctorMu \in Requests \cup {Nobody}
  /\ pc \in [Requests -> Steps] /\ kind \in [Requests -> AllKinds]
  /\ posted \in [Requests -> S!Forms] /\ snap \in [Requests -> S!Forms]
  /\ todo \in [Requests -> SUBSET S!Keys]
  /\ did \in [Requests -> BOOLEAN] /\ dirty \in [Requests -> BOOLEAN]
  /\ name = [r \in Requests |-> name[r]] /\ answer = [r \in Requests |-> answer[r]]
  /\ shown = [r \in Requests |-> shown[r]] /\ had = [r \in Requests |-> had[r]]

(* One request runs ops doctor, and a good report is as old as the fault.  *)
GateInv ==
  /\ \A r \in Requests : pc[r] = "doctor" <=> doctorMu = r
  /\ host = "ok" => brokenFor = 0
  /\ doctor.valid /\ doctor.status = "ok" /\ doctor.age < 2 => brokenFor <= doctor.age + 1
  /\ doctorMu # Nobody =>
       ~doctor.valid /\ doctor.age <= 1 /\ (doctor.status = "ok" => brokenFor <= doctor.age)

(* Where a request is in its handler, and what it has of its form.         *)
StepInv(r) ==
  /\ pc[r] \in {"show", "isactive"} => kind[r] = "look"
  /\ pc[r] \in {"gate", "doctor", "read", "run"} => kind[r] # "look"
  /\ pc[r] = "reread" => kind[r] = "config" /\ todo[r] = {} /\ did[r]
  /\ pc[r] = "read" => kind[r] \in Lists
  /\ pc[r] = "run" => (kind[r] \in Lists <=> todo[r] # {})
  /\ pc[r] \in Before => todo[r] = {} /\ ~did[r]
  /\ pc[r] = "run" /\ kind[r] \notin Lists => ~did[r]
  /\ pc[r] # "idle" /\ kind[r] \in {"ban", "unban", "staff"} => name[r] \in Names

(* An undisturbed form: the keys it has written, and those it has not.     *)
FormInv(r) ==
  kind[r] \in Lists /\ ~dirty[r] =>
    /\ pc[r] = "run" => \A k \in S!Keys :
         /\ k \notin todo[r] => lists[k] = posted[r][k]
         /\ \A j \in todo[r] : j <= k => lists[k] = snap[r][k]
    /\ pc[r] = "reread" => lists = posted[r]
    /\ pc[r] = "done" =>
         /\ answer[r].status \in {200, 303} \/ answer[r].notice = "saved" =>
              lists = posted[r]
         /\ \A j \in todo[r], k \in S!Keys : (\A i \in todo[r] : j <= i) =>
              /\ k < j => lists[k] = posted[r][k]
              /\ k > j => lists[k] = snap[r][k]

EffectInv(r) ==
  pc[r] = "done" /\ kind[r] # "look" =>
    /\ answer[r].notice = "saved" => did[r]
    /\ answer[r].notice = "unchanged" => ~did[r]
    /\ answer[r].notice = "none" /\ answer[r].status \in {303, 400, 404, 409, 422} => ~did[r]

SeenInv(r) ==
  kind[r] = "look" =>
    /\ pc[r] \in {"show", "isactive"} => unit \in had[r]
    /\ pc[r] = "isactive" => shown[r] \in had[r] /\ shown[r] \in S!ActiveStates
    /\ pc[r] = "done" /\ load = "loaded" =>
         /\ shown[r] = "running" => "active" \in had[r]
         /\ shown[r] = "stopped" => had[r] # {"active"}
         /\ shown[r] = "unhealthy" => "failed" \in had[r]
         /\ S!CanStop(shown[r]) => had[r] \cap {"active", "activating"} # {}

RequestInv(r) == StepInv(r) /\ FormInv(r) /\ EffectInv(r) /\ SeenInv(r)
SettingsInv == SettingsTypes /\ GateInv /\ \A r \in Requests : RequestInv(r)

(* What each exit status becomes.                                          *)
LEMMA Statuses ==
  /\ S!adminFailure(1) = 500 /\ S!adminFailure(3) = 404 /\ S!adminFailure(4) = 409
  /\ S!adminFailure(6) = 503 /\ S!adminFailure(9) = 422
BY DEF S!adminFailure, S!opsHTTPStatusForExit

(* An answer of the client is no better than the run was.                  *)
Honest(run) ==
  /\ run.done \in BOOLEAN
  /\ S!call(run) = 0 => run.done
  /\ S!call(run) # 0 =>
       /\ S!adminFailure(S!call(run)) \notin {200, 303}
       /\ S!adminFailure(S!call(run)) \in {400, 404, 409, 422} => ~run.done

LEMMA RunsAreHonest ==
  ASSUME NEW run,
         \/ run \in S!setRuns
         \/ \E r \in Requests : run \in S!staffRuns(r)
         \/ run \in S!controlRuns
         \/ run \in S!readRuns
  PROVE  Honest(run)
<1>1. \/ run = S!Run(0, "success", FALSE, TRUE)
      \/ \E e \in {1, 3, 4, 6, 9} : run = S!Run(e, "failure", FALSE, FALSE)
      \/ \E e \in {1, 6}, d \in BOOLEAN : run = S!Run(e, "failure", FALSE, d)
      \/ run = S!Run(0, "unusable", FALSE, TRUE)
      \/ \E d \in BOOLEAN : run = S!Run(0, "success", TRUE, d)
  <2>1. CASE run \in S!setRuns
    BY <2>1 DEF S!setRuns, S!Succeeds, S!Refuses, S!Breaks, S!Lost
  <2>2. CASE \E r \in Requests : run \in S!staffRuns(r)
    BY <2>2 DEF S!staffRuns, S!Succeeds, S!Refuses, S!Breaks, S!Lost
  <2>3. CASE run \in S!controlRuns
    BY <2>3 DEF S!controlRuns, S!Succeeds, S!Refuses, S!Breaks, S!Lost
  <2>4. CASE run \in S!readRuns
    BY <2>4 DEF S!readRuns, S!Succeeds, S!Refuses, S!Lost
  <2> QED
    BY <2>1, <2>2, <2>3, <2>4
<1>2. CASE run = S!Run(0, "success", FALSE, TRUE)
  BY <1>2 DEF Honest, S!call, S!Decodes, S!Run
<1>3. ASSUME NEW e \in {1, 3, 4, 6, 9}, run = S!Run(e, "failure", FALSE, FALSE)
      PROVE  Honest(run)
  BY <1>3, Statuses DEF Honest, S!call, S!Decodes, S!Run
<1>4. ASSUME NEW e \in {1, 6}, NEW d \in BOOLEAN, run = S!Run(e, "failure", FALSE, d)
      PROVE  Honest(run)
  BY <1>4, Statuses DEF Honest, S!call, S!Decodes, S!Run
<1>5. CASE run = S!Run(0, "unusable", FALSE, TRUE)
  BY <1>5, Statuses DEF Honest, S!call, S!Decodes, S!Run
<1>6. ASSUME NEW d \in BOOLEAN, run = S!Run(0, "success", TRUE, d)
      PROVE  Honest(run)
  BY <1>6, Statuses DEF Honest, S!call, S!Decodes, S!Run
<1> QED
  BY <1>1, <1>2, <1>3, <1>4, <1>5, <1>6

(* The status of a page agrees with the error code of the JSON answers.    *)
LEMMA CodesAgree ==
  ASSUME NEW e \in DOMAIN S!Codes
  PROVE  S!adminFailure(e) = S!OpsHTTPStatusForCode(S!adminErrorCode(e))
<1>1. e \in 1..12
  BY DEF S!Codes
<1>2. S!adminErrorCode(e) = S!Codes[e]
  BY DEF S!adminErrorCode, S!ErrorCode
<1>3. /\ e \in {1} => S!Codes[e] = "internal"
      /\ e = 2 => S!Codes[e] = "invalid_argument"
      /\ e = 3 => S!Codes[e] = "not_found"
      /\ e = 4 => S!Codes[e] = "locked"
      /\ e = 5 => S!Codes[e] = "no_space"
      /\ e = 6 => S!Codes[e] = "service_unavailable"
      /\ e = 7 => S!Codes[e] = "archive_invalid"
      /\ e = 8 => S!Codes[e] = "unsafe_path"
      /\ e = 9 => S!Codes[e] = "config_invalid"
      /\ e = 10 => S!Codes[e] = "checks_failed"
      /\ e = 11 => S!Codes[e] = "plugin_in_use"
      /\ e = 12 => S!Codes[e] = "archive_in_use"
  BY <1>1 DEF S!Codes
<1>4. e = 1 \/ e = 2 \/ e = 3 \/ e = 4 \/ e = 5 \/ e = 6 \/ e = 7 \/ e = 8 \/ e = 9 \/ e = 10
      \/ e = 11 \/ e = 12
  BY <1>1
<1> QED
  BY <1>2, <1>3, <1>4 DEF S!adminFailure, S!opsHTTPStatusForExit, S!OpsHTTPStatusForCode

(* The less of two numbers.                                                *)
LEMMA LessOfTwo ==
  ASSUME NEW a \in Nat, NEW b \in Nat
  PROVE  S!Min({a, b}) = IF a <= b THEN a ELSE b
BY DEF S!Min

LEMMA LeastKey ==
  ASSUME NEW keys \in SUBSET S!Keys, keys # {}
  PROVE  S!Min(keys) \in keys /\ \A k \in keys : S!Min(keys) <= k
<1>1. keys = {1} \/ keys = {2} \/ keys = {1, 2}
  BY DEF S!Keys
<1>2. \E m \in keys : \A k \in keys : m <= k
  BY <1>1
<1> QED
  BY <1>2 DEF S!Min

(* What a step leaves of a request.                                        *)
Same(q) ==
  /\ pc'[q] = pc[q] /\ kind'[q] = kind[q] /\ posted'[q] = posted[q] /\ name'[q] = name[q]
  /\ snap'[q] = snap[q] /\ todo'[q] = todo[q] /\ answer'[q] = answer[q] /\ did'[q] = did[q]
  /\ shown'[q] = shown[q]

(* What another's command does to it: its form no longer counts as         *)
(* undisturbed, and the unit's new state is one it may have seen.          *)
Told(q) ==
  /\ dirty'[q] \/ pc[q] = "idle" \/ (lists' = lists /\ (dirty[q] => dirty'[q]))
  /\ load' = load
  /\ \/ unit' = unit /\ had'[q] = had[q]
     \/ had'[q] = IF pc[q] \in {"show", "isactive"} THEN had[q] \cup {unit'} ELSE had[q]

LEMMA OtherRequest ==
  ASSUME NEW q \in Requests, RequestInv(q), Same(q), Told(q), dirty[q] \in BOOLEAN,
         dirty'[q] \in BOOLEAN
  PROVE  RequestInv(q)'
<1>1. StepInv(q)' /\ EffectInv(q)'
  BY DEF RequestInv, StepInv, EffectInv, Same
<1>2. FormInv(q)'
  <2>1. CASE dirty'[q] \/ pc[q] = "idle"
    BY <2>1 DEF Same, FormInv
  <2>2. CASE lists' = lists /\ (dirty[q] => dirty'[q])
    BY <2>2 DEF RequestInv, Same, FormInv
  <2> QED
    BY <2>1, <2>2 DEF Told
<1>3. SeenInv(q)'
  <2>1. CASE pc[q] \in {"show", "isactive"}
    BY <2>1 DEF RequestInv, SeenInv, Same, Told
  <2>2. CASE pc[q] \notin {"show", "isactive"}
    <3>1. had'[q] = had[q] /\ load' = load
      BY <2>2 DEF Told
    <3> QED
      BY <2>2, <3>1 DEF RequestInv, SeenInv, Same
  <2> QED
    BY <2>1, <2>2
<1> QED
  BY <1>1, <1>2, <1>3 DEF RequestInv

LEMMA CloseStep ==
  ASSUME SettingsInv, NEW r \in Requests, SettingsTypes', GateInv', RequestInv(r)',
         \A q \in Requests \ {r} : Same(q) /\ Told(q)
  PROVE  SettingsInv'
<1>1. ASSUME NEW q \in Requests \ {r}
      PROVE  RequestInv(q)'
  <2>1. RequestInv(q) /\ dirty[q] \in BOOLEAN /\ dirty'[q] \in BOOLEAN
    BY DEF SettingsInv, SettingsTypes
  <2> QED
    BY <2>1, OtherRequest
<1> QED
  BY <1>1 DEF SettingsInv

(* Steps of one request that tell the others nothing.                      *)
Quiet(r) ==
  /\ UNCHANGED <<lists, load, unit>>
  /\ \A q \in Requests \ {r} : Same(q) /\ dirty'[q] = dirty[q] /\ had'[q] = had[q]

LEMMA QuietStep ==
  ASSUME SettingsInv, NEW r \in Requests, Quiet(r), SettingsTypes', RequestInv(r)',
         UNCHANGED S!gate, pc[r] # "doctor", pc'[r] # "doctor"
  PROVE  SettingsInv'
<1>1. GateInv'
  <2>1. \A q \in Requests : pc'[q] = "doctor" <=> pc[q] = "doctor"
    BY DEF Quiet, Same
  <2> QED
    BY <2>1 DEF SettingsInv, GateInv, S!gate
<1>2. \A q \in Requests \ {r} : Same(q) /\ Told(q)
  BY DEF Quiet, Told
<1> QED
  BY <1>1, <1>2, CloseStep

LEMMA FormTypes ==
  /\ [k \in S!Keys |-> {}] \in S!Forms /\ S!Posts \subseteq S!Forms
  /\ \A p \in {"config", "players", "staff", "server"} :
       S!Kinds[p] \subseteq AllKinds /\ "look" \in AllKinds
  /\ S!PlayerNames \in S!Keys
BY DEF S!Forms, S!Values, S!Posts, S!Kinds, AllKinds, Lists, S!PlayerNames, S!Keys

(* A request comes and goes.                                               *)
LEMMA BeginStep ==
  ASSUME SettingsInv, NEW r \in Requests, S!Begin(r)
  PROVE  SettingsInv'
<1>a. SettingsTypes /\ GateInv /\ RequestInv(r)
  BY DEF SettingsInv
<1>1. PICK k \in S!Kinds[page], f \in S!Posts \cup {[i \in S!Keys |-> {}]},
           n \in Names \cup {Nobody} :
        /\ kind' = [kind EXCEPT ![r] = k]
        /\ S!Goes(r, IF k = "look" THEN "show" ELSE "gate")
        /\ posted' = [posted EXCEPT ![r] = f]
        /\ name' = [name EXCEPT ![r] = n]
        /\ k \in {"ban", "unban", "staff"} => n \in Names
  BY DEF S!Begin
<1>2. /\ pc[r] = "idle"
      /\ had' = [had EXCEPT ![r] = IF kind'[r] = "look" THEN {unit} ELSE {}]
      /\ UNCHANGED <<page, lists, rank, load, unit, host, brokenFor, doctor, doctorMu,
                     snap, todo, did, dirty, shown>>
  BY DEF S!Begin, S!settings, S!gate
<1>3. k \in AllKinds /\ f \in S!Forms
  BY <1>a, FormTypes DEF SettingsTypes
<1>4. SettingsTypes'
  BY <1>a, <1>1, <1>2, <1>3 DEF SettingsTypes, S!Goes, Steps
<1>5. Quiet(r)
  BY <1>a, <1>1, <1>2 DEF SettingsTypes, Quiet, Same, S!Goes
<1>6. /\ pc'[r] = (IF k = "look" THEN "show" ELSE "gate") /\ kind'[r] = k
      /\ name'[r] = n /\ todo'[r] = {} /\ ~did'[r]
      /\ k = "look" => had'[r] = {unit} /\ unit' = unit
  BY <1>a, <1>1, <1>2, <1>3 DEF SettingsTypes, S!Goes, RequestInv, StepInv, Before
<1>7. RequestInv(r)'
  BY <1>1, <1>6 DEF RequestInv, StepInv, FormInv, EffectInv, SeenInv, Lists, Before
<1> QED
  BY <1>2, <1>4, <1>5, <1>6, <1>7, QuietStep DEF S!gate

LEMMA LeaveStep ==
  ASSUME SettingsInv, NEW r \in Requests, S!Leave(r)
  PROVE  SettingsInv'
<1>a. SettingsTypes /\ GateInv /\ RequestInv(r)
  BY DEF SettingsInv
<1>1. SettingsTypes'
  <2>1. /\ pc' \in [Requests -> Steps] /\ kind' \in [Requests -> AllKinds]
        /\ did' \in [Requests -> BOOLEAN] /\ dirty' \in [Requests -> BOOLEAN]
        /\ todo' \in [Requests -> SUBSET S!Keys]
    BY <1>a, FormTypes DEF SettingsTypes, S!Leave, Steps, AllKinds
  <2>2. posted' \in [Requests -> S!Forms] /\ snap' \in [Requests -> S!Forms]
    BY <1>a, FormTypes DEF SettingsTypes, S!Leave
  <2>3. /\ name' = [q \in Requests |-> name'[q]] /\ answer' = [q \in Requests |-> answer'[q]]
        /\ shown' = [q \in Requests |-> shown'[q]] /\ had' = [q \in Requests |-> had'[q]]
    BY <1>a DEF SettingsTypes, S!Leave
  <2> QED
    BY <1>a, <2>1, <2>2, <2>3 DEF SettingsTypes, S!Leave, S!settings, S!gate
<1>2. Quiet(r)
  BY <1>a DEF SettingsTypes, Quiet, Same, S!Leave, S!settings
<1>3. pc'[r] = "idle" /\ todo'[r] = {} /\ did'[r] = FALSE
  BY <1>a DEF SettingsTypes, S!Leave
<1>4. RequestInv(r)'
  BY <1>3 DEF RequestInv, StepInv, FormInv, EffectInv, SeenInv
<1> QED
  BY <1>1, <1>2, <1>3, <1>4, QuietStep DEF S!Leave

(* The gate lets a change through to its form or its command, or answers.  *)
LEMMA Verdict ==
  ASSUME SettingsTypes, NEW r \in Requests, RequestInv(r), pc[r] \in {"gate", "doctor"},
         NEW status, S!doctorMutationError(r, status),
         UNCHANGED <<page, lists, rank, load, unit, S!form, did, dirty, S!seen>>
  PROVE  /\ pc' \in [Requests -> Steps] /\ answer' = [q \in Requests |-> answer'[q]]
         /\ pc'[r] # "doctor" /\ RequestInv(r)' /\ Quiet(r)
<1>1. /\ \/ pc' = [pc EXCEPT ![r] = "done"] /\ S!Answered(r, 503, "none")
         \/ kind[r] \in Lists /\ pc' = [pc EXCEPT ![r] = "read"] /\ answer' = answer
         \/ kind[r] \notin Lists /\ pc' = [pc EXCEPT ![r] = "run"] /\ answer' = answer
  BY DEF S!doctorMutationError, S!Answered, S!Goes, S!Lists, S!Form, Lists
<1>2. pc' \in [Requests -> Steps] /\ answer' = [q \in Requests |-> answer'[q]]
  BY <1>1 DEF SettingsTypes, Steps, S!Answered
<1>3. \/ pc'[r] = "done" /\ answer'[r] = [status |-> 503, notice |-> "none"]
      \/ kind[r] \in Lists /\ pc'[r] = "read"
      \/ kind[r] \notin Lists /\ pc'[r] = "run"
  BY <1>1 DEF SettingsTypes, S!Answered
<1>4. /\ kind[r] # "look" /\ todo[r] = {} /\ ~did[r]
      /\ kind[r] \in {"ban", "unban", "staff"} => name[r] \in Names
  BY DEF RequestInv, StepInv, Before
<1>5. RequestInv(r)'
  <2>1. StepInv(r)'
    BY <1>3, <1>4 DEF StepInv, S!form, Before, Lists
  <2>2. FormInv(r)'
    BY <1>3, <1>4 DEF FormInv, S!form
  <2>3. EffectInv(r)' /\ SeenInv(r)'
    BY <1>3, <1>4 DEF EffectInv, SeenInv, S!form
  <2> QED
    BY <2>1, <2>2, <2>3 DEF RequestInv
<1>6. Quiet(r)
  BY <1>1 DEF SettingsTypes, Quiet, Same, S!Answered, S!form, S!seen
<1> QED
  BY <1>2, <1>3, <1>5, <1>6

LEMMA AskCachedStep ==
  ASSUME SettingsInv, NEW r \in Requests, S!AskCached(r)
  PROVE  SettingsInv'
<1>a. SettingsTypes /\ GateInv /\ RequestInv(r)
  BY DEF SettingsInv
<1>1. /\ pc[r] = "gate" /\ S!doctorMutationError(r, doctor.status)
      /\ UNCHANGED <<page, lists, rank, load, unit, S!form, did, dirty, S!seen>>
      /\ UNCHANGED S!gate
  BY DEF S!AskCached, S!settings
<1>2. /\ pc' \in [Requests -> Steps] /\ answer' = [q \in Requests |-> answer'[q]]
      /\ pc'[r] # "doctor" /\ RequestInv(r)' /\ Quiet(r)
  BY <1>a, <1>1, Verdict
<1>3. SettingsTypes'
  BY <1>a, <1>1, <1>2 DEF SettingsTypes, S!form, S!seen, S!gate
<1> QED
  BY <1>1, <1>2, <1>3, QuietStep

LEMMA StartDoctorStep ==
  ASSUME SettingsInv, NEW r \in Requests, S!StartDoctor(r)
  PROVE  SettingsInv'
<1>a. SettingsTypes /\ GateInv /\ RequestInv(r)
  BY DEF SettingsInv
<1>1. /\ pc[r] = "gate" /\ doctorMu = Nobody /\ doctorMu' = r
      /\ doctor' = [valid |-> FALSE, age |-> 0, status |-> host]
      /\ pc' = [pc EXCEPT ![r] = "doctor"]
      /\ UNCHANGED <<page, lists, rank, load, unit, host, brokenFor, kind, posted, name, snap,
                     todo, answer, did, dirty, shown, had>>
  BY DEF S!StartDoctor, S!settings, S!Goes, S!form, S!seen
<1>2. SettingsTypes'
  BY <1>a, <1>1 DEF SettingsTypes, Steps
<1>3. \A q \in Requests \ {r} : Same(q) /\ Told(q)
  BY <1>a, <1>1 DEF SettingsTypes, Same, Told
<1>4. pc'[r] = "doctor"
  BY <1>a, <1>1 DEF SettingsTypes
<1>5. RequestInv(r)'
  BY <1>a, <1>1, <1>4 DEF RequestInv, StepInv, FormInv, EffectInv, SeenInv, Before
<1>6. GateInv'
  <2>1. /\ doctor'.valid = FALSE /\ doctor'.age = 0 /\ doctor'.status = host
        /\ brokenFor' = brokenFor /\ host' = host
    BY <1>1
  <2>2. \A q \in Requests : pc'[q] = "doctor" <=> doctorMu' = q
    BY <1>a, <1>1, <1>3, <1>4, PagesAssumption DEF GateInv, Same
  <2> QED
    BY <1>a, <2>1, <2>2 DEF GateInv
<1> QED
  BY <1>2, <1>3, <1>5, <1>6, CloseStep

LEMMA EndDoctorStep ==
  ASSUME SettingsInv, NEW r \in Requests, S!EndDoctor(r)
  PROVE  SettingsInv'
<1>a. SettingsTypes /\ GateInv /\ RequestInv(r)
  BY DEF SettingsInv
<1>1. /\ pc[r] = "doctor" /\ doctorMu = r /\ doctorMu' = Nobody
      /\ UNCHANGED <<page, lists, rank, load, unit, S!form, did, dirty, S!seen>>
      /\ UNCHANGED <<host, brokenFor>>
  BY DEF S!EndDoctor, S!settings
<1>2. PICK status \in {doctor.status, "none"} :
        /\ doctor' = [valid |-> TRUE, age |-> 0, status |-> status]
        /\ S!doctorMutationError(r, status)
  BY DEF S!EndDoctor
<1>3. /\ pc' \in [Requests -> Steps] /\ answer' = [q \in Requests |-> answer'[q]]
      /\ pc'[r] # "doctor" /\ RequestInv(r)' /\ Quiet(r)
  BY <1>a, <1>1, <1>2, Verdict
<1>4. SettingsTypes'
  BY <1>a, <1>1, <1>2, <1>3 DEF SettingsTypes, S!form, S!seen
<1>5. \A q \in Requests \ {r} : Same(q) /\ Told(q)
  BY <1>3 DEF Quiet, Told
<1>6. GateInv'
  <2>1. doctor'.valid = TRUE /\ doctor'.age = 0 /\ doctor'.status = status
    BY <1>2
  <2>2. status = "ok" => brokenFor <= 1
    BY <1>a, <1>1, <1>2, PagesAssumption DEF GateInv, SettingsTypes
  <2>3. \A q \in Requests : pc'[q] = "doctor" <=> doctorMu' = q
    BY <1>a, <1>1, <1>3, <1>5, PagesAssumption DEF GateInv, Same
  <2> QED
    BY <1>a, <1>1, <2>1, <2>2, <2>3 DEF GateInv
<1> QED
  BY <1>3, <1>4, <1>5, <1>6, CloseStep

(* The form, key by key.                                                   *)
LEMMA BadFormStep ==
  ASSUME SettingsInv, NEW r \in Requests, S!BadForm(r)
  PROVE  SettingsInv'
<1>a. SettingsTypes /\ GateInv /\ RequestInv(r)
  BY DEF SettingsInv
<1>1. /\ pc[r] = "read" \/ (pc[r] = "run" /\ kind[r] = "staff")
      /\ pc' = [pc EXCEPT ![r] = "done"]
      /\ answer' = [answer EXCEPT ![r] = [status |-> 400, notice |-> "none"]]
      /\ UNCHANGED <<page, lists, rank, load, unit, host, brokenFor, doctor, doctorMu, kind,
                     posted, name, snap, todo, did, dirty, shown, had>>
  BY DEF S!BadForm, S!Answered, S!settings, S!gate, S!form, S!seen
<1>2. SettingsTypes'
  BY <1>a, <1>1 DEF SettingsTypes, Steps
<1>3. Quiet(r)
  BY <1>a, <1>1 DEF SettingsTypes, Quiet, Same
<1>4. /\ pc'[r] = "done" /\ answer'[r].status = 400 /\ answer'[r].notice = "none"
  BY <1>a, <1>1 DEF SettingsTypes
<1>5. kind[r] # "look" /\ ~did[r] /\ todo[r] = {}
  BY <1>a, <1>1 DEF RequestInv, StepInv, Before, Lists, SettingsTypes
<1>6. RequestInv(r)'
  BY <1>a, <1>1, <1>4, <1>5 DEF RequestInv, StepInv, FormInv, EffectInv, SeenInv, Before
<1> QED
  BY <1>1, <1>2, <1>3, <1>4, <1>6, QuietStep DEF S!gate

LEMMA SnapshotStep ==
  ASSUME SettingsInv, NEW r \in Requests, S!Snapshot(r)
  PROVE  SettingsInv'
<1>a. SettingsTypes /\ GateInv /\ RequestInv(r)
  BY DEF SettingsInv
<1>b. /\ pc[r] = "read" /\ kind[r] \in Lists /\ todo[r] = {} /\ ~did[r]
      /\ kind[r] \in {"ban", "unban"} => name[r] \in Names
      /\ UNCHANGED <<page, lists, rank, load, unit, host, brokenFor, doctor, doctorMu, kind,
                     name, did, shown, had>>
  BY <1>a DEF S!Snapshot, RequestInv, StepInv, Before, S!settings, S!gate, S!seen
<1> DEFINE asks == IF kind[r] \in S!Form THEN posted[r]
                   ELSE [lists EXCEPT ![S!PlayerNames] = S!nextNames(r, @)]
           changed == S!Changed(asks)
<1>c. asks \in S!Forms /\ changed \in SUBSET S!Keys
  <2>1. S!nextNames(r, lists[S!PlayerNames]) \in S!Values \/ kind[r] \in S!Form
    BY <1>a, <1>b, FormTypes DEF S!nextNames, S!Form, SettingsTypes, S!Forms, S!Values, Lists
  <2>2. asks \in S!Forms
    BY <1>a, <2>1 DEF SettingsTypes, S!Forms
  <2> QED
    BY <2>2 DEF S!Changed
<1>d. /\ \A k \in S!Keys : k \notin changed => lists[k] = asks[k]
      /\ changed = {} => lists = asks
  BY <1>a, <1>c DEF S!Changed, SettingsTypes, S!Forms
<1>e. PICK run \in S!readRuns :
        IF S!call(run) # 0
        THEN /\ S!Answered(r, S!adminFailure(S!call(run)), "none")
             /\ UNCHANGED <<posted, snap, todo, dirty>>
        ELSE /\ snap' = [snap EXCEPT ![r] = lists]
             /\ posted' = [posted EXCEPT ![r] = asks]
             /\ todo' = [todo EXCEPT ![r] = changed]
             /\ dirty' = [dirty EXCEPT ![r] = FALSE]
             /\ IF changed # {} THEN S!Goes(r, "run")
                ELSE IF kind[r] \in S!Form THEN S!Answered(r, 200, "unchanged")
                ELSE S!Answered(r, 303, "none")
  BY DEF S!Snapshot
<1> HIDE DEF asks, changed
<1>f. Honest(run)
  BY RunsAreHonest
<1>1. CASE S!call(run) # 0
  <2>1. /\ pc' = [pc EXCEPT ![r] = "done"]
        /\ answer' = [answer EXCEPT ![r] =
                        [status |-> S!adminFailure(S!call(run)), notice |-> "none"]]
        /\ UNCHANGED <<posted, snap, todo, dirty>>
    BY <1>1, <1>e DEF S!Answered
  <2>2. SettingsTypes'
    BY <1>a, <1>b, <2>1 DEF SettingsTypes, Steps
  <2>3. Quiet(r)
    BY <1>a, <1>b, <2>1 DEF SettingsTypes, Quiet, Same
  <2>4. /\ pc'[r] = "done" /\ answer'[r].status \notin {200, 303}
        /\ answer'[r].notice = "none"
    BY <1>a, <1>1, <1>f, <2>1 DEF SettingsTypes, Honest
  <2>5. RequestInv(r)'
    <3>1. StepInv(r)'
      BY <1>a, <1>b, <2>1, <2>4 DEF RequestInv, StepInv, Before
    <3>2. FormInv(r)'
      BY <1>b, <2>1, <2>4 DEF FormInv
    <3>3. EffectInv(r)' /\ SeenInv(r)'
      BY <1>b, <2>4 DEF EffectInv, SeenInv, Lists
    <3> QED
      BY <3>1, <3>2, <3>3 DEF RequestInv
  <2> QED
    BY <1>b, <2>2, <2>3, <2>4, <2>5, QuietStep DEF S!gate
<1>2. CASE S!call(run) = 0
  <2>1. /\ \/ changed = {} /\ pc' = [pc EXCEPT ![r] = "done"]
              /\ \E told \in {[status |-> 200, notice |-> "unchanged"],
                              [status |-> 303, notice |-> "none"]} :
                   answer' = [answer EXCEPT ![r] = told]
           \/ changed # {} /\ pc' = [pc EXCEPT ![r] = "run"] /\ answer' = answer
        /\ snap' = [snap EXCEPT ![r] = lists] /\ posted' = [posted EXCEPT ![r] = asks]
        /\ todo' = [todo EXCEPT ![r] = changed] /\ dirty' = [dirty EXCEPT ![r] = FALSE]
    BY <1>2, <1>e DEF S!Answered, S!Goes
  <2>2. SettingsTypes'
    <3>1. pc' \in [Requests -> Steps] /\ answer' = [q \in Requests |-> answer'[q]]
      BY <1>a, <2>1 DEF SettingsTypes, Steps
    <3>2. /\ snap' \in [Requests -> S!Forms] /\ posted' \in [Requests -> S!Forms]
          /\ todo' \in [Requests -> SUBSET S!Keys] /\ dirty' \in [Requests -> BOOLEAN]
      BY <1>a, <1>c, <2>1 DEF SettingsTypes
    <3> QED
      BY <1>a, <1>b, <3>1, <3>2 DEF SettingsTypes
  <2>3. Quiet(r)
    BY <1>a, <1>b, <2>1 DEF SettingsTypes, Quiet, Same
  <2>4. /\ \/ changed = {} /\ pc'[r] = "done" /\ answer'[r].notice # "saved"
           \/ changed # {} /\ pc'[r] = "run"
        /\ snap'[r] = lists /\ posted'[r] = asks /\ todo'[r] = changed
    BY <1>a, <2>1 DEF SettingsTypes
  <2>5. RequestInv(r)'
    <3>1. StepInv(r)'
      BY <1>a, <1>b, <2>4 DEF RequestInv, StepInv, Before, Lists
    <3>2. FormInv(r)'
      BY <1>b, <1>d, <2>4 DEF FormInv
    <3>3. EffectInv(r)' /\ SeenInv(r)'
      BY <1>b, <2>4 DEF EffectInv, SeenInv, Lists
    <3> QED
      BY <3>1, <3>2, <3>3 DEF RequestInv
  <2> QED
    BY <1>b, <2>2, <2>3, <2>4, <2>5, QuietStep DEF S!gate
<1> QED
  BY <1>1, <1>2

LEMMA SetKeyStep ==
  ASSUME SettingsInv, NEW r \in Requests, S!SetKey(r)
  PROVE  SettingsInv'
<1>a. SettingsTypes /\ GateInv /\ RequestInv(r)
  BY DEF SettingsInv
<1>b. /\ pc[r] = "run" /\ todo[r] # {} /\ kind[r] \in Lists
      /\ UNCHANGED <<page, rank, load, unit, host, brokenFor, doctor, doctorMu, kind, posted,
                     name, snap, shown, had>>
  BY <1>a DEF S!SetKey, S!gate, S!seen, RequestInv, StepInv
<1> DEFINE k == S!Min(todo[r])
<1>c. k \in todo[r] /\ k \in S!Keys /\ (\A j \in todo[r] : k <= j) /\ todo[r] \in SUBSET S!Keys
  BY <1>a, <1>b, LeastKey DEF SettingsTypes
<1>e. PICK run \in S!setRuns :
        /\ lists' = IF run.done THEN [lists EXCEPT ![k] = posted[r][k]] ELSE lists
        /\ did' = [did EXCEPT ![r] = run.done]
        /\ dirty' = IF run.done THEN S!Disturbs(r) ELSE dirty
        /\ IF S!call(run) # 0
           THEN S!Answered(r, S!adminFailure(S!call(run)), "none") /\ UNCHANGED todo
           ELSE /\ todo' = [todo EXCEPT ![r] = @ \ {k}]
                /\ IF todo[r] = {k} THEN S!Saved(r) ELSE S!Goes(r, "run")
  BY DEF S!SetKey
<1> HIDE DEF k
<1>f. Honest(run) /\ run.done \in BOOLEAN
  BY RunsAreHonest DEF Honest
<1>g. \/ /\ S!call(run) # 0 /\ todo' = todo
         /\ pc' = [pc EXCEPT ![r] = "done"]
         /\ answer' = [answer EXCEPT ![r] =
                         [status |-> S!adminFailure(S!call(run)), notice |-> "none"]]
      \/ /\ S!call(run) = 0 /\ todo' = [todo EXCEPT ![r] = @ \ {k}] /\ todo[r] = {k}
         /\ \/ /\ kind[r] # "config" /\ pc' = [pc EXCEPT ![r] = "done"]
               /\ answer' = [answer EXCEPT ![r] = [status |-> 303, notice |-> "saved"]]
            \/ kind[r] = "config" /\ pc' = [pc EXCEPT ![r] = "reread"] /\ answer' = answer
      \/ /\ S!call(run) = 0 /\ todo' = [todo EXCEPT ![r] = @ \ {k}] /\ todo[r] # {k}
         /\ pc' = [pc EXCEPT ![r] = "run"] /\ answer' = answer
  BY <1>e DEF S!Saved, S!Answered, S!Goes
<1>1. SettingsTypes'
  <2>1. lists' \in S!Forms
    BY <1>a, <1>c, <1>e DEF SettingsTypes, S!Forms
  <2>2. did' \in [Requests -> BOOLEAN] /\ dirty' \in [Requests -> BOOLEAN]
    BY <1>a, <1>e, <1>f DEF SettingsTypes, S!Disturbs
  <2>3. /\ pc' \in [Requests -> Steps] /\ todo' \in [Requests -> SUBSET S!Keys]
        /\ answer' = [q \in Requests |-> answer'[q]]
    BY <1>a, <1>g DEF SettingsTypes, Steps
  <2> QED
    BY <1>a, <1>b, <2>1, <2>2, <2>3 DEF SettingsTypes
<1>2. \A q \in Requests \ {r} : Same(q) /\ Told(q)
  <2>1. \A q \in Requests \ {r} : Same(q)
    BY <1>a, <1>b, <1>e, <1>g DEF SettingsTypes, Same
  <2>2. ASSUME NEW q \in Requests \ {r}
        PROVE  Told(q)
    <3>1. CASE run.done
      BY <1>b, <1>e, <3>1 DEF Told, S!Disturbs
    <3>2. CASE ~run.done
      BY <1>b, <1>e, <3>2 DEF Told
    <3> QED
      BY <3>1, <3>2
  <2> QED
    BY <2>1, <2>2
<1>3. /\ did'[r] = run.done /\ dirty'[r] = dirty[r] /\ posted' = posted /\ snap' = snap
      /\ \A i \in S!Keys : i # k => lists'[i] = lists[i]
      /\ run.done => lists'[k] = posted[r][k]
      /\ pc'[r] # "doctor"
  BY <1>a, <1>b, <1>c, <1>e, <1>g DEF SettingsTypes, S!Disturbs, S!Forms
<1>4. GateInv'
  <2>1. \A q \in Requests : pc'[q] = "doctor" <=> pc[q] = "doctor"
    BY <1>2, <1>3, <1>b DEF Same
  <2> QED
    BY <1>a, <1>b, <2>1 DEF GateInv
<1>5. FormInv(r)'
  <2> SUFFICES ASSUME ~dirty[r]
               PROVE  FormInv(r)'
    BY <1>3 DEF FormInv
  <2>1. \A i \in S!Keys : /\ i \notin todo[r] => lists[i] = posted[r][i]
                          /\ \A j \in todo[r] : j <= i => lists[i] = snap[r][i]
    BY <1>a, <1>b DEF RequestInv, FormInv
  <2>2. CASE S!call(run) # 0
    <3>1. /\ pc'[r] = "done" /\ todo'[r] = todo[r]
          /\ answer'[r].status \notin {200, 303} /\ answer'[r].notice = "none"
      BY <1>a, <1>f, <1>g, <2>2 DEF SettingsTypes, Honest
    <3>2. ASSUME NEW j \in todo[r], NEW i \in S!Keys, \A t \in todo[r] : j <= t
          PROVE  /\ i < j => lists'[i] = posted[r][i]
                 /\ i > j => lists'[i] = snap[r][i]
      <4>1. j = k
        BY <1>c, <3>2 DEF S!Keys
      <4>2. i < j => i \notin todo[r] /\ i # k
        BY <1>c, <3>2, <4>1 DEF S!Keys
      <4>3. i > j => j <= i /\ i # k
        BY <1>c, <4>1 DEF S!Keys
      <4> QED
        BY <1>3, <2>1, <4>2, <4>3
    <3> QED
      BY <1>3, <3>1, <3>2 DEF FormInv
  <2>3. CASE S!call(run) = 0
    <3>1. run.done /\ todo'[r] = todo[r] \ {k}
      BY <1>a, <1>f, <1>g, <2>3 DEF SettingsTypes, Honest
    <3>2. \A i \in S!Keys : i \notin todo'[r] => lists'[i] = posted[r][i]
      BY <1>3, <2>1, <3>1
    <3>3. \A i \in S!Keys, j \in todo'[r] : j <= i => lists'[i] = snap[r][i]
      <4>1. \A i \in S!Keys, j \in todo'[r] : j <= i => i # k
        BY <1>c, <3>1 DEF S!Keys
      <4> QED
        BY <1>3, <2>1, <3>1, <4>1
    <3>4. todo[r] = {k} => lists' = posted[r] /\ todo'[r] = {}
      BY <1>1, <1>a, <3>1, <3>2 DEF SettingsTypes, S!Forms
    <3>5. \/ pc'[r] \in {"reread", "done"} /\ todo[r] = {k}
          \/ pc'[r] = "run"
      BY <1>a, <1>g, <2>3 DEF SettingsTypes
    <3> QED
      BY <1>3, <3>2, <3>3, <3>4, <3>5 DEF FormInv
  <2> QED
    BY <2>2, <2>3
<1>6. RequestInv(r)'
  <2>1. \/ /\ S!call(run) # 0 /\ pc'[r] = "done" /\ answer'[r].notice = "none"
           /\ answer'[r].status = S!adminFailure(S!call(run))
        \/ S!call(run) = 0 /\ pc'[r] = "done" /\ answer'[r].notice = "saved"
        \/ S!call(run) = 0 /\ pc'[r] = "reread" /\ todo'[r] = {} /\ kind[r] = "config"
        \/ pc'[r] = "run" /\ todo'[r] # {}
    BY <1>a, <1>c, <1>g DEF SettingsTypes
  <2>2. StepInv(r)'
    BY <1>a, <1>b, <1>3, <1>f, <2>1 DEF Honest, RequestInv, StepInv, Before, Lists
  <2>3. EffectInv(r)'
    BY <1>3, <1>f, <2>1 DEF EffectInv, Honest
  <2>4. SeenInv(r)'
    BY <1>b DEF SeenInv, Lists
  <2> QED
    BY <1>5, <2>2, <2>3, <2>4 DEF RequestInv
<1> QED
  BY <1>1, <1>2, <1>4, <1>6, CloseStep

LEMMA RereadStep ==
  ASSUME SettingsInv, NEW r \in Requests, S!Reread(r)
  PROVE  SettingsInv'
<1>a. SettingsTypes /\ GateInv /\ RequestInv(r)
  BY DEF SettingsInv
<1>b. /\ pc[r] = "reread" /\ kind[r] = "config" /\ todo[r] = {} /\ did[r]
      /\ UNCHANGED <<page, lists, rank, load, unit, host, brokenFor, doctor, doctorMu, kind,
                     posted, name, snap, todo, did, dirty, shown, had>>
  BY <1>a DEF S!Reread, S!settings, S!gate, S!form, S!seen, RequestInv, StepInv
<1>1. PICK run \in S!readRuns :
        /\ pc' = [pc EXCEPT ![r] = "done"]
        /\ answer' = [answer EXCEPT ![r] =
             [status |-> IF S!call(run) = 0 THEN 200 ELSE S!adminFailure(S!call(run)),
              notice |-> "saved"]]
  BY DEF S!Reread, S!Answered
<1>2. SettingsTypes'
  BY <1>a, <1>b, <1>1 DEF SettingsTypes, Steps
<1>3. Quiet(r)
  BY <1>a, <1>b, <1>1 DEF SettingsTypes, Quiet, Same
<1>4. pc'[r] = "done" /\ answer'[r].notice = "saved"
  BY <1>a, <1>1 DEF SettingsTypes
<1>5. RequestInv(r)'
  <2>1. StepInv(r)'
    BY <1>a, <1>b, <1>4 DEF RequestInv, StepInv, Before
  <2>2. FormInv(r)'
    BY <1>a, <1>b, <1>4 DEF RequestInv, FormInv
  <2>3. EffectInv(r)' /\ SeenInv(r)'
    BY <1>b, <1>4 DEF EffectInv, SeenInv
  <2> QED
    BY <2>1, <2>2, <2>3 DEF RequestInv
<1> QED
  BY <1>b, <1>2, <1>3, <1>4, <1>5, QuietStep DEF S!gate

(* One command.                                                            *)
AnswerOf(run) ==
  IF S!call(run) = 0 THEN [status |-> 303, notice |-> "saved"]
  ELSE [status |-> S!adminFailure(S!call(run)), notice |-> "none"]

LEMMA StaffSetStep ==
  ASSUME SettingsInv, NEW r \in Requests, S!StaffSet(r)
  PROVE  SettingsInv'
<1>a. SettingsTypes /\ GateInv /\ RequestInv(r)
  BY DEF SettingsInv
<1>b. /\ pc[r] = "run" /\ kind[r] = "staff" /\ name[r] \in Names
      /\ UNCHANGED <<page, lists, load, unit, host, brokenFor, doctor, doctorMu, kind, posted,
                     name, snap, todo, dirty, shown, had>>
  BY <1>a DEF S!StaffSet, S!gate, S!form, S!seen, RequestInv, StepInv
<1>c. PICK run \in S!staffRuns(r), n \in {0, 1} :
        /\ rank' = IF run.done THEN S!updateStaffJSON(name[r], n) ELSE rank
        /\ did' = [did EXCEPT ![r] = run.done]
        /\ pc' = [pc EXCEPT ![r] = "done"] /\ answer' = [answer EXCEPT ![r] = AnswerOf(run)]
  BY DEF S!StaffSet, S!Commanded, S!Answered, AnswerOf
<1>d. Honest(run) /\ run.done \in BOOLEAN
  BY RunsAreHonest DEF Honest
<1>1. SettingsTypes'
  <2>1. rank' \in [Names -> {0, 1, S!BadJSON}]
    BY <1>a, <1>b, <1>c DEF SettingsTypes, S!updateStaffJSON
  <2>2. /\ did' \in [Requests -> BOOLEAN] /\ pc' \in [Requests -> Steps]
        /\ answer' = [q \in Requests |-> answer'[q]]
    BY <1>a, <1>c, <1>d DEF SettingsTypes, S!Answered, Steps
  <2> QED
    BY <1>a, <1>b, <2>1, <2>2 DEF SettingsTypes
<1>2. Quiet(r)
  BY <1>a, <1>b, <1>c DEF SettingsTypes, Quiet, Same, S!Answered
<1>3. /\ pc'[r] = "done" /\ did'[r] = run.done
      /\ answer'[r] = AnswerOf(run)
  BY <1>a, <1>c DEF SettingsTypes, S!Answered
<1>4. RequestInv(r)'
  <2>1. StepInv(r)'
    BY <1>a, <1>b, <1>3 DEF RequestInv, StepInv, Before
  <2>2. FormInv(r)' /\ SeenInv(r)'
    BY <1>b DEF FormInv, SeenInv, Lists
  <2>3. EffectInv(r)'
    BY <1>d, <1>3 DEF EffectInv, Honest, AnswerOf
  <2> QED
    BY <2>1, <2>2, <2>3 DEF RequestInv
<1> QED
  BY <1>b, <1>1, <1>2, <1>3, <1>4, QuietStep DEF S!gate

LEMMA ServerActionStep ==
  ASSUME SettingsInv, NEW r \in Requests, S!ServerAction(r)
  PROVE  SettingsInv'
<1>a. SettingsTypes /\ GateInv /\ RequestInv(r)
  BY DEF SettingsInv
<1>b. /\ pc[r] = "run" /\ kind[r] \in {"start", "stop", "restart"}
      /\ UNCHANGED <<page, lists, rank, load, host, brokenFor, doctor, doctorMu, kind, posted,
                     name, snap, todo, dirty, shown>>
  BY DEF S!ServerAction, S!gate, S!form, S!Controls
<1>c. PICK run \in S!controlRuns :
        /\ unit' = CASE ~run.done -> unit
                     [] kind[r] = "stop" -> "deactivating"
                     [] OTHER -> "activating"
        /\ did' = [did EXCEPT ![r] = run.done]
        /\ pc' = [pc EXCEPT ![r] = "done"] /\ answer' = [answer EXCEPT ![r] = AnswerOf(run)]
  BY DEF S!ServerAction, S!Commanded, S!Answered, AnswerOf
<1>d. Honest(run) /\ run.done \in BOOLEAN
  BY RunsAreHonest DEF Honest
<1>e. had' = S!Seen(unit')
  BY DEF S!ServerAction
<1>1. SettingsTypes'
  <2>1. unit' \in S!ActiveStates
    BY <1>a, <1>c, <1>d DEF SettingsTypes, S!ActiveStates
  <2>2. /\ did' \in [Requests -> BOOLEAN] /\ pc' \in [Requests -> Steps]
        /\ answer' = [q \in Requests |-> answer'[q]]
    BY <1>a, <1>c, <1>d DEF SettingsTypes, S!Answered, Steps
  <2>3. had' = [q \in Requests |-> had'[q]]
    BY <1>e DEF S!Seen
  <2> QED
    BY <1>a, <1>b, <2>1, <2>2, <2>3 DEF SettingsTypes
<1>2. \A q \in Requests \ {r} : Same(q) /\ Told(q)
  BY <1>a, <1>b, <1>c, <1>e DEF SettingsTypes, Same, Told, S!Answered, S!Seen
<1>3. /\ pc'[r] = "done" /\ did'[r] = run.done
      /\ answer'[r] = AnswerOf(run)
  BY <1>a, <1>c DEF SettingsTypes, S!Answered
<1>4. RequestInv(r)'
  <2>1. StepInv(r)'
    BY <1>a, <1>b, <1>3 DEF RequestInv, StepInv, Before
  <2>2. FormInv(r)' /\ SeenInv(r)'
    BY <1>b DEF FormInv, SeenInv, Lists
  <2>3. EffectInv(r)'
    BY <1>d, <1>3 DEF EffectInv, Honest, AnswerOf
  <2> QED
    BY <2>1, <2>2, <2>3 DEF RequestInv
<1>5. GateInv'
  <2>1. \A q \in Requests : pc'[q] = "doctor" <=> pc[q] = "doctor"
    BY <1>2, <1>3, <1>b DEF Same
  <2> QED
    BY <1>a, <1>b, <2>1 DEF GateInv
<1> QED
  BY <1>1, <1>2, <1>4, <1>5, CloseStep

(* The dashboard's two reads.                                              *)
LEMMA ShowStep ==
  ASSUME SettingsInv, NEW r \in Requests, S!Show(r)
  PROVE  SettingsInv'
<1>a. SettingsTypes /\ GateInv /\ RequestInv(r)
  BY DEF SettingsInv
<1>b. /\ pc[r] = "show" /\ kind[r] = "look" /\ unit \in had[r]
      /\ shown' = [shown EXCEPT ![r] = unit] /\ pc' = [pc EXCEPT ![r] = "isactive"]
      /\ UNCHANGED <<page, lists, rank, load, unit, host, brokenFor, doctor, doctorMu, kind,
                     posted, name, snap, todo, answer, did, dirty, had>>
  BY <1>a DEF S!Show, S!settings, S!gate, S!form, S!Goes, RequestInv, StepInv, SeenInv
<1>1. SettingsTypes'
  BY <1>a, <1>b DEF SettingsTypes, Steps
<1>2. Quiet(r)
  BY <1>a, <1>b DEF SettingsTypes, Quiet, Same
<1>3. pc'[r] = "isactive" /\ shown'[r] = unit /\ unit \in S!ActiveStates
  BY <1>a, <1>b DEF SettingsTypes
<1>4. RequestInv(r)'
  BY <1>a, <1>b, <1>3 DEF RequestInv, StepInv, FormInv, EffectInv, SeenInv, Lists, Before
<1> QED
  BY <1>b, <1>1, <1>2, <1>3, <1>4, QuietStep DEF S!gate

(* What the page shows of a loaded unit comes from one of the two reads.   *)
LEMMA Classified ==
  ASSUME NEW active \in S!ActiveStates, NEW known \in BOOLEAN, NEW isActive \in BOOLEAN,
         NEW state, NEW seen, active \in seen, state \in seen, isActive <=> state = "active",
         load = "loaded"
  PROVE  LET said_ == S!classifyStatus(active, known, isActive)
         IN /\ said_ = "running" => "active" \in seen
            /\ said_ = "stopped" => seen # {"active"}
            /\ said_ = "unhealthy" => "failed" \in seen
            /\ S!CanStop(said_) => seen \cap {"active", "activating"} # {}
<1>1. S!classifyStatus(active, known, isActive) = S!serviceState(active, known, isActive)
  BY DEF S!classifyStatus
<1>2. CASE active = "failed"
  BY <1>1, <1>2 DEF S!serviceState, S!CanStop
<1>3. CASE active = "activating"
  BY <1>1, <1>3 DEF S!serviceState, S!CanStop
<1>4. CASE active = "deactivating"
  BY <1>1, <1>4 DEF S!serviceState, S!CanStop
<1>5. CASE active = "active"
  <2>1. S!serviceState(active, known, isActive) = IF known => isActive THEN "running" ELSE "stopped"
    BY <1>5 DEF S!serviceState
  <2> QED
    BY <1>1, <1>5, <2>1 DEF S!CanStop
<1>6. CASE active = "inactive"
  <2>1. S!serviceState(active, known, isActive) = IF known /\ isActive THEN "running" ELSE "stopped"
    BY <1>6 DEF S!serviceState
  <2> QED
    BY <1>1, <1>6, <2>1 DEF S!CanStop
<1> QED
  BY <1>2, <1>3, <1>4, <1>5, <1>6 DEF S!ActiveStates

LEMMA IsActiveStep ==
  ASSUME SettingsInv, NEW r \in Requests, S!IsActive(r)
  PROVE  SettingsInv'
<1>a. SettingsTypes /\ GateInv /\ RequestInv(r)
  BY DEF SettingsInv
<1>b. /\ pc[r] = "isactive" /\ kind[r] = "look" /\ unit \in had[r] /\ shown[r] \in had[r]
      /\ shown[r] \in S!ActiveStates
      /\ pc' = [pc EXCEPT ![r] = "done"]
      /\ answer' = [answer EXCEPT ![r] = [status |-> 200, notice |-> "none"]]
      /\ UNCHANGED <<page, lists, rank, load, unit, host, brokenFor, doctor, doctorMu, kind,
                     posted, name, snap, todo, did, dirty, had>>
  BY <1>a DEF S!IsActive, S!settings, S!gate, S!form, S!Answered, RequestInv, StepInv, SeenInv
<1>c. PICK run \in S!readRuns, known \in BOOLEAN :
        shown' = [shown EXCEPT ![r] =
                    IF S!call(run) # 0 THEN "service_unavailable"
                    ELSE S!classifyStatus(@, known, unit = "active")]
  BY DEF S!IsActive
<1>1. SettingsTypes'
  BY <1>a, <1>b, <1>c DEF SettingsTypes, Steps
<1>2. Quiet(r)
  BY <1>a, <1>b, <1>c DEF SettingsTypes, Quiet, Same
<1>3. /\ pc'[r] = "done"
      /\ shown'[r] = IF S!call(run) # 0 THEN "service_unavailable"
                     ELSE S!classifyStatus(shown[r], known, unit = "active")
  BY <1>a, <1>b, <1>c DEF SettingsTypes
<1>4. SeenInv(r)'
  <2> SUFFICES ASSUME load = "loaded"
               PROVE  /\ shown'[r] = "running" => "active" \in had[r]
                      /\ shown'[r] = "stopped" => had[r] # {"active"}
                      /\ shown'[r] = "unhealthy" => "failed" \in had[r]
                      /\ S!CanStop(shown'[r]) => had[r] \cap {"active", "activating"} # {}
    BY <1>b, <1>3 DEF SeenInv, S!CanStop
  <2>1. CASE S!call(run) # 0
    BY <1>3, <2>1 DEF S!CanStop
  <2>2. CASE S!call(run) = 0
    <3>1. shown'[r] = S!classifyStatus(shown[r], known, unit = "active")
      BY <1>3, <2>2
    <3> DEFINE isActive == unit = "active"
    <3>2. isActive \in BOOLEAN /\ (isActive <=> unit = "active")
      OBVIOUS
    <3>3. shown'[r] = S!classifyStatus(shown[r], known, isActive)
      BY <3>1
    <3> HIDE DEF isActive
    <3> QED
      BY <1>b, <3>2, <3>3, Classified
  <2> QED
    BY <2>1, <2>2
<1>5. RequestInv(r)'
  BY <1>a, <1>b, <1>3, <1>4 DEF RequestInv, StepInv, FormInv, EffectInv, Lists, Before
<1> QED
  BY <1>b, <1>1, <1>2, <1>3, <1>5, QuietStep DEF S!gate

(* systemd, the host and the clock.                                        *)
LEMMA UnitMovesStep ==
  ASSUME SettingsInv, S!UnitMoves
  PROVE  SettingsInv'
<1>a. SettingsTypes /\ GateInv /\ \A r \in Requests : RequestInv(r)
  BY DEF SettingsInv
<1>b. /\ had' = S!Seen(unit')
      /\ UNCHANGED <<page, lists, rank, load, host, brokenFor, doctor, doctorMu, pc, kind,
                     posted, name, snap, todo, answer, did, dirty, shown>>
  BY DEF S!UnitMoves, S!gate, S!form
<1>c. unit' \in S!ActiveStates
  <2>1. \/ unit' \in {"active", "failed", "inactive", "activating"}
        \/ unit' \in {}
    BY <1>a DEF S!UnitMoves, SettingsTypes, S!ActiveStates
  <2> QED
    BY <2>1 DEF S!ActiveStates
<1>1. SettingsTypes'
  BY <1>a, <1>b, <1>c DEF SettingsTypes, S!Seen
<1>2. ASSUME NEW q \in Requests
      PROVE  RequestInv(q)'
  <2>1. Same(q) /\ Told(q) /\ dirty[q] \in BOOLEAN /\ dirty'[q] \in BOOLEAN
    BY <1>a, <1>b DEF SettingsTypes, Same, Told, S!Seen
  <2> QED
    BY <1>a, <2>1, OtherRequest
<1>3. GateInv'
  BY <1>a, <1>b DEF GateInv
<1> QED
  BY <1>1, <1>2, <1>3 DEF SettingsInv

LEMMA ClockStep ==
  ASSUME SettingsInv, S!HostChanges \/ S!Tick
  PROVE  SettingsInv'
<1>a. SettingsTypes /\ GateInv /\ \A r \in Requests : RequestInv(r)
  BY DEF SettingsInv
<1>b. UNCHANGED <<page, lists, rank, load, unit, doctorMu, pc, kind, posted, name, snap, todo,
                  answer, did, dirty, shown, had>>
  BY DEF S!HostChanges, S!Tick, S!settings, S!form, S!seen
<1>c. MaxLag + 1 \in Nat /\ MaxLag \in Nat /\ brokenFor \in Nat /\ doctor.age \in 0..2
  BY <1>a, PagesAssumption DEF SettingsTypes
<1>1. \A q \in Requests : RequestInv(q)'
  <2>1. ASSUME NEW q \in Requests
        PROVE  RequestInv(q)'
    <3>1. Same(q) /\ Told(q) /\ dirty[q] \in BOOLEAN /\ dirty'[q] \in BOOLEAN
      BY <1>a, <1>b DEF SettingsTypes, Same, Told
    <3> QED
      BY <1>a, <3>1, OtherRequest
  <2> QED
    BY <2>1
<1>2. CASE S!HostChanges
  <2>1. doctor' = doctor /\ brokenFor' = 0 /\ host' \in {"ok", "error"}
    BY <1>2 DEF S!HostChanges
  <2>2. SettingsTypes'
    BY <1>a, <1>b, <1>c, <2>1 DEF SettingsTypes
  <2>3. GateInv'
    BY <1>a, <1>b, <1>c, <2>1 DEF GateInv
  <2> QED
    BY <1>1, <2>2, <2>3 DEF SettingsInv
<1>3. CASE S!Tick
  <2>1. /\ doctorMu # Nobody => doctor.age = 0
        /\ brokenFor' = IF host = "ok" THEN 0 ELSE S!Min({brokenFor + 1, MaxLag + 1})
        /\ doctor' = [doctor EXCEPT !.age = S!Min({@ + 1, 2})]
        /\ host' = host
    BY <1>3 DEF S!Tick, S!CacheTicks
  <2>2. /\ brokenFor' <= brokenFor + 1 /\ brokenFor' \in 0..(MaxLag + 1)
        /\ host = "ok" => brokenFor' = 0
    BY <1>c, <2>1, LessOfTwo
  <2>3. S!Min({doctor.age + 1, 2}) = IF doctor.age + 1 <= 2 THEN doctor.age + 1 ELSE 2
    BY <1>c, LessOfTwo
  <2>4. /\ doctor'.valid = doctor.valid /\ doctor'.status = doctor.status
        /\ doctor'.age = IF doctor.age + 1 <= 2 THEN doctor.age + 1 ELSE 2
        /\ doctor' \in [valid : BOOLEAN, age : 0..2, status : {"ok", "error", "none"}]
    <3> DEFINE older == IF doctor.age + 1 <= 2 THEN doctor.age + 1 ELSE 2
    <3>1. doctor' = [doctor EXCEPT !.age = older]
      BY <2>1, <2>3
    <3>2. older \in 0..2
      BY <1>c
    <3> HIDE DEF older
    <3>3. /\ doctor'.valid = doctor.valid /\ doctor'.status = doctor.status
          /\ doctor'.age = older
          /\ doctor' \in [valid : BOOLEAN, age : 0..2, status : {"ok", "error", "none"}]
      BY <1>a, <3>1, <3>2 DEF SettingsTypes
    <3> QED
      BY <3>3 DEF older
  <2>5. SettingsTypes'
    BY <1>a, <1>b, <2>1, <2>2, <2>4 DEF SettingsTypes
  <2>6. GateInv'
    BY <1>a, <1>b, <1>c, <2>1, <2>2, <2>4 DEF GateInv
  <2> QED
    BY <1>1, <2>5, <2>6 DEF SettingsInv
<1> QED
  BY <1>2, <1>3

LEMMA SettingsStutter ==
  ASSUME SettingsInv, UNCHANGED settingsVars
  PROVE  SettingsInv'
BY DEF SettingsInv, SettingsTypes, GateInv, RequestInv, StepInv, FormInv, EffectInv, SeenInv,
       settingsVars

LEMMA SettingsStep ==
  ASSUME SettingsInv, S!Next
  PROVE  SettingsInv'
BY BeginStep, LeaveStep, AskCachedStep, StartDoctorStep, EndDoctorStep, BadFormStep, SnapshotStep,
   SetKeyStep, RereadStep, StaffSetStep, ServerActionStep, ShowStep, IsActiveStep, UnitMovesStep, ClockStep
   DEF S!Next

LEMMA SettingsInit ==
  ASSUME S!Init
  PROVE  SettingsInv
<1>1. /\ page \in {"config", "players", "staff", "server"} /\ unit \in {"inactive", "active"}
      /\ host = "ok" /\ brokenFor = 0 /\ doctor = [valid |-> FALSE, age |-> 0, status |-> "none"]
      /\ doctorMu = Nobody /\ pc = [r \in Requests |-> "idle"]
      /\ kind = [r \in Requests |-> "look"] /\ todo = [r \in Requests |-> {}]
      /\ did = [r \in Requests |-> FALSE] /\ dirty = [r \in Requests |-> FALSE]
  BY DEF S!Init, S!Kinds
<1>2. /\ lists = [k \in S!Keys |-> {}] /\ posted = [r \in Requests |-> [k \in S!Keys |-> {}]]
      /\ snap = [r \in Requests |-> [k \in S!Keys |-> {}]]
  BY DEF S!Init
<1>3. /\ name = [r \in Requests |-> name[r]] /\ answer = [r \in Requests |-> answer[r]]
      /\ shown = [r \in Requests |-> shown[r]] /\ had = [r \in Requests |-> had[r]]
  <2>1. /\ name = [r \in Requests |-> Nobody] /\ answer = [r \in Requests |-> S!NoAnswer]
        /\ shown = [r \in Requests |-> "unknown"] /\ had = [r \in Requests |-> {}]
    BY DEF S!Init
  <2> QED
    BY <2>1
<1>4. rank \in [Names -> {0, 1, S!BadJSON}]
  BY DEF S!Init
<1>5. SettingsTypes
  <2>1. brokenFor \in 0..(MaxLag + 1)
    BY <1>1, PagesAssumption
  <2>2. lists \in S!Forms /\ posted \in [Requests -> S!Forms] /\ snap \in [Requests -> S!Forms]
    BY <1>2, FormTypes
  <2> QED
    BY <1>1, <1>3, <1>4, <2>1, <2>2 DEF SettingsTypes, Steps, AllKinds, S!ActiveStates
<1>6. GateInv
  BY <1>1, PagesAssumption DEF GateInv
<1>7. \A r \in Requests : RequestInv(r)
  BY <1>1 DEF RequestInv, StepInv, FormInv, EffectInv, SeenInv, Lists, Before
<1> QED
  BY <1>5, <1>6, <1>7 DEF SettingsInv

LEMMA SettingsAlways == PagesSpec => [](component = "settings" => SettingsInv)
<1> DEFINE Inv == component = "settings" => SettingsInv
<1>1. PagesInit => Inv
  BY SettingsInit DEF PagesInit
<1>2. Inv /\ [PagesNext]_pagesVars => Inv'
  BY SettingsStep, SettingsStutter DEF PagesNext, pagesVars
<1> QED
  BY <1>1, <1>2, PTL DEF PagesSpec

(* Whatever several requests do at once, and whether a run of the ops      *)
(* binary succeeds, is refused, breaks half way or is never heard of: a    *)
(* notice that a change was saved, or that there was nothing to change, is *)
(* right, a refusal without such a notice changed nothing, and the         *)
(* dashboard shows a state the unit was in (handleConfigForm,              *)
(* adminFailure, call, classifyStatus).                                    *)
THEOREM PanelPageTellsTruth == PagesSpec => []PageTellsTruth
<1>1. ASSUME SettingsInv
      PROVE  S!TypeOK /\ S!AnswerTellsEffect /\ S!DashboardSawIt
  <2>1. SettingsTypes /\ GateInv /\ \A r \in Requests : RequestInv(r)
    BY <1>1 DEF SettingsInv
  <2>2. S!TypeOK
    <3>1. DOMAIN S!Kinds = {"config", "players", "staff", "server"}
      BY DEF S!Kinds
    <3>2. AllKinds = UNION {S!Kinds[p] : p \in DOMAIN S!Kinds}
      <4>1. UNION {S!Kinds[p] : p \in DOMAIN S!Kinds} =
              S!Kinds["config"] \cup S!Kinds["players"] \cup S!Kinds["staff"]
                \cup S!Kinds["server"]
        BY <3>1
      <4> QED
        BY <4>1 DEF S!Kinds, AllKinds, Lists
    <3>3. /\ doctor.age \in 0..S!CacheTicks /\ doctor.status \in {"ok", "error", "none"}
      BY <2>1 DEF SettingsTypes, S!CacheTicks
    <3>4. \A r \in Requests : (pc[r] = "doctor") = (doctorMu = r)
      BY <2>1 DEF GateInv
    <3> QED
      BY <2>1, <3>1, <3>2, <3>3, <3>4 DEF SettingsTypes, S!TypeOK, Steps
  <2>3. S!AnswerTellsEffect
    BY <2>1, CodesAgree DEF RequestInv, EffectInv, S!AnswerTellsEffect
  <2>4. S!DashboardSawIt
    BY <2>1 DEF RequestInv, SeenInv, S!DashboardSawIt
  <2> QED
    BY <2>2, <2>3, <2>4
<1>2. (component = "settings" => SettingsInv) => PageTellsTruth
  BY <1>1 DEF PageTellsTruth
<1> QED
  BY <1>2, SettingsAlways, PTL

(* Whatever other requests write between its commands: a form they did not *)
(* disturb leaves everything posted after a redirect, a page without an    *)
(* error or a notice that it was saved, and after an error the posted      *)
(* values up to one key and the old ones behind it (handleConfigForm,      *)
(* saveBanlist).                                                           *)
THEOREM PanelFormIsAPrefix == PagesSpec => []FormIsAPrefix
<1>1. ASSUME SettingsInv
      PROVE  S!FormIsAPrefix
  <2>1. SUFFICES ASSUME NEW r \in Requests, pc[r] = "done", kind[r] \in Lists,
                        ~dirty[r]
                 PROVE  /\ answer[r].status \in {200, 303} \/ answer[r].notice = "saved" =>
                             lists = posted[r]
                        /\ todo[r] # {} =>
                             \A k \in S!Keys :
                               /\ k < S!Min(todo[r]) => lists[k] = posted[r][k]
                               /\ k > S!Min(todo[r]) => lists[k] = snap[r][k]
    BY DEF S!FormIsAPrefix, S!Lists, S!Form, Lists
  <2>2. FormInv(r) /\ todo[r] \in SUBSET S!Keys
    BY <1>1 DEF SettingsInv, SettingsTypes, RequestInv
  <2>3. todo[r] # {} => S!Min(todo[r]) \in todo[r] /\ \A i \in todo[r] : S!Min(todo[r]) <= i
    BY <2>2, LeastKey
  <2> QED
    BY <2>1, <2>2, <2>3 DEF FormInv, Lists
<1>2. (component = "settings" => SettingsInv) => FormIsAPrefix
  BY <1>1 DEF FormIsAPrefix
<1> QED
  BY <1>2, SettingsAlways, PTL

(* A change passes the gate longer than a minute and one run after the     *)
(* host broke only when that run of ops doctor gave no report: the cache   *)
(* hides no verdict for longer, for any number of requests at once         *)
(* (currentDoctor, doctorMutationError).                                   *)
THEOREM PanelGateNotices == PagesSpec => GateNoticesWithinAMinute
<1>1. ASSUME SettingsInv, S!Next
      PROVE  S!Notices
  <2>a. SettingsTypes /\ GateInv /\ \A r \in Requests : RequestInv(r)
    BY <1>1 DEF SettingsInv
  <2>b. MaxLag \in Nat /\ MaxLag >= 2 /\ brokenFor \in Nat /\ doctor.age \in 0..2
    BY <2>a, PagesAssumption DEF SettingsTypes
  <2>1. SUFFICES ASSUME NEW r \in Requests, pc[r] \in {"gate", "doctor"},
                        pc'[r] \in {"read", "run"}, brokenFor > MaxLag
                 PROVE  doctor'.status = "none"
    BY DEF S!Notices
  <2>2. S!AskCached(r) \/ S!EndDoctor(r)
    <3>1. ASSUME NEW q \in Requests, q # r, 
                 \/ S!Begin(q) \/ S!Leave(q) \/ S!AskCached(q) \/ S!StartDoctor(q)
                 \/ S!EndDoctor(q) \/ S!BadForm(q) \/ S!Snapshot(q) \/ S!SetKey(q)
                 \/ S!Reread(q) \/ S!StaffSet(q) \/ S!ServerAction(q) \/ S!Show(q) \/ S!IsActive(q)
          PROVE  FALSE
      <4>1. pc'[r] = pc[r]
        BY <2>a, <3>1 DEF SettingsTypes, S!Begin, S!Leave, S!AskCached, S!StartDoctor, S!EndDoctor,
           S!BadForm, S!Snapshot, S!SetKey, S!Saved, S!Reread, S!StaffSet, S!ServerAction,
           S!Commanded, S!Show, S!IsActive, S!Goes, S!Answered, S!doctorMutationError
      <4> QED
        BY <2>1, <4>1
    <3>2. ~ (S!UnitMoves \/ S!HostChanges \/ S!Tick)
      <4>1. S!UnitMoves \/ S!HostChanges \/ S!Tick => pc' = pc
        BY DEF S!UnitMoves, S!HostChanges, S!Tick
      <4> QED
        BY <2>1, <4>1
    <3>3. ~ (S!Begin(r) \/ S!Leave(r) \/ S!StartDoctor(r) \/ S!BadForm(r) \/ S!Snapshot(r)
             \/ S!SetKey(r) \/ S!Reread(r) \/ S!StaffSet(r) \/ S!ServerAction(r) \/ S!Show(r) \/ S!IsActive(r))
      <4>1. S!StartDoctor(r) => pc'[r] = "doctor"
        BY <2>a DEF SettingsTypes, S!StartDoctor, S!Goes
      <4> QED
        BY <2>1, <4>1 DEF S!Begin, S!Leave, S!BadForm, S!Snapshot, S!SetKey, S!Reread,
                          S!StaffSet, S!ServerAction, S!Show, S!IsActive
    <3> QED
      BY <1>1, <3>1, <3>2, <3>3 DEF S!Next
  <2>3. CASE S!AskCached(r)
    <3>1. /\ doctor.valid /\ doctor.age < 2 /\ doctor' = doctor
          /\ S!doctorMutationError(r, doctor.status)
      BY <2>3 DEF S!AskCached, S!Fresh, S!CacheTicks, S!gate
    <3>2. doctor.status # "error"
      BY <2>a, <2>1, <3>1 DEF S!doctorMutationError, S!Answered, SettingsTypes
    <3>3. doctor.status # "ok"
      BY <2>a, <2>b, <2>1, <3>1 DEF GateInv
    <3>4. doctor.status \in {"ok", "error", "none"}
      BY <2>a DEF SettingsTypes
    <3> QED
      BY <3>1, <3>2, <3>3, <3>4
  <2>4. CASE S!EndDoctor(r)
    <3>1. PICK status \in {doctor.status, "none"} :
            /\ doctor' = [valid |-> TRUE, age |-> 0, status |-> status]
            /\ S!doctorMutationError(r, status)
      BY <2>4 DEF S!EndDoctor
    <3>2. status # "error"
      BY <2>a, <2>1, <3>1 DEF S!doctorMutationError, S!Answered, SettingsTypes
    <3>3. doctor.status # "ok"
      BY <2>a, <2>b, <2>1, <2>4, PagesAssumption DEF GateInv, S!EndDoctor
    <3>4. doctor.status \in {"ok", "error", "none"}
      BY <2>a DEF SettingsTypes
    <3>5. doctor'.status = status
      BY <3>1
    <3> QED
      BY <3>1, <3>2, <3>3, <3>4, <3>5
  <2> QED
    BY <2>2, <2>3, <2>4
<1>2. UNCHANGED settingsVars => S!Notices
  BY DEF settingsVars, S!Notices
<1>3. (component = "settings" => SettingsInv) /\ [PagesNext]_pagesVars
        => [component = "settings" => S!Notices]_pagesVars
  BY <1>1, <1>2 DEF PagesNext
<1> QED
  BY <1>3, SettingsAlways, PTL DEF PagesSpec, GateNoticesWithinAMinute
=============================================================================
