------------------------------ MODULE PanelTLS ------------------------------
(***************************************************************************)
(* The panel's HTTPS listener and its certificate: what a start accepts    *)
(* from the disk (newCertificateManager, Ensure), the renewal loop that    *)
(* swaps the certificate under the open listener (Run), and the two files  *)
(* of a pair, written one after the other.  The renewal goroutine is not   *)
(* waited for: a stop ends it between any two steps, as a kill does.       *)
(*                                                                         *)
(* A tick of the clock is a day, in which the check timer fires at least   *)
(* once.  A certificate is a position in "issued"; a file holds one of its *)
(* halves or is missing.                                                   *)
(***************************************************************************)
EXTENDS Naturals, Sequences

CONSTANTS
  Addresses,      \* public addresses the panel may be configured with
  Lifetimes,      \* lifetimes the issuer hands out, in ticks
  MinimumWindow, MaximumWindow,   \* acmeMinimumWindow, acmeMaximumWindow
  LastTick, MaxIssued, MaxMishaps \* bounds

VARIABLES
  mode,           \* TLSMode: "acme" or "files"
  address,        \* PublicAddress of the panel's configuration
  now,
  issued,         \* every certificate there ever was
  keyFile, certFile,  \* whose half the file holds; 0 when there is none
  phase,          \* "down", "ensure", "listen", "serving"
  current,        \* the certificate handshakes get, 0 for none
  task,           \* where obtain stands, "none" when no one is in it
  pending,        \* the certificate being installed
  due,            \* the check timer has not fired in this tick
  retrying,       \* the timer runs with acmeRetryInterval
  torn,           \* history: a write of the pair was cut, not undone, or not synced
  mishaps

disk   == <<keyFile, certFile>>
memory == <<current, task, pending, due, retrying>>
world  == <<mode, address, now, issued>>
vars   == <<world, disk, phase, memory, torn, mishaps>>

Certs == [from : Nat, to : Nat, address : Addresses]
NoFault == UNCHANGED <<torn, mishaps>>
Fault == mishaps < MaxMishaps /\ mishaps' = mishaps + 1

-----------------------------------------------------------------------------
Least(x, y)    == IF x < y THEN x ELSE y
Greatest(x, y) == IF x < y THEN y ELSE x

(* renewalWindow: a third of the lifetime within bounds, never over half.  *)
RenewalWindow(cert) ==
  LET life == cert.to - cert.from IN
    Least(Greatest(Least(life \div 3, MaximumWindow), MinimumWindow), life \div 2)

(* Mutant of NeedsRenewal: renewed once it has expired.                    *)
NeedsRenewalLate(cert) == now >= cert.to

NeedsRenewal(cert) == now + RenewalWindow(cert) >= cert.to

Covers(cert) == cert.address = address

(* What Ensure asks of the certificate the disk had.                       *)
Usable(cert) == Covers(cert) /\ cert.from <= now /\ now < cert.to

(* loadCertificatePair: both halves, of one pair.                          *)
PairOnDisk == keyFile # 0 /\ keyFile = certFile

Init ==
  /\ mode \in {"acme", "files"}
  /\ address \in Addresses
  /\ now = 1
  /\ issued \in {<<>>} \cup {<<[from |-> f, to |-> f + life, address |-> x]>> :
                               f \in {0, 2}, life \in Lifetimes, x \in Addresses}
  /\ mode = "files" => issued # <<>>   \* bootstrap.sh checks the pair
  /\ keyFile = Len(issued) /\ certFile = Len(issued)
  /\ phase = "down"
  /\ current = 0 /\ task = "none" /\ pending = 0
  /\ due = FALSE /\ retrying = FALSE
  /\ torn = FALSE /\ mishaps = 0

-----------------------------------------------------------------------------
(* newCertificateManager takes over what is readable on the disk.          *)
Loaded == IF PairOnDisk THEN certFile ELSE 0

(* New: in files mode the pair has to be there, acme mode can do without.  *)
Start ==
  /\ phase = "down"
  /\ mode = "files" => PairOnDisk
  /\ current' = Loaded
  /\ phase' = IF mode = "files" THEN "listen" ELSE "ensure"
  /\ NoFault /\ UNCHANGED <<world, disk, task, pending, due, retrying>>

Keep == current # 0 /\ Usable(issued[current])

(* Ensure: a good certificate is served at once, an expiring one after an  *)
(* attempt to renew it, anything else only when the issuer delivers.       *)
Ensure ==
  /\ phase = "ensure" /\ task = "none"
  /\ IF Keep /\ ~NeedsRenewal(issued[current])
     THEN phase' = "listen" /\ UNCHANGED task
     ELSE task' = "order" /\ UNCHANGED phase
  /\ NoFault
  /\ UNCHANGED <<world, disk, current, pending, due, retrying>>

(* Listen, and the renewal loop: its first delay is the short one when     *)
(* Ensure has just failed to renew.  A port that is taken ends the panel.  *)
Listen ==
  /\ phase = "listen"
  /\ \/ /\ phase' = "serving"
        /\ retrying' = (mode = "acme" /\ NeedsRenewal(issued[current]))
        /\ due' = FALSE /\ UNCHANGED <<current, task, pending>>
     \/ /\ phase' = "down"
        /\ current' = 0 /\ task' = "none" /\ pending' = 0
        /\ due' = FALSE /\ retrying' = FALSE
  /\ NoFault /\ UNCHANGED <<world, disk>>

(* renewIfNeeded, when the timer of Run fires.                             *)
Check ==
  /\ phase = "serving" /\ mode = "acme" /\ task = "none"
  /\ due \/ retrying
  /\ due' = FALSE
  /\ IF NeedsRenewal(issued[current])
     THEN task' = "order" /\ UNCHANGED retrying
     ELSE retrying' = FALSE /\ UNCHANGED task
  /\ NoFault /\ UNCHANGED <<world, disk, phase, current, pending>>

(* How obtain's caller takes the outcome: Run goes on either way; Ensure   *)
(* keeps a certificate that is still valid and otherwise gives up, which   *)
(* ends the process.                                                       *)
Fails ==
  /\ task' = "none" /\ pending' = 0
  /\ IF phase = "serving"
     THEN retrying' = TRUE /\ UNCHANGED <<phase, current>>
     ELSE /\ UNCHANGED retrying
          /\ phase' = IF Keep THEN "listen" ELSE "down"
          /\ current' = IF Keep THEN current ELSE 0
  /\ UNCHANGED due

(* Obtain, parse, VerifyHostname: a certificate of this address, or none   *)
(* that is any use.                                                        *)
Order ==
  /\ task = "order"
  /\ \/ /\ Len(issued) < MaxIssued
        /\ \E life \in Lifetimes :
             issued' = Append(issued, [from |-> now, to |-> now + life,
                                       address |-> address])
        /\ task' = "writeKey" /\ pending' = Len(issued')
        /\ UNCHANGED <<phase, current, due, retrying>>
     \/ Fails /\ UNCHANGED issued
  /\ NoFault /\ UNCHANGED <<mode, address, now, disk>>

(* writeCertificatePair: the key first.                                    *)
WriteKey ==
  /\ task = "writeKey"
  /\ \/ /\ keyFile' = pending /\ task' = "writeCert" /\ NoFault
        /\ UNCHANGED <<phase, current, pending, due, retrying>>
     \/ Fault /\ Fails /\ UNCHANGED <<keyFile, torn>>
     \/ Fault /\ Fails /\ keyFile' = pending /\ torn' = TRUE
  /\ UNCHANGED <<world, certFile>>

(* atomicfile.WriteFile may fail before its rename or, in the directory    *)
(* sync, after it.                                                         *)
WriteCert ==
  /\ task = "writeCert"
  /\ \/ certFile' = pending /\ task' = "store" /\ NoFault
     \/ certFile' \in {certFile, pending} /\ task' = "dropKey" /\ Fault
        /\ UNCHANGED torn
  /\ UNCHANGED <<world, keyFile, phase, current, pending, due, retrying>>

DropKey ==
  /\ task = "dropKey"
  /\ Fails
  /\ \/ keyFile' = 0 /\ NoFault
     \/ UNCHANGED keyFile /\ Fault /\ torn' = TRUE
  /\ UNCHANGED <<world, certFile>>

(* The listener stays open: the next handshake gets the new certificate.   *)
Store ==
  /\ task = "store"
  /\ current' = pending
  /\ task' = "none" /\ pending' = 0
  /\ IF phase = "serving" THEN retrying' = FALSE /\ UNCHANGED phase
     ELSE phase' = "listen" /\ UNCHANGED retrying
  /\ NoFault /\ UNCHANGED <<world, disk, due>>

-----------------------------------------------------------------------------
(* A stop, a crash, or the listener breaking: obtain ends where it is.     *)
Stop ==
  /\ phase # "down"
  /\ phase' = "down"
  /\ current' = 0 /\ task' = "none" /\ pending' = 0
  /\ due' = FALSE /\ retrying' = FALSE
  /\ IF task \in {"writeCert", "dropKey"}
     THEN Fault /\ torn' = TRUE ELSE NoFault
  /\ UNCHANGED <<world, disk>>

(* The panel is configured with another address.                           *)
Reconfigure ==
  /\ phase = "down"
  /\ address' \in Addresses \ {address}
  /\ Fault /\ UNCHANGED <<mode, now, issued, disk, phase, memory, torn>>

(* A day passes: the timer has fired and its check is over.                *)
Tick ==
  /\ now < LastTick
  /\ phase \in {"down", "serving"} /\ task = "none" /\ ~due
  /\ now' = now + 1
  /\ due' = (phase = "serving" /\ mode = "acme")
  /\ NoFault
  /\ UNCHANGED <<mode, address, issued, disk, phase, current, task, pending,
                 retrying>>

Obtain == Order \/ WriteKey \/ WriteCert \/ DropKey \/ Store

Next == Start \/ Ensure \/ Listen \/ Check \/ Obtain \/ Stop \/ Reconfigure \/ Tick

Spec == Init /\ [][Next]_vars

-----------------------------------------------------------------------------
TypeOK ==
  /\ mode \in {"acme", "files"} /\ address \in Addresses
  /\ now \in 1..LastTick /\ issued \in Seq(Certs)
  /\ {keyFile, certFile, current, pending} \subseteq 0..MaxIssued
  /\ phase \in {"down", "ensure", "listen", "serving"}
  /\ task \in {"none", "order", "writeKey", "writeCert", "dropKey", "store"}
  /\ {due, retrying, torn} \subseteq BOOLEAN
  /\ mishaps \in 0..MaxMishaps

(* In acme mode handshakes always get a certificate of this panel's        *)
(* address, and an expired one only while the issuer fails: the loop is on *)
(* its short interval already, an attempt to renew in time having failed.  *)
ServesValid ==
  mode = "acme" /\ phase = "serving" =>
    /\ current # 0 /\ Covers(issued[current])
    /\ issued[current].to <= now /\ task = "none" => retrying

(* "So the next start does not see a mismatched pair": when nobody is      *)
(* writing the pair, the two files belong together or one is missing,      *)
(* unless the process ended between the two writes, the key could not be   *)
(* taken back, or its write reported an error after its rename, when only  *)
(* the sync of the directory had failed.                                   *)
NeverMismatched ==
  task = "none" /\ ~torn => 0 \in {keyFile, certFile} \/ keyFile = certFile
=============================================================================
