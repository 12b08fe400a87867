----------------------------- MODULE PanelLimiter -----------------------------
(* The download limiter of the public pages (panel/limiter.go and             *)
(* public.go allowDownload): a sliding window of served requests per address,  *)
(* in a table of at most MaxClients addresses.                                *)
(*                                                                           *)
(* Time is counted in half seconds; Retry-After is a whole number of seconds.  *)
EXTENDS Integers, FiniteSets, Sequences

CONSTANTS Clients, MaxPerKey, MaxClients, Period, MaxTime

VARIABLES now,
          entries,   \* address -> the times of its served requests; <<>>: no entry
          served,    \* all it was served since its entry was last evicted
          told,      \* when the last refusal said it may come back; -1: no refusal
          broken     \* it came back then and was refused again

vars == <<now, entries, served, told, broken>>

Second == 2

\* The times from the first on that is after the cutoff.
After(attempts, cutoff) ==
  LET first == CHOOSE i \in 1..(Len(attempts) + 1) :
                 /\ \A j \in 1..(i - 1) : attempts[j] <= cutoff
                 /\ i <= Len(attempts) => attempts[i] > cutoff
  IN  SubSeq(attempts, first, Len(attempts))

\* Mutant of pruneAttempts: a request of exactly one period ago still counts.
pruneAttemptsLate(attempts) == After(attempts, now - Period - 1)

pruneAttempts(attempts) == After(attempts, now - Period)

retryAfterSeconds(retry) ==
  LET seconds == (retry + Second - 1) \div Second
  IN  IF seconds < 1 THEN 1 ELSE seconds

Present == {c \in Clients : entries[c] # <<>>}

LastOf(attempts) == attempts[Len(attempts)]

\* Go's map order is random: any of the entries idle for longest.
evictOldestLocked ==
  {c \in Present : \A d \in Present : LastOf(entries[c]) <= LastOf(entries[d])}

Init ==
  /\ now = 0
  /\ entries = [c \in Clients |-> <<>>]
  /\ served = [c \in Clients |-> <<>>]
  /\ told = [c \in Clients |-> -1]
  /\ broken = FALSE

\* allow: the request is counted and served.
Serve(c) ==
  LET attempts == pruneAttempts(entries[c])
      full     == entries[c] = <<>> /\ Cardinality(Present) >= MaxClients
  IN  /\ Len(attempts) < MaxPerKey
      /\ \E evicted \in IF full THEN {{d} : d \in evictOldestLocked} ELSE {{}} :
           /\ entries' = [d \in Clients |->
                CASE d = c       -> Append(attempts, now)
                  [] d \in evicted -> <<>>
                  [] OTHER       -> entries[d]]
           /\ served' = [d \in Clients |->
                CASE d = c       -> Append(served[c], now)
                  [] d \in evicted -> <<>>
                  [] OTHER       -> served[d]]
      /\ told' = [told EXCEPT ![c] = -1]
      /\ UNCHANGED <<now, broken>>

\* allowDownload: 429 with Retry-After.
Refuse(c) ==
  LET attempts == pruneAttempts(entries[c])
      retry    == attempts[1] + Period - now
  IN  /\ Len(attempts) >= MaxPerKey
      /\ entries' = [entries EXCEPT ![c] = attempts]
      /\ told' = [told EXCEPT ![c] =
                    now + Second * retryAfterSeconds(IF retry < 0 THEN 0 ELSE retry)]
      /\ broken' = (broken \/ (told[c] # -1 /\ now >= told[c]))
      /\ UNCHANGED <<now, served>>

Tick == now < MaxTime /\ now' = now + 1 /\ UNCHANGED <<entries, served, told, broken>>

Next == Tick \/ \E c \in Clients : Serve(c) \/ Refuse(c)

Spec == Init /\ [][Next]_vars

(***************************************************************************)
(* Properties.                                                             *)
(***************************************************************************)
TypeOK ==
  /\ now \in 0..MaxTime /\ broken \in BOOLEAN
  /\ \A c \in Clients : Len(entries[c]) <= MaxPerKey /\ told[c] >= -1

(* An address that keeps its entry gets at most MaxPerKey answers in any      *)
(* period, the table never grows past MaxClients, and who waits as long as     *)
(* Retry-After said is served (limiter.go allow, evictOldestLocked;            *)
(* routes.go retryAfterSeconds).                                              *)
LimitIsFair ==
  /\ \A c \in Clients :
       Cardinality({i \in DOMAIN served[c] : served[c][i] > now - Period}) <= MaxPerKey
  /\ Cardinality(Present) <= MaxClients
  /\ ~broken
=============================================================================
