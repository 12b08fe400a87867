-------------------------- MODULE PanelAuthProofs ---------------------------
(***************************************************************************)
(* Proofs about what the panel process keeps in memory: passwords and      *)
(* sessions (PanelAuth), for any number of browsers, passwords, failed     *)
(* file operations and kills, and the download limiter and the metrics as  *)
(* the parts of MCPanelAuth, for any limit, period and chart.              *)
(*                                                                         *)
(* IdInv ties sessions, cookies and login tokens together, which bounds    *)
(* the ids in use, so that a fresh one always exists.  TriesInv counts the *)
(* requests that have passed the limiter and have not been judged.  On     *)
(* these rest the types.  GateInv, LockInv and StoreInv then say what a    *)
(* request, the change lock, the start of the panel and a reset know of    *)
(* the password at each of their steps.                                    *)
(***************************************************************************)
EXTENDS MCPanelAuth, FiniteSetTheorems, SequenceTheorems, WellFoundedInduction,
        TLAPS

Keys == {"login", "password"}
Locked == {"check", "write", "activate", "unmark"}

(* TypeOK without the bound of the attempts, which needs TriesInv.         *)
FileTypes ==
  /\ authFile \in Passwords \cup {None} /\ initialFile \in Passwords \cup {None}
  /\ panel \in {"down", "record", "initial", "undo", "up"}
  /\ hash \in Passwords \cup {None} /\ mustChange \in BOOLEAN
  /\ reset \in Resets
  /\ nextTemp \in 1..(MaxTemps + 1) /\ faults \in 0..MaxFaults
  /\ told \subseteq Temps
  /\ disturbed \in BOOLEAN /\ failedChange \in BOOLEAN

BrowserTypes ==
  /\ changeMu \in Browsers \cup {None}
  /\ sessions \in [DOMAIN sessions -> BOOLEAN] /\ DOMAIN sessions \subseteq Ids
  /\ tokens \in Seq(Ids) /\ Len(tokens) <= MaxTokens
  /\ attempts \in [Keys -> Nat]
  /\ cookie \in [Browsers -> Ids \cup {None}] /\ form \in [Browsers -> Ids \cup {None}]
  /\ req \in [Browsers -> Requests]

Types == FileTypes /\ BrowserTypes

(* Every session is some browser's; a browser that is signing in has none, *)
(* and one that changes its password shows no login form.                  *)
IdInv ==
  /\ \A id \in DOMAIN sessions : \E b \in Browsers : cookie[b] = id
  /\ \A b \in Browsers :
       /\ form[b] # None \/ req[b].pc \in {"compare", "create"} => ~SignedIn(b)
       /\ Changing(b) => req[b].id = cookie[b] /\ form[b] = None

(* Attempts that are admitted and not yet judged.                          *)
Judging(key) == IF key = "login" THEN {"compare"} ELSE {"lock", "check"}
Pending(key) == {b \in Browsers : req[b].pc \in Judging(key)}

TriesInv ==
  \A key \in Keys :
    attempts[key] + Cardinality(Pending(key)) <= MaxAttempts + Cardinality(Browsers) - 1

(* Requests exist in a running panel; nobody is exempt from the demand.    *)
GateInv ==
  /\ panel # "up" =>
       /\ DOMAIN sessions = {} /\ ~mustChange /\ changeMu = None
       /\ \A b \in Browsers : req[b].pc = "idle"
  /\ mustChange =>
       /\ \A id \in DOMAIN sessions : sessions[id]
       /\ \A b \in Browsers :
            /\ req[b].pc = "create" => req[b].must
            /\ req[b].pc \notin {"unmark", "rotate"}

(* What the holder of the change lock knows.                               *)
LockInv ==
  /\ OneChangeAtATime
  /\ \A b \in Browsers :
       /\ req[b].pc \in Locked \cup {"lock"} => req[b].next \in Chosen
       /\ req[b].pc = "check" /\ req[b].right => req[b].cur = hash
       /\ req[b].pc \in {"write", "activate"} => req[b].cur = hash
       /\ req[b].pc = "activate" => authFile = req[b].next
       /\ req[b].pc = "unmark" => hash = authFile /\ authFile = req[b].next
       /\ req[b].pc \in {"check", "write"} /\ ~failedChange => hash = authFile
  /\ MemoryMatchesDisk

(* What a start of the panel and a reset know of the files.                *)
Untold(p) == p \in Temps /\ p < nextTemp /\ p \notin told

StoreInv ==
  /\ \A p \in told : p < nextTemp
  /\ panel \in {"record", "initial", "undo"} => Untold(hash)
  /\ panel \in {"initial", "undo"} => authFile = hash
  /\ panel # "down" => reset = NoReset
  /\ Resetting => Untold(reset.temp)
  /\ reset.pc \in {"initial", "undoRecord"} => authFile = reset.temp
  /\ reset.pc = "undoInitial" => authFile \in {reset.temp, reset.oldAuth}
  /\ reset.pc = "initial" => initialFile = reset.oldInitial
  /\ reset.pc \in {"undoRecord", "undoInitial"} =>
       initialFile \in {reset.temp, reset.oldInitial}
  /\ reset.pc = "record" => store = <<reset.oldAuth, reset.oldInitial>>
  /\ authFile \in told => initialFile # None
  /\ Resetting /\ reset.oldAuth \in told => reset.oldInitial # None
  /\ panel = "up" /\ hash \in Temps /\ (hash \in told \/ hash = initialFile) => mustChange

(* The same with at most one failed operation, before its rename.          *)
CleanInv ==
  ~disturbed =>
    /\ panel = "record" => authFile = None
    /\ panel = "undo" \/ reset.pc \in {"undoRecord", "undoInitial"} => faults > 0
    /\ reset.pc = "undoRecord" => initialFile = reset.oldInitial
    /\ faults <= 1 =>
         /\ reset.pc = "undoInitial" => authFile = reset.oldAuth
         /\ reset.pc \in {"undoInitial", "error"} => initialFile = reset.oldInitial
         /\ reset.pc = "error" => authFile = reset.oldAuth
         /\ panel \in {"down", "up"} /\ ~Resetting /\ authFile # None => authFile \in Known
         /\ Resetting /\ reset.oldAuth # None =>
              reset.oldAuth \in Chosen \cup told \cup {reset.oldInitial}

-----------------------------------------------------------------------------
(* Fresh ids.                                                              *)
LEMMA RangeBound ==
  ASSUME NEW S, NEW T, IsFiniteSet(S), NEW f \in [S -> T]
  PROVE  IsFiniteSet(Range(f)) /\ Cardinality(Range(f)) <= Cardinality(S)
<1>1. f \in Surjection(S, Range(f))
  BY DEF Surjection, Range
<1> QED
  BY <1>1, FS_Surjection

LEMMA FreshIsNew ==
  ASSUME BrowserTypes, IdInv
  PROVE  /\ Fresh \in Ids /\ Fresh \notin Range(tokens) /\ Fresh \notin DOMAIN sessions
         /\ \A b \in Browsers : cookie[b] # Fresh /\ form[b] # Fresh
<1> USE PanelAuthAssumptions
<1> DEFINE n == Cardinality(Browsers)
           H == Range(tokens) \cup Range(cookie) \cup Range(form)
<1>1. n \in Nat
  BY FS_CardinalityType
<1>2. IsFiniteSet(Ids) /\ Cardinality(Ids) = 3 * n + MaxTokens + 1
  <2>1. 3 * n + MaxTokens + 1 \in Int /\ 1 <= 3 * n + MaxTokens + 1
    BY <1>1
  <2> QED
    BY <2>1, FS_Interval DEF Ids
<1>3. IsFiniteSet(Range(tokens)) /\ Cardinality(Range(tokens)) <= MaxTokens
  <2>1. PICK m \in Nat : m <= MaxTokens /\ tokens \in [1..m -> Ids]
    BY DEF BrowserTypes
  <2>2. IsFiniteSet(1..m) /\ Cardinality(1..m) = m
    BY <2>1, FS_Interval
  <2>3. IsFiniteSet(Range(tokens)) /\ Cardinality(Range(tokens)) <= m
    BY <2>1, <2>2, RangeBound
  <2> QED
    BY <2>1, <2>3, FS_CardinalityType
<1>4. IsFiniteSet(Range(cookie)) /\ Cardinality(Range(cookie)) <= n
  BY RangeBound DEF BrowserTypes
<1>5. IsFiniteSet(Range(form)) /\ Cardinality(Range(form)) <= n
  BY RangeBound DEF BrowserTypes
<1>6. IsFiniteSet(H) /\ Cardinality(H) <= MaxTokens + n + n
  <2> DEFINE A == Range(tokens)  B == Range(cookie)  C == Range(form)
  <2> HIDE DEF A, B, C
  <2>1. IsFiniteSet(A \cup B) /\ Cardinality(A \cup B) <= MaxTokens + n
    <3>1. IsFiniteSet(A) /\ IsFiniteSet(B) /\ Cardinality(A) <= MaxTokens /\ Cardinality(B) <= n
      BY <1>3, <1>4 DEF A, B
    <3>2. /\ IsFiniteSet(A \cup B)
          /\ Cardinality(A \cup B) = Cardinality(A) + Cardinality(B) - Cardinality(A \cap B)
      BY <3>1, FS_Union
    <3>3. /\ Cardinality(A \cap B) \in Nat /\ Cardinality(A) \in Nat
          /\ Cardinality(B) \in Nat
      BY <3>1, FS_Intersection, FS_CardinalityType
    <3> QED
      BY <1>1, <3>1, <3>2, <3>3
  <2>2. IsFiniteSet(C) /\ Cardinality(C) <= n
    BY <1>5 DEF C
  <2>3. /\ IsFiniteSet((A \cup B) \cup C)
        /\ Cardinality((A \cup B) \cup C)
             = Cardinality(A \cup B) + Cardinality(C) - Cardinality((A \cup B) \cap C)
    BY <2>1, <2>2, FS_Union
  <2>4. /\ Cardinality((A \cup B) \cap C) \in Nat /\ Cardinality(A \cup B) \in Nat
        /\ Cardinality(C) \in Nat /\ MaxTokens \in Nat
    BY <2>1, <2>2, FS_Intersection, FS_CardinalityType
  <2>5. H = (A \cup B) \cup C
    BY DEF A, B, C
  <2>6. /\ IsFiniteSet((A \cup B) \cup C)
        /\ Cardinality((A \cup B) \cup C) <= MaxTokens + n + n
    BY <1>1, <2>1, <2>2, <2>3, <2>4
  <2> QED
    BY <2>5, <2>6
<1>7. Held \subseteq H
  <2>1. cookie \in [Browsers -> Ids \cup {None}]
    BY DEF BrowserTypes
  <2>2. \A b \in Browsers : cookie[b] \in Range(cookie)
    BY <2>1 DEF Range
  <2>3. DOMAIN sessions \subseteq Range(cookie)
    BY <2>2 DEF IdInv
  <2>4. {req[b].id : b \in {b \in Browsers : Changing(b)}} \subseteq Range(cookie)
    BY <2>2 DEF IdInv
  <2> QED
    BY <2>3, <2>4 DEF Held
<1>8. ~(Ids \subseteq H)
  <2>1. Ids \subseteq H => Cardinality(Ids) <= Cardinality(H)
    BY <1>6, FS_Subset
  <2>2. Cardinality(H) \in Nat
    BY <1>6, FS_CardinalityType
  <2> QED
    BY <1>1, <1>2, <1>6, <2>1, <2>2
<1>9. Fresh \in Ids /\ Fresh \notin Held
  BY <1>7, <1>8 DEF Fresh, FreshOf
<1>10. \A b \in Browsers : cookie[b] \in Held /\ form[b] \in Held
  BY DEF BrowserTypes, Held, Range
<1> QED
  BY <1>9, <1>10 DEF Held

-----------------------------------------------------------------------------
(* Types                                                                   *)
LEMMA Secrets ==
  /\ Temps \subseteq Passwords /\ Chosen \subseteq Passwords
  /\ Temps \cap Chosen = {} /\ None \notin Passwords
  /\ nextTemp \in 1..(MaxTemps + 1) /\ nextTemp <= MaxTemps =>
       nextTemp \in Temps /\ nextTemp + 1 \in 1..(MaxTemps + 1)
BY PanelAuthAssumptions DEF Temps, Passwords

LEMMA FaultTypes ==
  ASSUME FileTypes, Succeeds \/ Fails
  PROVE  faults' \in 0..MaxFaults
BY PanelAuthAssumptions DEF FileTypes, Succeeds, Fails

LEMMA WriteTypes ==
  ASSUME FileTypes, NEW p \in Passwords \cup {None}
  PROVE  /\ WriteAuth(p) \/ WriteAuthFails(p) =>
              /\ authFile' \in {authFile, p} /\ disturbed' \in BOOLEAN
              /\ Succeeds \/ Fails
         /\ WriteInitial(p) \/ WriteInitialFails(p) =>
              /\ initialFile' \in {initialFile, p} /\ disturbed' \in BOOLEAN
              /\ Succeeds \/ Fails
BY DEF FileTypes, WriteAuth, WriteAuthFails, WriteInitial, WriteInitialFails, Succeeds

LEMMA FileTypesStep ==
  ASSUME FileTypes, BrowserTypes, StoreInv, [Next]_vars
  PROVE  FileTypes'
<1> USE DEF FileTypes
<1>1. CASE OpenLoad
  BY <1>1, Secrets DEF OpenLoad, store, NoReset, Resets, ResetPcs
<1>2. CASE OpenGenerate
  BY <1>2, Secrets DEF OpenGenerate, store, history, NoReset, Resets, ResetPcs
<1>3. CASE OpenWriteRecord
  BY <1>3, Secrets, FaultTypes, WriteTypes DEF OpenWriteRecord
<1>4. CASE OpenWriteInitial
  BY <1>4, Secrets, FaultTypes, WriteTypes DEF OpenWriteInitial, StoreInv, Untold
<1>5. CASE OpenUndo
  BY <1>5, Secrets, FaultTypes DEF OpenUndo, Succeeds
<1>6. CASE StopPanel \/ KillPanel
  BY <1>6, FaultTypes DEF StopPanel, KillPanel, Gone, store
<1>7. CASE ResetStart
  BY <1>7, Secrets DEF ResetStart, ResetKeepsRest, store, memory, Resets, ResetPcs
<1>8. CASE ResetWriteRecord
  <2>1. reset.temp \in Passwords
    BY <1>8, Secrets DEF ResetWriteRecord, StoreInv, Resetting, Untold
  <2> QED
    BY <1>8, <2>1, FaultTypes, WriteTypes
    DEF ResetWriteRecord, ResetKeepsRest, memory, Resets, ResetPcs
<1>9. CASE ResetWriteInitial
  <2>1. reset.temp \in Temps
    BY <1>9, Secrets DEF ResetWriteInitial, StoreInv, Resetting, Untold
  <2> QED
    BY <1>9, <2>1, Secrets, FaultTypes, WriteTypes
    DEF ResetWriteInitial, ResetKeepsRest, memory, Resets, ResetPcs
<1>10. CASE ResetUndoRecord
  <2>1. reset.oldAuth \in Passwords \cup {None}
    BY DEF Resets
  <2> QED
    BY <1>10, <2>1, FaultTypes, WriteTypes
    DEF ResetUndoRecord, ResetKeepsRest, memory, Resets, ResetPcs
<1>11. CASE ResetUndoInitial
  <2>1. reset.oldInitial \in Passwords \cup {None}
    BY DEF Resets
  <2> QED
    BY <1>11, <2>1, FaultTypes, WriteTypes
    DEF ResetUndoInitial, ResetKeepsRest, memory, Resets, ResetPcs
<1>12. CASE KillReset
  BY <1>12, FaultTypes DEF KillReset, store, memory, NoReset, Resets, ResetPcs
<1>13. CASE \E b \in Browsers :
              \/ LoginCompare(b) \/ LoginCreate(b) \/ ChangeLock(b) \/ ChangeCheck(b)
              \/ PasswordRotate(b) \/ Request(b)
  BY <1>13
  DEF LoginCompare, LoginCreate, ChangeLock, ChangeCheck, PasswordRotate, Request,
      LoginGet, LoginPost, Logout, PasswordPost, HandlersKeep, NoFiles, store, memory
<1>14. ASSUME NEW b \in Browsers, ChangeWrite(b)
       PROVE  FileTypes'
  <2>1. req[b].next \in Passwords \cup {None}
    BY <1>14, Secrets DEF BrowserTypes, Requests
  <2> QED
    BY <1>14, <2>1, FaultTypes, WriteTypes DEF ChangeWrite, HandlersKeep, memory
<1>15. ASSUME NEW b \in Browsers, ChangeActivate(b)
       PROVE  FileTypes'
  <2>1. req[b].next \in Passwords \cup {None}
    BY <1>15, Secrets DEF BrowserTypes, Requests
  <2> QED
    BY <1>15, <2>1 DEF ChangeActivate, HandlersKeep, NoFiles, store
<1>16. ASSUME NEW b \in Browsers, ChangeUnmark(b)
       PROVE  FileTypes'
  BY <1>16, FaultTypes DEF ChangeUnmark, HandlersKeep, memory, Succeeds
<1>17. CASE SessionExpires \/ TokenExpires \/ AttemptAges
  BY <1>17 DEF SessionExpires, TokenExpires, AttemptAges, ClockKeeps, store, memory, history
<1>18. CASE UNCHANGED vars
  BY <1>18 DEF vars, store, memory, history
<1> QED
  BY <1>1, <1>2, <1>3, <1>4, <1>5, <1>6, <1>7, <1>8, <1>9, <1>10, <1>11, <1>12,
     <1>13, <1>14, <1>15, <1>16, <1>17, <1>18
  DEF Next, Open, ResetCommand, Handler

LEMMA TokenTypes ==
  ASSUME BrowserTypes, NEW id \in Ids
  PROVE  LET new == Append(IF Len(tokens) >= MaxTokens THEN Tail(tokens) ELSE tokens, id)
         IN  new \in Seq(Ids) /\ Len(new) <= MaxTokens
<1> DEFINE left == IF Len(tokens) >= MaxTokens THEN Tail(tokens) ELSE tokens
<1>1. left \in Seq(Ids) /\ Len(left) + 1 <= MaxTokens
  BY PanelAuthAssumptions DEF BrowserTypes
<1> HIDE DEF left
<1>2. Append(left, id) \in Seq(Ids) /\ Len(Append(left, id)) = Len(left) + 1
  BY <1>1
<1> QED
  BY <1>1, <1>2 DEF left

LEMMA LessTokens ==
  ASSUME BrowserTypes
  PROVE  /\ tokens # <<>> => Tail(tokens) \in Seq(Ids) /\ Len(Tail(tokens)) <= MaxTokens
         /\ \A k \in 1..Len(tokens) :
              RemoveAt(tokens, k) \in Seq(Ids) /\ Len(RemoveAt(tokens, k)) <= MaxTokens
<1>1. tokens # <<>> => Tail(tokens) \in Seq(Ids) /\ Len(Tail(tokens)) <= MaxTokens
  BY PanelAuthAssumptions DEF BrowserTypes
<1>2. ASSUME NEW k \in 1..Len(tokens)
      PROVE  RemoveAt(tokens, k) \in Seq(Ids) /\ Len(RemoveAt(tokens, k)) <= MaxTokens
  <2> DEFINE front == SubSeq(tokens, 1, k - 1)
             rest  == SubSeq(tokens, k + 1, Len(tokens))
  <2>1. front \in Seq(Ids) /\ Len(front) = k - 1
    BY DEF BrowserTypes
  <2>2. rest \in Seq(Ids) /\ Len(rest) = Len(tokens) - k
    BY DEF BrowserTypes
  <2> HIDE DEF front, rest
  <2>3. front \o rest \in Seq(Ids) /\ Len(front \o rest) = Len(tokens) - 1
    BY <2>1, <2>2 DEF BrowserTypes
  <2> QED
    BY <2>3, PanelAuthAssumptions DEF RemoveAt, front, rest, BrowserTypes
<1> QED
  BY <1>1, <1>2

LEMMA AnswerTypes ==
  ASSUME BrowserTypes, IdInv, NEW b \in Browsers, AnswerLogin(b, tokens)
  PROVE  /\ tokens' \in Seq(Ids) /\ Len(tokens') <= MaxTokens
         /\ form' \in [Browsers -> Ids \cup {None}]
         /\ req' \in [Browsers -> Requests]
<1>1. Idle \in Requests
  BY DEF Idle, Requests, Pcs
<1> QED
  BY <1>1, FreshIsNew, TokenTypes DEF BrowserTypes, AnswerLogin

LEMMA SessionTypes ==
  ASSUME BrowserTypes, NEW id, NEW must \in BOOLEAN, NEW table,
         table \in {sessions, Without(id)}, IdInv
  PROVE  /\ DOMAIN Without(id) \subseteq Ids
         /\ Without(id) \in [DOMAIN Without(id) -> BOOLEAN]
         /\ WithNew(table, must) \in [DOMAIN WithNew(table, must) -> BOOLEAN]
         /\ DOMAIN WithNew(table, must) \subseteq Ids
BY FreshIsNew DEF BrowserTypes, Without, WithNew

LEMMA RequestTypes ==
  ASSUME BrowserTypes, NEW b \in Browsers
  PROVE  /\ Idle \in Requests
         /\ \A r \in Requests : [req EXCEPT ![b] = r] \in [Browsers -> Requests]
<1>1. Idle \in Requests
  BY DEF Idle, Requests, Pcs
<1>2. \A r \in Requests : [req EXCEPT ![b] = r] \in [Browsers -> Requests]
  BY DEF BrowserTypes
<1> QED
  BY <1>1, <1>2

LEMMA AttemptTypes ==
  ASSUME BrowserTypes, NEW key \in Keys
  PROVE  FailedTry(key) \/ ResetTries(key) => attempts' \in [Keys -> Nat]
BY DEF BrowserTypes, FailedTry, ResetTries

LEMMA BrowserTypesStep ==
  ASSUME FileTypes, BrowserTypes, IdInv, [Next]_vars
  PROVE  BrowserTypes'
<1> USE DEF BrowserTypes
<1>0. Idle \in Requests
  BY DEF Idle, Requests, Pcs
<1>1. CASE Open \/ ResetCommand \/ KillReset
  BY <1>1
  DEF Open, OpenLoad, OpenGenerate, OpenWriteRecord, OpenWriteInitial, OpenUndo,
      ResetCommand, ResetStart, ResetWriteRecord, ResetWriteInitial,
      ResetUndoRecord, ResetUndoInitial, KillReset, ResetKeepsRest, tables, client
<1>2. CASE StopPanel \/ KillPanel
  <2>1. Gone
    BY <1>2 DEF StopPanel, KillPanel
  <2>2. <<>> \in [DOMAIN <<>> -> BOOLEAN] /\ DOMAIN <<>> \subseteq Ids
    OBVIOUS
  <2>3. <<>> \in Seq(Ids) /\ Len(<<>>) <= MaxTokens
    BY PanelAuthAssumptions
  <2> QED
    BY <1>0, <2>1, <2>2, <2>3 DEF Gone, Keys
<1>3. CASE SessionExpires
  BY <1>3, SessionTypes DEF SessionExpires, ClockKeeps, client
<1>4. CASE TokenExpires
  BY <1>4, LessTokens DEF TokenExpires, ClockKeeps, client
<1>5. CASE AttemptAges
  BY <1>5 DEF AttemptAges, ClockKeeps, client
<1>6. CASE UNCHANGED vars
  BY <1>6 DEF vars, tables, client
<1>7. ASSUME NEW b \in Browsers, Handler(b) \/ Request(b)
      PROVE  BrowserTypes'
  <2>1. CASE LoginCompare(b)
    <3>1. attempts' \in [Keys -> Nat]
      BY <2>1, AttemptTypes DEF LoginCompare, Keys
    <3>2. /\ tokens' \in Seq(Ids) /\ Len(tokens') <= MaxTokens
          /\ form' \in [Browsers -> Ids \cup {None}]
          /\ req' \in [Browsers -> Requests]
      <4>1. CASE AnswerLogin(b, tokens)
        BY <4>1, AnswerTypes
      <4>2. CASE ~AnswerLogin(b, tokens)
        <5>1. [Idle EXCEPT !.pc = "create", !.must = mustChange] \in Requests
          BY DEF FileTypes, Idle, Requests, Pcs
        <5> QED
          BY <2>1, <4>2, <5>1, RequestTypes DEF LoginCompare
      <4> QED
        BY <4>1, <4>2
    <3> QED
      BY <2>1, <3>1, <3>2 DEF LoginCompare, memory
  <2>2. CASE LoginCreate(b)
    BY <1>0, <2>2, FreshIsNew, SessionTypes
    DEF LoginCreate, HandlersKeep, NoFiles, memory, Requests
  <2>3. CASE ChangeLock(b)
    <3>1. [req[b] EXCEPT !.pc = "check", !.right = (req[b].cur = hash)] \in Requests
      BY DEF Requests, Pcs
    <3>2. req' = [req EXCEPT ![b] = [req[b] EXCEPT !.pc = "check",
                                                   !.right = (req[b].cur = hash)]]
      BY <2>3 DEF ChangeLock
    <3>3. req' \in [Browsers -> Requests]
      BY <3>1, <3>2, RequestTypes
    <3> QED
      BY <2>3, <3>3 DEF ChangeLock, tables, client
  <2>4. CASE ChangeCheck(b)
    <3>1. req' \in [Browsers -> Requests]
      <4>1. [req[b] EXCEPT !.pc = "write"] \in Requests
        BY DEF Requests, Pcs
      <4>2. \/ req' = [req EXCEPT ![b] = [req[b] EXCEPT !.pc = "write"]]
            \/ req' = [req EXCEPT ![b] = Idle]
        BY <2>4 DEF ChangeCheck
      <4> QED
        BY <4>1, <4>2, RequestTypes
    <3>2. attempts' \in [Keys -> Nat]
      BY <2>4, AttemptTypes DEF ChangeCheck, Keys
    <3> QED
      BY <2>4, <3>1, <3>2 DEF ChangeCheck, client
  <2>10. CASE ChangeWrite(b) \/ ChangeActivate(b) \/ ChangeUnmark(b)
    <3>1. req' \in [Browsers -> Requests]
      <4>1. /\ [req[b] EXCEPT !.pc = "activate"] \in Requests
            /\ [req[b] EXCEPT !.pc = "unmark"] \in Requests
            /\ [req[b] EXCEPT !.pc = "rotate"] \in Requests
        BY DEF Requests, Pcs
      <4>2. \/ req' = [req EXCEPT ![b] = [req[b] EXCEPT !.pc = "activate"]]
            \/ req' = [req EXCEPT ![b] = [req[b] EXCEPT !.pc = "unmark"]]
            \/ req' = [req EXCEPT ![b] = [req[b] EXCEPT !.pc = "rotate"]]
            \/ req' = [req EXCEPT ![b] = Idle]
        BY <2>10 DEF ChangeWrite, ChangeActivate, ChangeUnmark
      <4> QED
        BY <4>1, <4>2, RequestTypes
    <3> QED
      BY <2>10, <3>1 DEF ChangeWrite, ChangeActivate, ChangeUnmark, tables, client
  <2>5. CASE PasswordRotate(b)
    BY <1>0, <2>5, FreshIsNew, SessionTypes DEF PasswordRotate, ResetTries, Keys
  <2>6. CASE LoginGet(b)
    BY <2>6, AnswerTypes DEF LoginGet
  <2>7. ASSUME NEW pw, LoginPost(b, pw)
        PROVE  BrowserTypes'
    <3>1. CASE AnswerLogin(b, tokens)
      BY <2>7, <3>1, AnswerTypes DEF LoginPost
    <3>2. CASE ~AnswerLogin(b, tokens)
      <4>1. req' = [req EXCEPT ![b] = [Idle EXCEPT !.pc = "compare", !.right = (pw = hash)]]
        BY <2>7, <3>2 DEF LoginPost
      <4>2. [Idle EXCEPT !.pc = "compare", !.right = (pw = hash)] \in Requests
        BY DEF Idle, Requests, Pcs
      <4> QED
        BY <2>7, <3>2, <4>1, <4>2, LessTokens DEF LoginPost
    <3> QED
      BY <3>1, <3>2
  <2>8. CASE Logout(b)
    BY <2>8, SessionTypes DEF Logout
  <2>9. ASSUME NEW cur \in Known, NEW next \in Chosen, PasswordPost(b, cur, next)
        PROVE  BrowserTypes'
    <3>1. cur \in Passwords
      BY Secrets DEF Known, FileTypes
    <3> QED
      BY <2>9, <3>1 DEF PasswordPost, tables, client, Idle, Requests, Pcs
  <2> QED
    BY <1>7, <2>1, <2>2, <2>3, <2>4, <2>5, <2>6, <2>7, <2>8, <2>9,
       <2>10
    DEF Handler, Request
<1> QED
  BY <1>1, <1>2, <1>3, <1>4, <1>5, <1>6, <1>7 DEF Next
-----------------------------------------------------------------------------
(* What a step of one browser leaves alone.                                *)
LEMMA Elsewhere ==
  ASSUME BrowserTypes, NEW b \in Browsers, Handler(b) \/ Request(b),
         NEW c \in Browsers, c # b
  PROVE  req'[c] = req[c] /\ cookie'[c] = cookie[c] /\ form'[c] = form[c]
<1> USE DEF BrowserTypes
<1>1. CASE LoginCompare(b) \/ LoginCreate(b) \/ PasswordRotate(b)
  BY <1>1 DEF LoginCompare, LoginCreate, PasswordRotate, AnswerLogin
<1>2. CASE ChangeLock(b) \/ ChangeCheck(b) \/ ChangeWrite(b) \/ ChangeActivate(b)
             \/ ChangeUnmark(b)
  BY <1>2 DEF ChangeLock, ChangeCheck, ChangeWrite, ChangeActivate, ChangeUnmark, client
<1>3. CASE Request(b)
  BY <1>3 DEF Request, LoginGet, LoginPost, Logout, PasswordPost, AnswerLogin, client
<1> QED
  BY <1>1, <1>2, <1>3 DEF Handler

(* Where a step of a browser takes its request.                            *)
LEMMA Moves ==
  ASSUME BrowserTypes, NEW b \in Browsers
  PROVE  /\ LoginGet(b) \/ (\E left : AnswerLogin(b, left)) \/ LoginCreate(b)
              \/ PasswordRotate(b) => req'[b] = Idle
         /\ \A pw : LoginPost(b, pw) =>
              \/ req'[b] = Idle
              \/ req'[b].pc = "compare" /\ req'[b].right = (pw = hash) /\ Allowed("login")
         /\ LoginCompare(b) =>
              \/ req'[b] = Idle
              \/ req'[b].pc = "create" /\ req[b].right /\ req'[b].must = mustChange
         /\ Logout(b) => req'[b] = Idle
         /\ \A cur, next : PasswordPost(b, cur, next) =>
              req'[b].pc = "lock" /\ req'[b].next = next /\ req'[b].id = cookie[b]
         /\ ChangeLock(b) =>
              /\ req'[b].pc = "check" /\ req'[b].right = (req[b].cur = hash)
              /\ req'[b].cur = req[b].cur /\ req'[b].next = req[b].next
         /\ ChangeCheck(b) =>
              \/ req'[b] = Idle
              \/ /\ req'[b].pc = "write" /\ req[b].right
                 /\ req'[b].cur = req[b].cur /\ req'[b].next = req[b].next
         /\ ChangeWrite(b) =>
              \/ req'[b] = Idle
              \/ /\ req'[b].pc = "activate"
                 /\ req'[b].cur = req[b].cur /\ req'[b].next = req[b].next
         /\ ChangeActivate(b) =>
              /\ req'[b].pc = "unmark"
              /\ req'[b].cur = req[b].cur /\ req'[b].next = req[b].next
         /\ ChangeUnmark(b) => req'[b].pc = "rotate"
<1> USE DEF BrowserTypes
<1>0. ASSUME NEW r, req' = [req EXCEPT ![b] = r]
      PROVE  req'[b] = r
  BY <1>0
<1>1. LoginGet(b) \/ (\E left : AnswerLogin(b, left)) \/ LoginCreate(b)
        \/ PasswordRotate(b) => req'[b] = Idle
  BY DEF LoginGet, AnswerLogin, LoginCreate, PasswordRotate
<1>2. ASSUME NEW pw, LoginPost(b, pw)
      PROVE  \/ req'[b] = Idle
             \/ req'[b].pc = "compare" /\ req'[b].right = (pw = hash) /\ Allowed("login")
  <2> DEFINE new == [Idle EXCEPT !.pc = "compare", !.right = (pw = hash)]
  <2>1. new.pc = "compare" /\ new.right = (pw = hash)
    BY DEF Idle
  <2>2. \/ req' = [req EXCEPT ![b] = Idle]
        \/ req' = [req EXCEPT ![b] = new] /\ Allowed("login")
    BY <1>2 DEF LoginPost, AnswerLogin
  <2> HIDE DEF new
  <2> QED
    BY <1>0, <2>1, <2>2
<1>3. ASSUME LoginCompare(b)
      PROVE  \/ req'[b] = Idle
             \/ req'[b].pc = "create" /\ req[b].right /\ req'[b].must = mustChange
  <2> DEFINE new == [Idle EXCEPT !.pc = "create", !.must = mustChange]
  <2>1. new.pc = "create" /\ new.must = mustChange
    BY DEF Idle
  <2>2. \/ req' = [req EXCEPT ![b] = Idle]
        \/ req' = [req EXCEPT ![b] = new] /\ req[b].right
    BY <1>3 DEF LoginCompare, AnswerLogin
  <2> HIDE DEF new
  <2> QED
    BY <1>0, <2>1, <2>2
<1>4. Logout(b) => req'[b] = Idle
  BY DEF Logout
<1>5. ASSUME NEW cur, NEW next, PasswordPost(b, cur, next)
      PROVE  req'[b].pc = "lock" /\ req'[b].next = next /\ req'[b].id = cookie[b]
  BY <1>5 DEF PasswordPost, Idle
<1>6. ASSUME ChangeLock(b)
      PROVE  /\ req'[b].pc = "check" /\ req'[b].right = (req[b].cur = hash)
             /\ req'[b].cur = req[b].cur /\ req'[b].next = req[b].next
  <2>1. req'[b] = [req[b] EXCEPT !.pc = "check", !.right = (req[b].cur = hash)]
    BY <1>6 DEF ChangeLock
  <2>2. req[b] \in Requests
    OBVIOUS
  <2> QED
    BY <2>1, <2>2 DEF Requests
<1>7. ASSUME NEW pc, req'[b] = [req[b] EXCEPT !.pc = pc]
      PROVE  /\ req'[b].pc = pc /\ req'[b].right = req[b].right
             /\ req'[b].cur = req[b].cur /\ req'[b].next = req[b].next
  BY <1>7 DEF Requests
<1>8. ASSUME ChangeCheck(b)
      PROVE  req'[b] = Idle \/ (req[b].right /\ req'[b] = [req[b] EXCEPT !.pc = "write"])
  <2>1. CASE req[b].right /\ req' = [req EXCEPT ![b].pc = "write"]
    <3>1. req'[b] = [req[b] EXCEPT !.pc = "write"]
      BY <2>1
    <3> QED
      BY <2>1, <3>1
  <2>2. CASE req' = [req EXCEPT ![b] = Idle]
    <3>1. req'[b] = Idle
      BY <1>0, <2>2
    <3> QED
      BY <3>1
  <2> QED
    BY <1>8, <2>1, <2>2 DEF ChangeCheck
<1>9. ASSUME ChangeWrite(b)
      PROVE  req'[b] = Idle \/ req'[b] = [req[b] EXCEPT !.pc = "activate"]
  BY <1>9 DEF ChangeWrite
<1>10. ChangeActivate(b) => req'[b] = [req[b] EXCEPT !.pc = "unmark"]
  BY DEF ChangeActivate
<1>11. ChangeUnmark(b) => req'[b] = [req[b] EXCEPT !.pc = "rotate"]
  BY DEF ChangeUnmark
<1> QED
  BY <1>1, <1>2, <1>3, <1>4, <1>5, <1>6, <1>7, <1>8, <1>9, <1>10, <1>11

LEMMA IdStep ==
  ASSUME BrowserTypes, IdInv, [Next]_vars
  PROVE  IdInv'
<1> USE DEF IdInv, SignedIn, Changing
<1>0. \A b \in Browsers : req[b].pc = "idle" => ~Changing(b)
  OBVIOUS
<1>1. CASE Open \/ ResetCommand \/ KillReset \/ TokenExpires \/ AttemptAges
             \/ UNCHANGED vars
  BY <1>1
  DEF Open, OpenLoad, OpenGenerate, OpenWriteRecord, OpenWriteInitial, OpenUndo,
      ResetCommand, ResetStart, ResetWriteRecord, ResetWriteInitial,
      ResetUndoRecord, ResetUndoInitial, KillReset, ResetKeepsRest, tables, client,
      TokenExpires, AttemptAges, ClockKeeps, vars
<1>2. CASE StopPanel \/ KillPanel
  <2>1. Gone
    BY <1>2 DEF StopPanel, KillPanel
  <2> QED
    BY <2>1 DEF Gone, Idle
<1>3. CASE SessionExpires
  BY <1>3 DEF SessionExpires, Without, ClockKeeps, client
<1>4. ASSUME NEW b \in Browsers, Handler(b) \/ Request(b)
      PROVE  IdInv'
  <2> USE DEF BrowserTypes
  <2>0. None \notin DOMAIN sessions
    BY PanelAuthAssumptions DEF Ids
  <2>1. CASE LoginCompare(b) \/ (\E pw \in Known : LoginPost(b, pw))
    <3>1. ~SignedIn(b) /\ UNCHANGED <<cookie, sessions>>
      BY <2>1 DEF LoginCompare, LoginPost
    <3>2. req'[b].pc \in {"idle", "compare", "create"}
      <4>1. \/ req' = [req EXCEPT ![b] = Idle]
            \/ req' = [req EXCEPT ![b] = [Idle EXCEPT !.pc = "create", !.must = mustChange]]
            \/ \E right \in BOOLEAN :
                 req' = [req EXCEPT ![b] = [Idle EXCEPT !.pc = "compare", !.right = right]]
        BY <2>1 DEF LoginCompare, LoginPost, AnswerLogin
      <4>2. /\ Idle.pc = "idle"
            /\ [Idle EXCEPT !.pc = "create", !.must = mustChange].pc = "create"
            /\ \A right \in BOOLEAN :
                 [Idle EXCEPT !.pc = "compare", !.right = right].pc = "compare"
        BY DEF Idle
      <4> QED
        BY <4>1, <4>2
    <3> QED
      BY <1>4, <3>1, <3>2, Elsewhere
  <2>2. CASE LoginGet(b)
    <3>1. /\ ~SignedIn(b) /\ UNCHANGED sessions /\ cookie'[b] = None
          /\ req'[b].pc = "idle"
      BY <2>2 DEF LoginGet, AnswerLogin, Idle
    <3> QED
      BY <1>4, <2>0, <3>1, Elsewhere
  <2>3. CASE LoginCreate(b)
    <3>1. /\ ~SignedIn(b) /\ DOMAIN sessions' = DOMAIN sessions \cup {Fresh}
          /\ cookie'[b] = Fresh /\ form'[b] = None /\ req'[b].pc = "idle"
      BY <2>3 DEF LoginCreate, WithNew, Idle
    <3> QED
      BY <1>4, <3>1, Elsewhere, FreshIsNew
  <2>4. CASE Logout(b)
    <3>1. /\ DOMAIN sessions' = DOMAIN sessions \ {cookie[b]}
          /\ cookie'[b] = None /\ req' = req /\ req[b].pc = "idle"
      BY <2>4 DEF Logout, Without, Idle
    <3> QED
      BY <1>4, <2>0, <3>1, Elsewhere
  <2>5. CASE PasswordRotate(b)
    <3>1. /\ DOMAIN sessions' = (DOMAIN sessions \ {cookie[b]}) \cup {Fresh}
          /\ cookie'[b] = Fresh /\ form' = form /\ form[b] = None /\ req'[b].pc = "idle"
      BY <2>5 DEF PasswordRotate, WithNew, Without, Idle
    <3>2. ASSUME NEW id \in DOMAIN sessions'
          PROVE  \E c \in Browsers : cookie'[c] = id
      <4>1. CASE id = Fresh
        BY <3>1, <4>1
      <4>2. CASE id # Fresh
        <5>1. PICK c \in Browsers : cookie[c] = id
          BY <3>1, <4>2
        <5>2. c # b
          BY <3>1, <4>2, <5>1
        <5> QED
          BY <1>4, <5>1, <5>2, Elsewhere
      <4> QED
        BY <4>1, <4>2
    <3>3. ASSUME NEW c \in Browsers
          PROVE  /\ form'[c] # None \/ req'[c].pc \in {"compare", "create"} => ~SignedIn(c)'
                 /\ Changing(c)' => req'[c].id = cookie'[c] /\ form'[c] = None
      <4>1. CASE c = b
        BY <3>1, <4>1
      <4>2. CASE c # b
        BY <1>4, <3>1, <4>2, Elsewhere, FreshIsNew
      <4> QED
        BY <4>1, <4>2
    <3> QED
      BY <3>2, <3>3
  <2>6. CASE \E cur \in Known, next \in Chosen : PasswordPost(b, cur, next)
    <3>1. /\ SignedIn(b) /\ UNCHANGED <<cookie, form, sessions>>
          /\ req'[b].pc = "lock" /\ req'[b].id = cookie[b]
      BY <2>6 DEF PasswordPost, tables, client, Idle
    <3> QED
      BY <1>4, <3>1, Elsewhere
  <2>7. CASE ChangeLock(b) \/ ChangeCheck(b) \/ ChangeWrite(b) \/ ChangeActivate(b)
               \/ ChangeUnmark(b)
    <3>1. /\ Changing(b) /\ UNCHANGED <<cookie, form, sessions>>
      BY <2>7 DEF ChangeLock, ChangeCheck, ChangeWrite, ChangeActivate, ChangeUnmark,
                  tables, client
    <3>2. \/ req'[b].pc = "idle"
          \/ /\ req'[b].pc \in {"check", "write", "activate", "unmark", "rotate"}
             /\ req'[b].id = req[b].id
      BY <2>7 DEF ChangeLock, ChangeCheck, ChangeWrite, ChangeActivate, ChangeUnmark,
                  Idle, Requests
    <3> QED
      BY <1>4, <3>1, <3>2, Elsewhere
  <2> QED
    BY <1>4, <2>1, <2>2, <2>3, <2>4, <2>5, <2>6, <2>7 DEF Handler, Request
<1> QED
  BY <1>1, <1>2, <1>3, <1>4 DEF Next
-----------------------------------------------------------------------------
(* The limiter: who is admitted was below the limit, who is judged leaves. *)
LEMMA TriesOfKey ==
  ASSUME BrowserTypes, BrowserTypes', TriesInv, NEW key \in Keys,
         \/ attempts'[key] < MaxAttempts
         \/ attempts'[key] <= attempts[key] /\ Pending(key)' \subseteq Pending(key)
         \/ /\ attempts'[key] = attempts[key] + 1
            /\ \E b \in Pending(key) : Pending(key)' \subseteq Pending(key) \ {b}
  PROVE  attempts'[key] + Cardinality(Pending(key)')
           <= MaxAttempts + Cardinality(Browsers) - 1
<1> DEFINE n == Cardinality(Browsers)
           P == Pending(key)
           Q == Pending(key)'
<1>1. /\ IsFiniteSet(P) /\ IsFiniteSet(Q) /\ n \in Nat
      /\ Cardinality(P) \in Nat /\ Cardinality(Q) \in Nat /\ Cardinality(Q) <= n
  <2>1. P \subseteq Browsers /\ Q \subseteq Browsers
    BY DEF Pending
  <2> QED
    BY <2>1, PanelAuthAssumptions, FS_Subset, FS_CardinalityType
<1>2. attempts[key] + Cardinality(P) <= MaxAttempts + n - 1
  BY DEF TriesInv
<1>3. attempts[key] \in Nat /\ attempts'[key] \in Nat /\ MaxAttempts \in Nat
  BY PanelAuthAssumptions DEF BrowserTypes
<1> HIDE DEF n, P, Q
<1>4. attempts'[key] + Cardinality(Q) <= MaxAttempts + n - 1
  <2>1. CASE attempts'[key] < MaxAttempts
    BY <1>1, <1>3, <2>1
  <2>2. CASE attempts'[key] <= attempts[key] /\ Q \subseteq P
    <3>1. Cardinality(Q) <= Cardinality(P)
      BY <1>1, <2>2, FS_Subset
    <3> QED
      BY <1>1, <1>2, <1>3, <2>2, <3>1
  <2>3. CASE attempts'[key] = attempts[key] + 1 /\ \E b \in P : Q \subseteq P \ {b}
    <3>1. PICK b \in P : Q \subseteq P \ {b}
      BY <2>3
    <3>2. IsFiniteSet(P \ {b}) /\ Cardinality(P \ {b}) = Cardinality(P) - 1
      BY <1>1, FS_RemoveElement
    <3>3. Cardinality(Q) <= Cardinality(P \ {b})
      BY <3>1, <3>2, FS_Subset
    <3> QED
      BY <1>1, <1>2, <1>3, <2>3, <3>2, <3>3
  <2> QED
    BY <2>1, <2>2, <2>3 DEF P, Q
<1> QED
  BY <1>4 DEF n, Q

LEMMA PendingStep ==
  ASSUME BrowserTypes, NEW key \in Keys, NEW b \in Browsers,
         \A c \in Browsers \ {b} : req'[c] = req[c]
  PROVE  /\ req'[b].pc \notin Judging(key) => Pending(key)' \subseteq Pending(key) \ {b}
         /\ req[b].pc \in Judging(key) => Pending(key)' \subseteq Pending(key)
BY DEF Pending

LEMMA TriesStep ==
  ASSUME BrowserTypes, BrowserTypes', TriesInv, [Next]_vars
  PROVE  TriesInv'
<1> SUFFICES ASSUME NEW key \in Keys
             PROVE  \/ attempts'[key] < MaxAttempts
                    \/ /\ attempts'[key] <= attempts[key]
                       /\ Pending(key)' \subseteq Pending(key)
                    \/ /\ attempts'[key] = attempts[key] + 1
                       /\ \E b \in Pending(key) : Pending(key)' \subseteq Pending(key) \ {b}
  BY TriesOfKey DEF TriesInv
<1>0. attempts[key] \in Nat /\ attempts'[key] \in Nat
  BY DEF BrowserTypes
<1> USE DEF Pending, Judging, Keys
<1>1. CASE Open \/ ResetCommand \/ KillReset \/ SessionExpires \/ TokenExpires
             \/ UNCHANGED vars
  BY <1>0, <1>1
  DEF Open, OpenLoad, OpenGenerate, OpenWriteRecord, OpenWriteInitial, OpenUndo,
      ResetCommand, ResetStart, ResetWriteRecord, ResetWriteInitial,
      ResetUndoRecord, ResetUndoInitial, KillReset, ResetKeepsRest, tables, client,
      SessionExpires, TokenExpires, ClockKeeps, vars
<1>2. CASE StopPanel \/ KillPanel
  <2>1. Gone
    BY <1>2 DEF StopPanel, KillPanel
  <2>2. attempts'[key] = 0
    BY <2>1 DEF Gone, BrowserTypes
  <2> QED
    BY <2>2, PanelAuthAssumptions
<1>3. CASE AttemptAges
  BY <1>0, <1>3 DEF AttemptAges, ClockKeeps, BrowserTypes
<1>4. ASSUME NEW b \in Browsers, Handler(b) \/ Request(b)
      PROVE  \/ attempts'[key] < MaxAttempts
             \/ /\ attempts'[key] <= attempts[key]
                /\ Pending(key)' \subseteq Pending(key)
             \/ /\ attempts'[key] = attempts[key] + 1
                /\ \E c \in Pending(key) : Pending(key)' \subseteq Pending(key) \ {c}
  <2>0. \A c \in Browsers \ {b} : req'[c] = req[c]
    BY <1>4, Elsewhere
  <2> DEFINE pc == req[b].pc  new == req'[b].pc
  <2>a. /\ new \notin Judging(key) => Pending(key)' \subseteq Pending(key) \ {b}
        /\ pc \in Judging(key) => Pending(key)' \subseteq Pending(key)
        /\ pc \in Judging(key) => b \in Pending(key)
    BY <2>0, PendingStep DEF Pending
  <2>b. Idle.pc = "idle" /\ 0 < MaxAttempts
    BY PanelAuthAssumptions DEF Idle
  <2> HIDE DEF Pending
  <2>1. CASE LoginCompare(b)
    <3>1. pc = "compare" /\ new \in {"idle", "create"}
      BY <2>1, <2>b, Moves DEF LoginCompare
    <3>2. \/ key = "login" /\ attempts'[key] \in {0, attempts[key] + 1}
          \/ key = "password" /\ attempts'[key] = attempts[key]
      BY <2>1 DEF LoginCompare, FailedTry, ResetTries, BrowserTypes
    <3> QED
      BY <1>0, <2>a, <2>b, <3>1, <3>2
  <2>2. CASE ChangeCheck(b)
    <3>1. pc = "check" /\ new \in {"idle", "write"}
      BY <2>2, <2>b, Moves DEF ChangeCheck
    <3>2. \/ attempts'[key] = attempts[key]
          \/ key = "password" /\ attempts'[key] = attempts[key] + 1
      BY <2>2 DEF ChangeCheck, FailedTry, BrowserTypes
    <3> QED
      BY <1>0, <2>a, <3>1, <3>2
  <2>3. CASE \E pw \in Known : LoginPost(b, pw)
    <3>0. PICK pw \in Known : LoginPost(b, pw)
      BY <2>3
    <3>1. UNCHANGED attempts
      BY <3>0 DEF LoginPost
    <3>2. req'[b] = Idle \/ (new = "compare" /\ Allowed("login"))
      BY <3>0, Moves
    <3>3. new = "idle" \/ (new = "compare" /\ Allowed("login"))
      BY <3>2, <2>b
    <3> QED
      BY <1>0, <2>a, <3>1, <3>3 DEF Allowed
  <2>4. CASE \E cur \in Known, next \in Chosen : PasswordPost(b, cur, next)
    <3>0. PICK cur \in Known, next \in Chosen : PasswordPost(b, cur, next)
      BY <2>4
    <3>1. new = "lock" /\ UNCHANGED attempts /\ attempts["password"] < MaxAttempts
      BY <3>0, Moves DEF PasswordPost, tables, Allowed
    <3> QED
      BY <1>0, <2>a, <3>1
  <2>5. CASE PasswordRotate(b)
    <3>1. new = "idle" /\ attempts'[key] \in {0, attempts[key]}
      BY <2>5, <2>b, Moves DEF PasswordRotate, ResetTries, BrowserTypes
    <3> QED
      BY <1>0, <2>a, <2>b, <3>1
  <2>6. CASE LoginCreate(b) \/ LoginGet(b) \/ Logout(b)
    <3>1. new = "idle" /\ UNCHANGED attempts
      BY <2>6, <2>b, Moves DEF LoginCreate, LoginGet, Logout
    <3> QED
      BY <1>0, <2>a, <3>1
  <2>7. CASE ChangeLock(b) \/ ChangeWrite(b) \/ ChangeActivate(b) \/ ChangeUnmark(b)
    <3>1. UNCHANGED attempts
      BY <2>7 DEF ChangeLock, ChangeWrite, ChangeActivate, ChangeUnmark, tables
    <3>2. \/ pc = "lock" /\ new = "check"
          \/ new \in {"activate", "unmark", "rotate", "idle"}
      BY <2>7, <2>b, Moves DEF ChangeLock
    <3> QED
      BY <1>0, <2>a, <3>1, <3>2
  <2> QED
    BY <1>4, <2>1, <2>2, <2>3, <2>4, <2>5, <2>6, <2>7 DEF Handler, Request
<1> QED
  BY <1>1, <1>2, <1>3, <1>4 DEF Next
-----------------------------------------------------------------------------
(* The demand for a new password                                           *)
LEMMA InPanel ==
  ASSUME GateInv, NEW b \in Browsers, Handler(b) \/ Request(b)
  PROVE  panel = "up" /\ panel' = "up" /\ reset' = reset /\ nextTemp' = nextTemp
           /\ told' = told
<1> USE DEF GateInv, HandlersKeep
<1>1. CASE Request(b)
  BY <1>1 DEF Request, LoginGet, LoginPost, Logout, PasswordPost
<1>2. CASE LoginCompare(b) \/ LoginCreate(b) \/ ChangeLock(b) \/ ChangeCheck(b)
  BY <1>2 DEF LoginCompare, LoginCreate, ChangeLock, ChangeCheck
<1>3. CASE ChangeWrite(b) \/ ChangeActivate(b) \/ ChangeUnmark(b) \/ PasswordRotate(b)
  BY <1>3 DEF ChangeWrite, ChangeActivate, ChangeUnmark, PasswordRotate
<1> QED
  BY <1>1, <1>2, <1>3 DEF Handler

LEMMA GateStep ==
  ASSUME BrowserTypes, IdInv, GateInv, [Next]_vars
  PROVE  GateInv'
<1> USE DEF GateInv
<1>1. CASE Open
  <2>1. panel # "up"
    BY <1>1 DEF Open, OpenLoad, OpenGenerate, OpenWriteRecord, OpenWriteInitial, OpenUndo
  <2>2. UNCHANGED <<sessions, req, changeMu>>
    BY <1>1
    DEF Open, OpenLoad, OpenGenerate, OpenWriteRecord, OpenWriteInitial, OpenUndo, tables
  <2>3. panel' # "up" => mustChange' = mustChange
    BY <1>1 DEF Open, OpenLoad, OpenGenerate, OpenWriteRecord, OpenWriteInitial, OpenUndo
  <2> QED
    BY <2>1, <2>2, <2>3
<1>2. CASE ResetCommand \/ KillReset \/ UNCHANGED vars
  BY <1>2
  DEF ResetCommand, ResetStart, ResetWriteRecord, ResetWriteInitial, ResetUndoRecord,
      ResetUndoInitial, KillReset, ResetKeepsRest, memory, tables, vars
<1>3. CASE StopPanel \/ KillPanel
  <2>1. Gone
    BY <1>3 DEF StopPanel, KillPanel
  <2> QED
    BY <2>1 DEF Gone, Idle
<1>4. CASE SessionExpires \/ TokenExpires \/ AttemptAges
  <2>1. UNCHANGED <<panel, mustChange, changeMu, req>>
    BY <1>4 DEF SessionExpires, TokenExpires, AttemptAges, ClockKeeps, memory
  <2>2. /\ DOMAIN sessions' \subseteq DOMAIN sessions
        /\ \A id \in DOMAIN sessions' : sessions'[id] = sessions[id]
    BY <1>4 DEF SessionExpires, TokenExpires, AttemptAges, Without
  <2> QED
    BY <2>1, <2>2
<1>5. ASSUME NEW b \in Browsers, Handler(b) \/ Request(b)
      PROVE  GateInv'
  <2>0. /\ panel = "up" /\ panel' = "up"
        /\ \A c \in Browsers \ {b} : req'[c] = req[c]
        /\ Idle.pc = "idle"
    BY <1>5, InPanel, Elsewhere DEF Idle
  <2>1. CASE LoginGet(b) \/ Logout(b)
    <3>1. /\ mustChange' = mustChange /\ req'[b] = Idle
          /\ DOMAIN sessions' \subseteq DOMAIN sessions
          /\ \A id \in DOMAIN sessions' : sessions'[id] = sessions[id]
      BY <2>1, Moves DEF LoginGet, Logout, Without, memory
    <3> QED
      BY <2>0, <3>1
  <2>2. CASE \E pw \in Known : LoginPost(b, pw)
    <3>1. PICK pw \in Known : LoginPost(b, pw)
      BY <2>2
    <3>2. req'[b].pc \in {"idle", "compare"}
      BY <2>0, <3>1, Moves
    <3>3. mustChange' = mustChange /\ sessions' = sessions
      BY <3>1 DEF LoginPost, memory
    <3> QED
      BY <2>0, <3>2, <3>3
  <2>3. CASE LoginCompare(b)
    <3>1. req'[b].pc = "idle" \/ (req'[b].pc = "create" /\ req'[b].must = mustChange)
      BY <2>0, <2>3, Moves
    <3>2. mustChange' = mustChange /\ sessions' = sessions
      BY <2>3 DEF LoginCompare, memory
    <3> QED
      BY <2>0, <3>1, <3>2
  <2>4. CASE LoginCreate(b)
    <3>1. /\ mustChange' = mustChange /\ req'[b] = Idle /\ req[b].pc = "create"
          /\ sessions' = WithNew(sessions, req[b].must)
      BY <2>4, Moves DEF LoginCreate, memory
    <3>2. mustChange => \A id \in DOMAIN sessions' : sessions'[id]
      BY <3>1 DEF WithNew
    <3> QED
      BY <2>0, <3>1, <3>2
  <2>5. CASE \E cur \in Known, next \in Chosen : PasswordPost(b, cur, next)
    <3>1. PICK cur \in Known, next \in Chosen : PasswordPost(b, cur, next)
      BY <2>5
    <3>2. req'[b].pc = "lock"
      BY <3>1, Moves
    <3>3. mustChange' = mustChange /\ sessions' = sessions
      BY <3>1 DEF PasswordPost, memory, tables
    <3> QED
      BY <2>0, <3>2, <3>3
  <2>6. CASE ChangeLock(b) \/ ChangeCheck(b) \/ ChangeWrite(b)
    <3>1. req'[b].pc \in {"idle", "check", "write", "activate"}
      BY <2>0, <2>6, Moves
    <3>2. mustChange' = mustChange /\ sessions' = sessions
      BY <2>6 DEF ChangeLock, ChangeCheck, ChangeWrite, memory, tables
    <3> QED
      BY <2>0, <3>1, <3>2
  <2>7. CASE ChangeActivate(b)
    <3>1. ~mustChange'
      BY <2>7 DEF ChangeActivate
    <3> QED
      BY <2>0, <3>1
  <2>8. CASE ChangeUnmark(b) \/ PasswordRotate(b)
    <3>1. ~mustChange /\ mustChange' = mustChange
      BY <2>8 DEF ChangeUnmark, PasswordRotate, memory
    <3> QED
      BY <2>0, <3>1
  <2> QED
    BY <1>5, <2>1, <2>2, <2>3, <2>4, <2>5, <2>6, <2>7, <2>8 DEF Handler, Request
<1> QED
  BY <1>1, <1>2, <1>3, <1>4, <1>5 DEF Next

-----------------------------------------------------------------------------
(* The change lock                                                         *)
LEMMA LockStep ==
  ASSUME FileTypes, BrowserTypes, GateInv, LockInv, StoreInv, [Next]_vars
  PROVE  LockInv'
<1> USE DEF LockInv, OneChangeAtATime, MemoryMatchesDisk, Locked
<1>0. Idle.pc = "idle" /\ None \notin Browsers
  BY PanelAuthAssumptions DEF Idle
<1>1. CASE Open
  <2>1. panel # "up"
    BY <1>1 DEF Open, OpenLoad, OpenGenerate, OpenWriteRecord, OpenWriteInitial, OpenUndo
  <2>2. UNCHANGED <<req, changeMu>> /\ \A b \in Browsers : req[b].pc = "idle"
    BY <1>1, <2>1
    DEF Open, OpenLoad, OpenGenerate, OpenWriteRecord, OpenWriteInitial, OpenUndo, GateInv
  <2>3. panel' = "up" => hash' = authFile'
    BY <1>1
    DEF Open, OpenLoad, OpenGenerate, OpenWriteRecord, OpenWriteInitial, OpenUndo,
        StoreInv, store
  <2> QED
    BY <2>2, <2>3
<1>2. CASE ResetCommand \/ KillReset
  <2>1. panel = "down"
    BY <1>2
    DEF ResetCommand, ResetStart, ResetWriteRecord, ResetWriteInitial, ResetUndoRecord,
        ResetUndoInitial, KillReset, Resetting, StoreInv, NoReset
  <2>2. UNCHANGED <<req, changeMu, panel>> /\ \A b \in Browsers : req[b].pc = "idle"
    BY <1>2, <2>1
    DEF ResetCommand, ResetStart, ResetWriteRecord, ResetWriteInitial, ResetUndoRecord,
        ResetUndoInitial, KillReset, ResetKeepsRest, GateInv
  <2> QED
    BY <2>1, <2>2
<1>3. CASE StopPanel \/ KillPanel
  <2>1. Gone
    BY <1>3 DEF StopPanel, KillPanel
  <2> QED
    BY <1>0, <2>1 DEF Gone
<1>4. CASE SessionExpires \/ TokenExpires \/ AttemptAges \/ UNCHANGED vars
  BY <1>4
  DEF SessionExpires, TokenExpires, AttemptAges, ClockKeeps, memory, store, history, vars
<1>5. ASSUME NEW b \in Browsers, Handler(b) \/ Request(b)
      PROVE  LockInv'
  <2>0. /\ panel = "up" /\ panel' = "up"
        /\ \A c \in Browsers \ {b} : req'[c] = req[c]
    BY <1>5, InPanel, Elsewhere
  <2>1. CASE req[b].pc \notin Locked /\ req'[b].pc \notin Locked
             /\ (req'[b].pc = "lock" => req'[b].next \in Chosen)
             /\ UNCHANGED <<hash, authFile, changeMu, failedChange>>
    BY <2>0, <2>1
  <2>2. CASE LoginGet(b) \/ Logout(b) \/ LoginCompare(b) \/ LoginCreate(b) \/ PasswordRotate(b)
    <3>1. req[b].pc \in {"idle", "compare", "create", "rotate"}
      BY <2>2, <1>0 DEF LoginGet, Logout, LoginCompare, LoginCreate, PasswordRotate
    <3>2. req'[b].pc \in {"idle", "create"}
      BY <2>2, <1>0, Moves
    <3>3. UNCHANGED <<hash, authFile, changeMu, failedChange>>
      BY <2>2
      DEF LoginGet, Logout, LoginCompare, LoginCreate, PasswordRotate, NoFiles, store, memory
    <3> QED
      BY <2>1, <3>1, <3>2, <3>3
  <2>3. ASSUME NEW pw \in Known, LoginPost(b, pw)
        PROVE  LockInv'
    <3>1. req[b].pc = "idle"
      BY <2>3, <1>0 DEF LoginPost
    <3>2. req'[b].pc \in {"idle", "compare"}
      BY <2>3, <1>0, Moves
    <3>3. UNCHANGED <<hash, authFile, changeMu, failedChange>>
      BY <2>3 DEF LoginPost, NoFiles, store, memory
    <3> QED
      BY <2>1, <3>1, <3>2, <3>3
  <2>4. ASSUME NEW cur \in Known, NEW next \in Chosen, PasswordPost(b, cur, next)
        PROVE  LockInv'
    <3>1. req[b].pc = "idle"
      BY <2>4, <1>0 DEF PasswordPost
    <3>2. req'[b].pc = "lock" /\ req'[b].next = next
      BY <2>4, Moves
    <3>3. UNCHANGED <<hash, authFile, changeMu, failedChange>>
      BY <2>4 DEF PasswordPost, NoFiles, store, memory
    <3> QED
      BY <2>1, <3>1, <3>2, <3>3
  <2>5. CASE ChangeLock(b)
    <3>1. /\ req[b].pc = "lock" /\ changeMu = None /\ changeMu' = b
          /\ UNCHANGED <<hash, authFile, failedChange>>
      BY <2>5 DEF ChangeLock, NoFiles, store, memory
    <3>2. /\ req'[b].pc = "check" /\ req'[b].right = (req[b].cur = hash)
          /\ req'[b].cur = req[b].cur /\ req'[b].next = req[b].next
      BY <2>5, Moves
    <3>3. \A c \in Browsers \ {b} : req[c].pc \notin Locked
      BY <1>0, <3>1
    <3> QED
      BY <2>0, <3>1, <3>2, <3>3
  <2>6. CASE ChangeCheck(b)
    <3>1. /\ req[b].pc = "check" /\ UNCHANGED <<hash, authFile, failedChange>>
      BY <2>6 DEF ChangeCheck, NoFiles, store, memory
    <3>2. changeMu = b /\ \A c \in Browsers \ {b} : req[c].pc \notin Locked
      BY <3>1
    <3>3. \/ req'[b].pc = "idle" /\ changeMu' = None
          \/ /\ req'[b].pc = "write" /\ req[b].right /\ changeMu' = changeMu
             /\ req'[b].cur = req[b].cur /\ req'[b].next = req[b].next
      <4>1. CASE req[b].right
        <5>1. req' = [req EXCEPT ![b].pc = "write"] /\ changeMu' = changeMu
          BY <2>6, <4>1 DEF ChangeCheck
        <5>2. /\ req'[b].pc = "write" /\ req'[b].cur = req[b].cur
              /\ req'[b].next = req[b].next
          BY <5>1 DEF BrowserTypes, Requests
        <5> QED
          BY <4>1, <5>1, <5>2
      <4>2. CASE ~req[b].right
        BY <1>0, <2>6, <4>2, Moves DEF ChangeCheck
      <4> QED
        BY <4>1, <4>2
    <3> QED
      BY <1>0, <2>0, <3>1, <3>2, <3>3
  <2>7. CASE ChangeWrite(b)
    <3>1. req[b].pc = "write" /\ hash' = hash
      BY <2>7 DEF ChangeWrite, memory
    <3>2. changeMu = b /\ \A c \in Browsers \ {b} : req[c].pc \notin Locked
      BY <3>1
    <3>3. CASE /\ req' = [req EXCEPT ![b].pc = "activate"] /\ WriteAuth(req[b].next)
               /\ changeMu' = changeMu
      <4>1. /\ req'[b].pc = "activate" /\ req'[b].cur = req[b].cur
            /\ req'[b].next = req[b].next
        BY <3>3 DEF BrowserTypes, Requests
      <4>2. authFile' = req[b].next
        BY <3>3 DEF WriteAuth
      <4> QED
        BY <1>0, <2>0, <3>1, <3>2, <3>3, <4>1, <4>2
    <3>4. CASE req' = [req EXCEPT ![b] = Idle] /\ changeMu' = None /\ failedChange'
      <4>1. req'[b] = Idle
        BY <3>4 DEF BrowserTypes
      <4> QED
        BY <1>0, <2>0, <3>1, <3>2, <3>4, <4>1
    <3> QED
      BY <2>7, <3>3, <3>4 DEF ChangeWrite
  <2>8. CASE ChangeActivate(b)
    <3>1. /\ req[b].pc = "activate" /\ hash' = req[b].next
          /\ UNCHANGED <<changeMu, authFile, failedChange>>
      BY <2>8 DEF ChangeActivate, NoFiles, store
    <3>2. changeMu = b /\ \A c \in Browsers \ {b} : req[c].pc \notin Locked
      BY <3>1
    <3>3. req'[b].pc = "unmark" /\ req'[b].next = req[b].next
      BY <2>8, Moves
    <3> QED
      BY <1>0, <2>0, <3>1, <3>2, <3>3
  <2>9. CASE ChangeUnmark(b)
    <3>1. /\ req[b].pc = "unmark" /\ changeMu' = None
          /\ UNCHANGED <<hash, authFile, failedChange>>
      BY <2>9 DEF ChangeUnmark, memory
    <3>2. changeMu = b /\ \A c \in Browsers \ {b} : req[c].pc \notin Locked
      BY <3>1
    <3>3. req'[b].pc = "rotate"
      BY <2>9, Moves
    <3> QED
      BY <1>0, <2>0, <3>1, <3>2, <3>3
  <2> QED
    BY <1>5, <2>2, <2>3, <2>4, <2>5, <2>6, <2>7, <2>8, <2>9 DEF Handler, Request
<1> QED
  BY <1>1, <1>2, <1>3, <1>4, <1>5 DEF Next
-----------------------------------------------------------------------------
(* The files                                                               *)
LEMMA ResetMoves ==
  ASSUME FileTypes, NEW pc, NEW r, r = [reset EXCEPT !.pc = pc]
  PROVE  /\ r.pc = pc /\ r.temp = reset.temp
         /\ r.oldAuth = reset.oldAuth /\ r.oldInitial = reset.oldInitial
BY DEF FileTypes, Resets

LEMMA HandlersAndFiles ==
  ASSUME FileTypes, BrowserTypes, GateInv, LockInv, StoreInv,
         NEW b \in Browsers, Handler(b) \/ Request(b)
  PROVE  /\ panel = "up" /\ reset = NoReset
         /\ UNCHANGED <<panel, reset, nextTemp, told>>
         /\ disturbed => disturbed'
         /\ faults' \in {faults, faults + 1}
         /\ \/ UNCHANGED <<store, memory>>
            \/ authFile' \in Chosen /\ UNCHANGED <<initialFile, memory>>
            \/ UNCHANGED store /\ hash' \in Chosen
            \/ /\ authFile \in Chosen /\ authFile = hash
               /\ initialFile' \in {None, initialFile} /\ UNCHANGED <<authFile, memory>>
<1>1. panel = "up" /\ reset = NoReset /\ UNCHANGED <<panel, reset, nextTemp, told>>
  BY InPanel DEF StoreInv
<1> USE DEF Succeeds, Fails
<1>2. CASE Request(b) \/ LoginCompare(b) \/ LoginCreate(b) \/ ChangeLock(b)
             \/ ChangeCheck(b) \/ PasswordRotate(b)
  <2>1. UNCHANGED <<store, memory, faults, disturbed>>
    BY <1>2
    DEF Request, LoginGet, LoginPost, Logout, PasswordPost, LoginCompare, LoginCreate,
        ChangeLock, ChangeCheck, PasswordRotate, NoFiles
  <2> QED
    BY <1>1, <2>1
<1>4. CASE ChangeWrite(b)
  <2>1. req[b].next \in Chosen
    BY <1>4 DEF ChangeWrite, LockInv, Locked
  <2>2. /\ disturbed => disturbed'
        /\ faults' \in {faults, faults + 1}
        /\ authFile' \in {authFile, req[b].next}
        /\ UNCHANGED <<initialFile, memory>>
    BY <1>4 DEF ChangeWrite, WriteAuth, WriteAuthFails
  <2> QED
    BY <1>1, <2>1, <2>2 DEF store
<1>5. CASE ChangeActivate(b)
  <2>1. req[b].next \in Chosen
    BY <1>5 DEF ChangeActivate, LockInv, Locked
  <2> QED
    BY <1>1, <1>5, <2>1 DEF ChangeActivate, NoFiles
<1>6. CASE ChangeUnmark(b)
  <2>1. req[b].pc = "unmark" /\ req[b].next \in Chosen
    BY <1>6 DEF ChangeUnmark, LockInv, Locked
  <2>2. authFile \in Chosen /\ authFile = hash
    BY <2>1 DEF LockInv
  <2> QED
    BY <1>1, <1>6, <2>2 DEF ChangeUnmark
<1> QED
  BY <1>2, <1>4, <1>5, <1>6 DEF Handler

LEMMA StoreStep ==
  ASSUME FileTypes, BrowserTypes, GateInv, LockInv, StoreInv, [Next]_vars
  PROVE  StoreInv'
<1> USE DEF FileTypes, StoreInv, Untold, Resetting
<1>0. NoReset.pc = "idle" /\ None \notin told
  BY Secrets DEF NoReset
<1>a. \A p \in Temps : p < nextTemp => p < nextTemp + 1
  BY PanelAuthAssumptions DEF Temps
<1>1. CASE OpenLoad
  BY <1>0, <1>1 DEF OpenLoad, store
<1>2. CASE OpenGenerate
  BY <1>0, <1>a, <1>2, Secrets DEF OpenGenerate, store, history
<1>3. CASE OpenWriteRecord
  <2>1. authFile' \in {authFile, hash}
    BY <1>3 DEF OpenWriteRecord, WriteAuth, WriteAuthFails
  <2>2. \/ panel' = "initial" /\ authFile' = hash /\ hash' = hash
        \/ panel' = "down"
    BY <1>3 DEF OpenWriteRecord, WriteAuth
  <2> QED
    BY <1>0, <1>3, <2>1, <2>2 DEF OpenWriteRecord
<1>4. CASE OpenWriteInitial
  <2>1. hash \in Temps /\ hash # None
    BY <1>4, Secrets DEF OpenWriteInitial
  <2>2. CASE panel' = "up" /\ initialFile' = hash /\ mustChange' /\ told' = told \cup {hash}
    BY <1>0, <1>4, <2>1, <2>2 DEF OpenWriteInitial
  <2>3. CASE panel' = "undo" /\ told' = told
    BY <1>0, <1>4, <2>1, <2>3 DEF OpenWriteInitial
  <2> QED
    BY <1>4, <2>2, <2>3 DEF OpenWriteInitial, WriteInitial
<1>5. CASE OpenUndo
  BY <1>0, <1>5, Secrets DEF OpenUndo
<1>6. CASE StopPanel \/ KillPanel
  BY <1>0, <1>6 DEF StopPanel, KillPanel, Gone, store
<1>7. CASE ResetStart
  <2>1. /\ reset'.pc = "record" /\ reset'.temp = nextTemp
        /\ reset'.oldAuth = authFile /\ reset'.oldInitial = initialFile
    BY <1>7 DEF ResetStart
  <2>2. panel = "down" /\ panel' = "down" /\ nextTemp' = nextTemp + 1
          /\ nextTemp \in Temps /\ UNCHANGED <<authFile, initialFile, told>>
    BY <1>7, Secrets DEF ResetStart, ResetKeepsRest, store
  <2>3. (\A p \in told : p < nextTemp') /\ nextTemp < nextTemp' /\ nextTemp \notin told
    BY <1>a, <2>2
  <2> QED
    BY <1>0, <2>1, <2>2, <2>3 DEF store
<1>8. CASE ResetWriteRecord
  <2>1. panel = "down" /\ reset.pc = "record"
    BY <1>0, <1>8 DEF ResetWriteRecord
  <2>2. /\ reset'.temp = reset.temp /\ reset'.oldAuth = reset.oldAuth
        /\ reset'.oldInitial = reset.oldInitial
        /\ authFile' \in {authFile, reset.temp}
        /\ \/ reset'.pc = "initial" /\ authFile' = reset.temp
           \/ reset'.pc = "error"
    BY <1>8, ResetMoves DEF ResetWriteRecord, WriteAuth, WriteAuthFails
  <2> QED
    BY <1>0, <1>8, <2>1, <2>2 DEF ResetWriteRecord, ResetKeepsRest, memory, store
<1>9. CASE ResetWriteInitial
  <2>1. panel = "down" /\ reset.pc = "initial" /\ reset.temp # None
    BY <1>0, <1>9, Secrets DEF ResetWriteInitial
  <2>2. /\ reset'.temp = reset.temp /\ reset'.oldAuth = reset.oldAuth
        /\ reset'.oldInitial = reset.oldInitial
        /\ initialFile' \in {initialFile, reset.temp}
        /\ \/ /\ reset'.pc = "ok" /\ initialFile' = reset.temp
              /\ told' = told \cup {reset.temp}
           \/ reset'.pc = "undoRecord" /\ told' = told
    <3>1. CASE /\ reset' = [reset EXCEPT !.pc = "ok"] /\ WriteInitial(reset.temp)
               /\ told' = told \cup {reset.temp}
      BY <3>1, ResetMoves DEF WriteInitial
    <3>2. CASE /\ reset' = [reset EXCEPT !.pc = "undoRecord"]
               /\ WriteInitialFails(reset.temp) /\ told' = told
      BY <3>2, ResetMoves DEF WriteInitialFails
    <3> QED
      BY <1>9, <3>1, <3>2 DEF ResetWriteInitial
  <2> QED
    BY <1>0, <1>9, <2>1, <2>2 DEF ResetWriteInitial, ResetKeepsRest, memory, store
<1>10. CASE ResetUndoRecord
  <2>1. panel = "down" /\ reset.pc = "undoRecord" /\ reset.temp # None
    BY <1>0, <1>10, Secrets DEF ResetUndoRecord
  <2>2. /\ reset'.temp = reset.temp /\ reset'.oldAuth = reset.oldAuth
        /\ reset'.oldInitial = reset.oldInitial /\ reset'.pc = "undoInitial"
        /\ authFile' \in {authFile, reset.oldAuth}
    BY <1>10, ResetMoves DEF ResetUndoRecord, WriteAuth, WriteAuthFails
  <2> QED
    BY <1>0, <1>10, <2>1, <2>2 DEF ResetUndoRecord, ResetKeepsRest, memory, store
<1>11. CASE ResetUndoInitial
  <2>1. panel = "down" /\ reset.pc = "undoInitial" /\ reset.temp # None
    BY <1>0, <1>11, Secrets DEF ResetUndoInitial
  <2>2. /\ reset'.pc = "error" /\ initialFile' \in {initialFile, reset.oldInitial}
    BY <1>11, ResetMoves DEF ResetUndoInitial, WriteInitial, WriteInitialFails
  <2> QED
    BY <1>0, <1>11, <2>1, <2>2 DEF ResetUndoInitial, ResetKeepsRest, memory, store
<1>12. CASE KillReset
  BY <1>0, <1>12 DEF KillReset, memory, store
<1>13. CASE \E b \in Browsers : Handler(b) \/ Request(b)
  <2>1. Chosen \cap told = {} /\ Chosen \cap Temps = {}
    BY Secrets
  <2> QED
    BY <1>0, <1>13, <2>1, HandlersAndFiles DEF store, memory
<1>14. CASE SessionExpires \/ TokenExpires \/ AttemptAges \/ UNCHANGED vars
  BY <1>14
  DEF SessionExpires, TokenExpires, AttemptAges, ClockKeeps, vars, store, memory, history
<1> QED
  BY <1>1, <1>2, <1>3, <1>4, <1>5, <1>6, <1>7, <1>8, <1>9, <1>10, <1>11, <1>12,
     <1>13, <1>14
  DEF Next, Open, ResetCommand
LEMMA CleanStep ==
  ASSUME FileTypes, BrowserTypes, GateInv, LockInv, StoreInv, CleanInv, [Next]_vars
  PROVE  CleanInv'
<1> USE DEF CleanInv, Resetting, Known
<1>0. NoReset.pc = "idle" /\ None \notin told /\ faults \in Nat
  BY Secrets DEF NoReset, FileTypes
<1>a. /\ Succeeds => faults' = faults /\ disturbed' = disturbed
      /\ Fails => faults' = faults + 1
  BY DEF Succeeds, Fails
<1>1. CASE OpenLoad
  BY <1>0, <1>1 DEF OpenLoad, store
<1>2. CASE OpenGenerate
  BY <1>0, <1>2 DEF OpenGenerate, store, history
<1>3. CASE OpenWriteRecord
  <2>1. panel = "record" /\ reset = NoReset
    BY <1>3 DEF OpenWriteRecord, StoreInv
  <2>2. \/ panel' = "initial"
        \/ panel' = "down" /\ (~disturbed' => ~disturbed /\ authFile' = authFile)
    BY <1>3 DEF OpenWriteRecord, WriteAuthFails
  <2> QED
    BY <1>0, <1>3, <2>1, <2>2 DEF OpenWriteRecord
<1>4. CASE OpenWriteInitial
  <2>1. panel = "initial" /\ reset = NoReset /\ authFile = hash /\ hash # None
    BY <1>4, Secrets DEF OpenWriteInitial, StoreInv, Untold
  <2>2. \/ panel' = "up" /\ told' = told \cup {hash}
        \/ panel' = "undo" /\ faults' = faults + 1
    BY <1>a, <1>4 DEF OpenWriteInitial, WriteInitialFails
  <2> QED
    BY <1>0, <1>4, <2>1, <2>2 DEF OpenWriteInitial
<1>5. CASE OpenUndo
  <2>1. panel = "undo" /\ reset = NoReset
    BY <1>5 DEF OpenUndo, StoreInv
  <2>2. /\ ~disturbed' => ~disturbed
        /\ authFile' = None \/ faults' = faults + 1
    BY <1>a, <1>5 DEF OpenUndo
  <2> QED
    BY <1>0, <1>5, <2>1, <2>2 DEF OpenUndo
<1>6. CASE StopPanel
  BY <1>0, <1>6 DEF StopPanel, Gone, store
<1>7. CASE KillPanel \/ KillReset
  BY <1>7 DEF KillPanel, KillReset
<1>8. CASE ResetStart
  <2>1. /\ reset'.pc = "record"
        /\ reset'.oldAuth = authFile /\ reset'.oldInitial = initialFile
    BY <1>8 DEF ResetStart
  <2> QED
    BY <1>0, <1>8, <2>1 DEF ResetStart, ResetKeepsRest, store
<1>9. CASE ResetWriteRecord
  <2>1. /\ panel = "down" /\ reset.pc = "record"
        /\ authFile = reset.oldAuth /\ initialFile = reset.oldInitial
    BY <1>0, <1>9 DEF ResetWriteRecord, StoreInv, store
  <2>2. /\ reset'.oldAuth = reset.oldAuth /\ reset'.oldInitial = reset.oldInitial
        /\ \/ reset'.pc = "initial"
           \/ reset'.pc = "error" /\ (~disturbed' => authFile' = authFile)
    BY <1>9, ResetMoves DEF ResetWriteRecord, WriteAuthFails
  <2>3. (~disturbed' => ~disturbed) /\ faults' \in {faults, faults + 1}
    BY <1>9 DEF ResetWriteRecord, WriteAuth, WriteAuthFails, Succeeds, Fails
  <2> QED
    BY <1>0, <1>9, <2>1, <2>2, <2>3 DEF ResetWriteRecord, ResetKeepsRest
<1>10. CASE ResetWriteInitial
  <2>1. /\ panel = "down" /\ reset.pc = "initial" /\ initialFile = reset.oldInitial
        /\ authFile = reset.temp
    BY <1>0, <1>10 DEF ResetWriteInitial, StoreInv
  <2>2. /\ reset'.oldAuth = reset.oldAuth /\ reset'.oldInitial = reset.oldInitial
        /\ \/ reset'.pc = "ok" /\ told' = told \cup {reset.temp}
           \/ /\ reset'.pc = "undoRecord" /\ told' = told /\ faults' = faults + 1
              /\ ~disturbed' => initialFile' = initialFile
    <3>1. CASE reset' = [reset EXCEPT !.pc = "ok"] /\ told' = told \cup {reset.temp}
      BY <3>1, ResetMoves
    <3>2. CASE /\ reset' = [reset EXCEPT !.pc = "undoRecord"]
               /\ WriteInitialFails(reset.temp) /\ told' = told
      BY <1>a, <3>2, ResetMoves DEF WriteInitialFails
    <3> QED
      BY <1>10, <3>1, <3>2 DEF ResetWriteInitial
  <2>3. (~disturbed' => ~disturbed) /\ faults' \in {faults, faults + 1}
    BY <1>10 DEF ResetWriteInitial, WriteInitial, WriteInitialFails, Succeeds, Fails
  <2> QED
    BY <1>0, <1>10, <2>1, <2>2, <2>3 DEF ResetWriteInitial, ResetKeepsRest
<1>11. CASE ResetUndoRecord
  <2>1. panel = "down" /\ reset.pc = "undoRecord"
    BY <1>0, <1>11 DEF ResetUndoRecord, StoreInv
  <2>2. /\ reset'.oldAuth = reset.oldAuth /\ reset'.oldInitial = reset.oldInitial
        /\ reset'.pc = "undoInitial" /\ (~disturbed' => ~disturbed)
        /\ \/ authFile' = reset.oldAuth /\ faults' = faults
           \/ faults' = faults + 1
    BY <1>a, <1>11, ResetMoves DEF ResetUndoRecord, WriteAuth, WriteAuthFails
  <2> QED
    BY <1>0, <1>11, <2>1, <2>2 DEF ResetUndoRecord, ResetKeepsRest
<1>12. CASE ResetUndoInitial
  <2>1. panel = "down" /\ reset.pc = "undoInitial"
    BY <1>0, <1>12 DEF ResetUndoInitial, StoreInv
  <2>2. /\ reset'.oldAuth = reset.oldAuth /\ reset'.oldInitial = reset.oldInitial
        /\ reset'.pc = "error" /\ (~disturbed' => ~disturbed)
        /\ \/ initialFile' = reset.oldInitial /\ faults' = faults
           \/ faults' = faults + 1
    BY <1>a, <1>12, ResetMoves DEF ResetUndoInitial, WriteInitial, WriteInitialFails
  <2> QED
    BY <1>0, <1>12, <2>1, <2>2 DEF ResetUndoInitial, ResetKeepsRest
<1>13. CASE \E b \in Browsers : Handler(b) \/ Request(b)
  BY <1>0, <1>13, HandlersAndFiles DEF store
<1>14. CASE SessionExpires \/ TokenExpires \/ AttemptAges \/ UNCHANGED vars
  BY <1>14
  DEF SessionExpires, TokenExpires, AttemptAges, ClockKeeps, vars, store, history
<1> QED
  BY <1>1, <1>2, <1>3, <1>4, <1>5, <1>6, <1>7, <1>8, <1>9, <1>10, <1>11, <1>12,
     <1>13, <1>14
  DEF Next, Open, ResetCommand
-----------------------------------------------------------------------------
Inv ==
  /\ FileTypes /\ BrowserTypes
  /\ IdInv /\ TriesInv /\ GateInv /\ LockInv /\ StoreInv /\ CleanInv

LEMMA InitInv == Init => Inv
<1> SUFFICES ASSUME Init PROVE Inv
  OBVIOUS
<1> USE PanelAuthAssumptions DEF Init
<1>0. Idle.pc = "idle" /\ Idle \in Requests /\ NoReset.pc = "idle" /\ NoReset \in Resets
  BY DEF Idle, NoReset, Requests, Resets, Pcs, ResetPcs
<1>1. FileTypes
  <2>1. 1 \in 1..(MaxTemps + 1) /\ 0 \in 0..MaxFaults
    OBVIOUS
  <2> QED
    BY <1>0, <2>1 DEF FileTypes
<1>2. BrowserTypes
  <2>1. <<>> \in [DOMAIN <<>> -> BOOLEAN] /\ DOMAIN <<>> \subseteq Ids
    OBVIOUS
  <2>2. <<>> \in Seq(Ids) /\ Len(<<>>) <= MaxTokens
    OBVIOUS
  <2> QED
    BY <1>0, <2>1, <2>2 DEF BrowserTypes, Keys
<1>3. IdInv
  BY <1>0 DEF IdInv, SignedIn, Changing
<1>4. TriesInv
  <2>1. \A key \in Keys : Pending(key) = {}
    BY <1>0 DEF Pending, Judging
  <2>2. Cardinality(Browsers) \in Nat
    BY FS_CardinalityType
  <2>3. \A key \in Keys : attempts[key] = 0
    BY DEF Keys
  <2>4. Cardinality({}) = 0 /\ MaxAttempts >= 1 /\ MaxAttempts \in Nat
    BY FS_EmptySet
  <2>5. 0 + Cardinality({}) <= MaxAttempts + Cardinality(Browsers) - 1
    BY <2>2, <2>4
  <2> HIDE DEF Init
  <2> QED
    BY <2>1, <2>3, <2>5 DEF TriesInv
<1>5. GateInv
  BY <1>0 DEF GateInv
<1>6. LockInv
  BY <1>0 DEF LockInv, Locked, OneChangeAtATime, MemoryMatchesDisk
<1>7. StoreInv
  BY <1>0, Secrets DEF StoreInv, Resetting
<1>8. CleanInv
  BY <1>0 DEF CleanInv, Resetting
<1> QED
  BY <1>1, <1>2, <1>3, <1>4, <1>5, <1>6, <1>7, <1>8 DEF Inv

THEOREM Invariance == Spec => []Inv
<1>1. Inv /\ [Next]_vars => Inv'
  BY FileTypesStep, BrowserTypesStep, IdStep, TriesStep, GateStep, LockStep, StoreStep,
     CleanStep
  DEF Inv
<1> QED
  BY InitInv, <1>1, PTL DEF Spec

(* TypeOK: also that the limiter counts no more failed attempts than the   *)
(* limit and one for each other browser that was admitted before them.     *)
THEOREM Typed == Spec => []TypeOK
<1>1. Inv => TypeOK
  <2> SUFFICES ASSUME Inv PROVE TypeOK
    OBVIOUS
  <2>1. attempts \in [Keys -> 0..(MaxAttempts + Cardinality(Browsers) - 1)]
    <3> SUFFICES ASSUME NEW key \in Keys
                 PROVE  attempts[key] \in 0..(MaxAttempts + Cardinality(Browsers) - 1)
      BY DEF Inv, BrowserTypes
    <3>1. Pending(key) \subseteq Browsers /\ IsFiniteSet(Browsers)
      BY PanelAuthAssumptions DEF Pending
    <3>2. Cardinality(Pending(key)) \in Nat /\ Cardinality(Browsers) \in Nat
      BY <3>1, FS_Subset, FS_CardinalityType
    <3>3. attempts[key] \in Nat /\ MaxAttempts \in Nat
      BY PanelAuthAssumptions DEF Inv, BrowserTypes
    <3>4. attempts[key] + Cardinality(Pending(key))
            <= MaxAttempts + Cardinality(Browsers) - 1
      BY DEF Inv, TriesInv
    <3> QED
      BY <3>2, <3>3, <3>4
  <2> QED
    BY <2>1, Secrets DEF Inv, FileTypes, BrowserTypes, TypeOK, Keys
<1> QED
  BY <1>1, Invariance, PTL

(* A session made before or during a forced change never escapes it        *)
(* (sessions.go, admin.go).                                                *)
THEOREM ForcedChangeHolds == Spec => []GateHolds
<1>1. Inv => GateHolds
  BY DEF Inv, GateInv, GateHolds
<1> QED
  BY <1>1, Invariance, PTL

(* The panel verifies what its file holds, the file holds a password that  *)
(* somebody knows, a generated one only opens the form that replaces it,   *)
(* and the change lock is held by exactly one running change, for any      *)
(* number of browsers, faults, kills, resets and restarts (auth.go,        *)
(* auth_file.go, admin.go).                                                *)
THEOREM PasswordUsable == Spec => []PasswordIsUsable
<1>1. Inv => MemoryMatchesDisk /\ OneChangeAtATime
  BY DEF Inv, LockInv
<1>2. Inv => TemporaryIsForced
  BY Secrets DEF Inv, StoreInv, TemporaryIsForced, Known
<1>3. Inv => AlwaysOpenable
  BY DEF Inv, CleanInv, AlwaysOpenable
<1> QED
  BY <1>1, <1>2, <1>3, Invariance, Typed, PTL DEF PasswordIsUsable

(* A reset-password that reports an error has put both files back, when    *)
(* one operation failed before its rename and nothing was killed.          *)
THEOREM ResetRestores == Spec => []FailedResetRestores
<1>1. Inv => FailedResetRestores
  BY DEF Inv, CleanInv, FailedResetRestores, store
<1> QED
  BY <1>1, Invariance, PTL

(* Every change of the password starts from the password it replaces, so   *)
(* of two changes that overlap one fails (changePassword in admin.go).     *)
THEOREM SerialChanges == Spec => ChangesAreSerial
<1> DEFINE Serial == panel = "up" /\ panel' = "up" /\ hash' # hash =>
                       \E b \in Browsers : req[b].pc = "activate" /\ req[b].cur = hash
<1>1. Inv /\ [Next]_vars => Serial
  <2> SUFFICES ASSUME Inv, [Next]_vars, panel = "up", panel' = "up", hash' # hash
               PROVE  \E b \in Browsers : req[b].pc = "activate" /\ req[b].cur = hash
    BY DEF Serial
  <2>1. CASE \E b \in Browsers : ChangeActivate(b)
    BY <2>1 DEF Inv, LockInv, ChangeActivate
  <2>2. ASSUME NEW b \in Browsers, Handler(b) \/ Request(b), ~ChangeActivate(b)
        PROVE  hash' = hash
    BY <2>2
    DEF Handler, Request, LoginGet, LoginPost, Logout, PasswordPost, LoginCompare,
        LoginCreate, ChangeLock, ChangeCheck, ChangeWrite, ChangeUnmark, PasswordRotate,
        memory
  <2>3. ~(Open \/ StopPanel \/ KillPanel)
    BY DEF Open, OpenLoad, OpenGenerate, OpenWriteRecord, OpenWriteInitial, OpenUndo,
           StopPanel, KillPanel, Gone
  <2>4. CASE ResetCommand \/ KillReset
    BY <2>4
    DEF ResetCommand, ResetStart, ResetWriteRecord, ResetWriteInitial, ResetUndoRecord,
        ResetUndoInitial, KillReset, ResetKeepsRest, memory
  <2>5. CASE SessionExpires \/ TokenExpires \/ AttemptAges \/ UNCHANGED vars
    BY <2>5 DEF SessionExpires, TokenExpires, AttemptAges, ClockKeeps, vars, memory
  <2> QED
    BY <2>1, <2>2, <2>3, <2>4, <2>5 DEF Next
<1> HIDE DEF Serial
<1>2. Spec => [][Serial]_vars
  BY <1>1, Invariance, PTL DEF Spec
<1> QED
  BY <1>2, PTL DEF ChangesAreSerial, Serial

(***************************************************************************)
(* PanelLimiter: what is left of a client's requests after a cutoff, and the*)
(* limit, for every number of clients, every limit and every period.       *)
(***************************************************************************)

(* Every set of natural numbers has a least element.                       *)
LEMMA Least ==
  ASSUME NEW T, T \subseteq Nat, T # {}
  PROVE  \E m \in T : \A k \in T : m <= k
<1> DEFINE Below == OpToRel(<, Nat)
<1>1. IsWellFoundedOn(Below, Nat)
  BY NatLessThanWellFounded
<1>2. PICK m \in T : \A k \in T : ~(<<k, m>> \in Below)
  BY <1>1, WFMin
<1>3. \A k \in T : ~(k < m)
  BY <1>2 DEF OpToRel
<1> QED
  BY <1>3

(* What is left after the cutoff: the end of the list, whose first time is *)
(* after it; all before are not.                                           *)
IsAfter(p, s, d, cutoff) ==
  /\ d \in 0..Len(s) /\ p \in Seq(Int) /\ Len(p) = Len(s) - d
  /\ \A i \in 1..Len(p) : p[i] = s[d + i]
  /\ \A i \in 1..d : s[i] <= cutoff
  /\ Len(p) > 0 => p[1] > cutoff

(* What pruning keeps is the end of the list, and all it drops is old.     *)
LEMMA AfterIs ==
  ASSUME NEW s \in Seq(Int), NEW cutoff \in Int
  PROVE  \E d \in 0..Len(s) : IsAfter(L!After(s, cutoff), s, d, cutoff)
<1> DEFINE n == Len(s)
           Fits(i) == /\ \A j \in 1..(i - 1) : s[j] <= cutoff
                      /\ i <= n => s[i] > cutoff
           first == CHOOSE i \in 1..(n + 1) : Fits(i)
           p == SubSeq(s, first, n)
<1>1. n \in Nat /\ \A i \in 1..n : s[i] \in Int
  BY LenProperties
<1>2. L!After(s, cutoff) = p
  BY DEF L!After
<1>3. \E i \in 1..(n + 1) : Fits(i)
  <2> DEFINE T == {i \in 1..n : s[i] > cutoff}
  <2>1. CASE T = {}
    <3>1. \A i \in 1..n : s[i] <= cutoff
      BY <1>1, <2>1
    <3>2. n + 1 \in 1..(n + 1) /\ (n + 1) - 1 = n /\ ~(n + 1 <= n)
      BY <1>1
    <3>3. Fits(n + 1)
      BY <3>1, <3>2
    <3> QED
      BY <3>2, <3>3
  <2>2. CASE T # {}
    <3>1. T \subseteq Nat
      BY <1>1
    <3> HIDE DEF T
    <3>2. PICK m \in T : \A k \in T : m <= k
      BY <2>2, <3>1, Least
    <3>3. m \in 1..n /\ s[m] > cutoff
      BY <3>2 DEF T
    <3>4. \A j \in 1..(m - 1) : s[j] <= cutoff
      <4> SUFFICES ASSUME NEW j \in 1..(m - 1), ~(s[j] <= cutoff) PROVE FALSE
        OBVIOUS
      <4>1. j \in 1..n /\ ~(m <= j)
        BY <1>1, <3>3
      <4>2. s[j] > cutoff
        BY <1>1, <4>1
      <4> QED
        BY <3>2, <4>1, <4>2 DEF T
    <3>5. m \in 1..(n + 1)
      BY <1>1, <3>3
    <3> QED
      BY <3>3, <3>4, <3>5
  <2> QED
    BY <2>1, <2>2
<1>4. first \in 1..(n + 1) /\ Fits(first)
  BY <1>3
<1> DEFINE d == first - 1
<1> HIDE DEF first, p, n
<1>5. d \in 0..n /\ \A i \in 1..d : s[i] <= cutoff
  BY <1>1, <1>4
<1>6. \A i \in first..n : s[i] \in Int
  BY <1>1, <1>4
<1>7. /\ p \in Seq(Int)
      /\ Len(p) = IF first <= n THEN n - first + 1 ELSE 0
      /\ \A i \in 1..(n - first + 1) : p[i] = s[first + i - 1]
  BY <1>1, <1>4, <1>6, SubSeqProperties DEF p
<1>8. Len(p) = n - d
  BY <1>1, <1>4, <1>7
<1>9. ASSUME NEW i \in 1..Len(p) PROVE p[i] = s[d + i]
  <2>1. i \in 1..(n - first + 1) /\ first + i - 1 = d + i
    BY <1>1, <1>4, <1>8
  <2> QED
    BY <1>7, <2>1
<1>10. Len(p) > 0 => p[1] > cutoff
  <2>1. Len(p) > 0 => 1 \in 1..Len(p) /\ d + 1 = first /\ first <= n
    BY <1>1, <1>4, <1>8
  <2> QED
    BY <1>4, <1>9, <2>1
<1> QED
  BY <1>2, <1>5, <1>7, <1>8, <1>9, <1>10 DEF IsAfter, n

(* The entries are the end of what was served, all of the last period.     *)
Covers(e, h, at) ==
  /\ e \in Seq(Int) /\ h \in Seq(Int) /\ Len(e) <= Len(h)
  /\ \A i \in 1..Len(e) : e[i] = h[Len(h) - Len(e) + i]
  /\ \A i \in 1..(Len(h) - Len(e)) : h[i] <= at - Period

(* Dropping what is too old keeps every request of the last period.        *)
LEMMA CoversAfter ==
  ASSUME NEW e, NEW h, NEW at \in Int, Covers(e, h, at), NEW p, NEW d \in 0..Len(e),
         IsAfter(p, e, d, at - Period)
  PROVE  Covers(p, h, at)
<1>1. Len(e) \in Nat /\ Len(h) \in Nat /\ Len(e) <= Len(h) /\ Len(p) = Len(e) - d /\ p \in Seq(Int)
      /\ h \in Seq(Int)
  BY LenProperties DEF Covers, IsAfter
<1>2. ASSUME NEW i \in 1..Len(p) PROVE p[i] = h[Len(h) - Len(p) + i]
  <2>1. d + i \in 1..Len(e) /\ Len(h) - Len(e) + (d + i) = Len(h) - Len(p) + i
    BY <1>1
  <2>2. p[i] = e[d + i]
    BY DEF IsAfter
  <2>3. e[d + i] = h[Len(h) - Len(e) + (d + i)]
    BY <2>1 DEF Covers
  <2> QED
    BY <2>1, <2>2, <2>3
<1>3. ASSUME NEW i \in 1..(Len(h) - Len(p)) PROVE h[i] <= at - Period
  <2>1. CASE i \in 1..(Len(h) - Len(e))
    BY <2>1 DEF Covers
  <2>2. CASE i \notin 1..(Len(h) - Len(e))
    <3> DEFINE j == i - (Len(h) - Len(e))
    <3>1. j \in 1..d /\ j \in 1..Len(e) /\ Len(h) - Len(e) + j = i
      BY <1>1, <2>2
    <3> HIDE DEF j
    <3>2. e[j] = h[i]
      BY <3>1 DEF Covers
    <3>3. e[j] <= at - Period
      BY <3>1 DEF IsAfter
    <3> QED
      BY <3>2, <3>3
  <2> QED
    BY <2>1, <2>2
<1> QED
  BY <1>1, <1>2, <1>3 DEF Covers

(* A served request is added to both.                                      *)
LEMMA CoversServed ==
  ASSUME NEW e, NEW h, NEW at \in Int, Covers(e, h, at)
  PROVE  /\ Covers(Append(e, at), Append(h, at), at)
         /\ Len(Append(e, at)) = Len(e) + 1
         /\ Append(e, at)[1] = IF Len(e) = 0 THEN at ELSE e[1]
<1> DEFINE f == Append(e, at)
           g == Append(h, at)
           m == Len(e)
           n == Len(h)
<1>1. /\ m \in Nat /\ n \in Nat /\ m <= n /\ e \in Seq(Int) /\ h \in Seq(Int)
      /\ \A i \in 1..m : e[i] = h[n - m + i]
      /\ \A i \in 1..(n - m) : h[i] <= at - Period
  BY LenProperties DEF Covers
<1>2. /\ f \in Seq(Int) /\ Len(f) = m + 1 /\ \A i \in 1..m : f[i] = e[i]
      /\ f[m + 1] = at
  BY <1>1, AppendProperties
<1>3. /\ g \in Seq(Int) /\ Len(g) = n + 1 /\ \A i \in 1..n : g[i] = h[i]
      /\ g[n + 1] = at
  BY <1>1, AppendProperties
<1> HIDE DEF f, g, m, n
<1>4. ASSUME NEW i \in 1..(m + 1) PROVE f[i] = g[(n + 1) - (m + 1) + i]
  <2>1. CASE i = m + 1
    <3>1. (n + 1) - (m + 1) + i = n + 1
      BY <1>1, <2>1
    <3> QED
      BY <1>2, <1>3, <2>1, <3>1
  <2>2. CASE i \in 1..m
    <3>1. (n + 1) - (m + 1) + i = n - m + i /\ n - m + i \in 1..n
      BY <1>1, <2>2
    <3> QED
      BY <1>1, <1>2, <1>3, <2>2, <3>1
  <2> QED
    BY <1>1, <2>1, <2>2
<1>5. ASSUME NEW i \in 1..((n + 1) - (m + 1)) PROVE g[i] <= at - Period
  <2>1. i \in 1..(n - m) /\ i \in 1..n
    BY <1>1
  <2> QED
    BY <1>1, <1>3, <2>1
<1>6. Covers(f, g, at)
  BY <1>1, <1>2, <1>3, <1>4, <1>5 DEF Covers
<1>7. f[1] = IF m = 0 THEN at ELSE e[1]
  <2>1. CASE m = 0
    BY <1>2, <2>1
  <2>2. CASE m # 0
    <3>1. 1 \in 1..m
      BY <1>1, <2>2
    <3> QED
      BY <1>2, <2>2, <3>1
  <2> QED
    BY <2>1, <2>2
<1> QED
  BY <1>2, <1>6, <1>7 DEF f, g, m

(* The limiter counts sets as this module does.                            *)
LEMMA LimitCardinality ==
  ASSUME NEW S
  PROVE  L!Cardinality(S) = Cardinality(S)
BY DEF L!Cardinality, Cardinality

(* The table and the histories of the addresses.                           *)
ClientInv(e, h, t, at) ==
  /\ Covers(e, h, at) /\ Len(e) <= MaxPerKey
  /\ t \in Int /\ t >= -1
  /\ t # -1 /\ Len(e) > 0 => e[1] + Period <= t

LimitInv ==
  /\ now \in 0..MaxTime /\ broken = FALSE
  /\ entries \in [Clients -> Seq(Int)] /\ served \in [Clients -> Seq(Int)]
  /\ promised \in [Clients -> Int]
  /\ \A c \in Clients : ClientInv(entries[c], served[c], promised[c], now)
  /\ IsFiniteSet(L!Present) /\ Cardinality(L!Present) <= MaxClients

(* An address without an entry, whether new or evicted.                    *)
LEMMA NothingServed ==
  ASSUME NEW at \in Int, NEW t \in Int, t >= -1
  PROVE  ClientInv(<<>>, <<>>, t, at) /\ <<>> \in Seq(Int)
<1>1. <<>> \in Seq(Int) /\ Len(<<>>) = 0
  OBVIOUS
<1>2. Covers(<<>>, <<>>, at)
  BY <1>1 DEF Covers
<1>3. Len(<<>>) <= MaxPerKey
  BY <1>1, MCPanelAuthAssumption
<1> QED
  BY <1>1, <1>2, <1>3 DEF ClientInv

(* The empty table.                                                        *)
LEMMA LimitInit ==
  ASSUME L!Init
  PROVE  LimitInv
<1>1. /\ now = 0 /\ broken = FALSE /\ entries = [c \in Clients |-> <<>>]
      /\ served = [c \in Clients |-> <<>>] /\ promised = [c \in Clients |-> -1]
  BY DEF L!Init
<1>2. L!Present = {}
  BY <1>1 DEF L!Present
<1>3. \A c \in Clients : ClientInv(<<>>, <<>>, -1, 0)
  BY NothingServed
<1>4. <<>> \in Seq(Int)
  OBVIOUS
<1> QED
  BY <1>1, <1>2, <1>3, <1>4, FS_EmptySet, MCPanelAuthAssumption DEF LimitInv

(* As time goes on, no more requests are of the last period.               *)
LEMMA CoversLater ==
  ASSUME NEW e, NEW h, NEW at \in Int, NEW later \in Int, at <= later, Covers(e, h, at)
  PROVE  Covers(e, h, later)
<1>1. h \in Seq(Int) /\ Len(h) \in Nat /\ Len(e) \in Nat
  BY LenProperties DEF Covers
<1>2. ASSUME NEW i \in 1..(Len(h) - Len(e)) PROVE h[i] <= later - Period
  <2>1. h[i] <= at - Period
    BY DEF Covers
  <2>2. i \in 1..Len(h)
    BY <1>1
  <2>3. h[i] \in Int
    BY <1>1, <2>2, ElementOfSeq
  <2> QED
    BY <2>1, <2>3, MCPanelAuthAssumption
<1> QED
  BY <1>2 DEF Covers

(* Time passes: what was promised was promised for later.                  *)
LEMMA LimitTick ==
  ASSUME LimitInv, L!Tick
  PROVE  LimitInv'
<1>1. /\ now' = now + 1 /\ now < MaxTime
      /\ entries' = entries /\ served' = served /\ promised' = promised /\ broken' = broken
  BY DEF L!Tick
<1>2. now' \in 0..MaxTime /\ now \in Int /\ now' \in Int /\ now <= now'
  BY <1>1, MCPanelAuthAssumption DEF LimitInv
<1>3. ASSUME NEW c \in Clients
      PROVE  ClientInv(entries[c], served[c], promised[c], now')
  BY <1>2, CoversLater DEF LimitInv, ClientInv
<1>4. L!Present' = L!Present
  BY <1>1 DEF L!Present
<1> QED
  BY <1>1, <1>2, <1>3, <1>4 DEF LimitInv

(* What a request finds when its entry has been pruned.                    *)
LEMMA PrunedEntry ==
  ASSUME LimitInv, NEW c \in Clients
  PROVE  LET p == L!pruneAttempts(entries[c])
         IN  /\ p \in Seq(Int) /\ Len(p) \in Nat /\ Len(p) <= Len(entries[c])
             /\ Covers(p, served[c], now)
             /\ Len(p) > 0 => p[1] > now - Period
             /\ Len(entries[c]) > 0 /\ entries[c][1] <= now - Period => Len(p) < Len(entries[c])
             /\ Len(p) = Len(entries[c]) /\ Len(p) > 0 => p[1] = entries[c][1]
<1> DEFINE e == entries[c]
           p == L!pruneAttempts(entries[c])
<1>1. e \in Seq(Int) /\ Covers(e, served[c], now) /\ now \in Int /\ now - Period \in Int
  BY MCPanelAuthAssumption DEF LimitInv, ClientInv
<1>2. p = L!After(e, now - Period)
  BY DEF L!pruneAttempts
<1> HIDE DEF e, p
<1>3. PICK d \in 0..Len(e) : IsAfter(p, e, d, now - Period)
  BY <1>1, <1>2, AfterIs
<1>4. Covers(p, served[c], now)
  BY <1>1, <1>3, CoversAfter
<1>5. /\ Len(e) \in Nat /\ Len(p) = Len(e) - d /\ p \in Seq(Int)
      /\ Len(p) > 0 => p[1] > now - Period
      /\ \A i \in 1..Len(p) : p[i] = e[d + i]
  BY <1>1, <1>3, LenProperties DEF IsAfter
<1>6. Len(p) \in Nat /\ Len(p) <= Len(e)
  BY <1>5
<1>7. Len(p) = Len(e) /\ Len(p) > 0 => p[1] = e[1]
  <2> SUFFICES ASSUME Len(p) = Len(e), Len(p) > 0 PROVE p[1] = e[1]
    OBVIOUS
  <2>1. d = 0 /\ 1 \in 1..Len(p) /\ d + 1 = 1
    BY <1>5
  <2> QED
    BY <1>5, <2>1
<1>8. Len(e) > 0 /\ e[1] <= now - Period => Len(p) < Len(e)
  <2> SUFFICES ASSUME Len(e) > 0, e[1] <= now - Period, ~(Len(p) < Len(e)) PROVE FALSE
    OBVIOUS
  <2>1. Len(p) = Len(e) /\ Len(p) > 0
    BY <1>5, <1>6
  <2>2. p[1] = e[1] /\ p[1] > now - Period
    BY <1>5, <1>7, <2>1
  <2>3. e[1] \in Int
    BY <1>1, <1>5, <2>1, ElementOfSeq
  <2> QED
    BY <1>1, <2>2, <2>3
<1> QED
  BY <1>4, <1>5, <1>6, <1>7, <1>8 DEF e, p

(* A served request: the table makes room by evicting one address, whose   *)
(* history ends with it, and the address served keeps its limit.           *)
LEMMA LimitServe ==
  ASSUME LimitInv, NEW c \in Clients, L!Serve(c)
  PROVE  LimitInv'
<1> DEFINE p == L!pruneAttempts(entries[c])
           full == entries[c] = <<>> /\ L!Cardinality(L!Present) >= MaxClients
<1>1. /\ Len(p) < MaxPerKey /\ promised' = [promised EXCEPT ![c] = -1]
      /\ now' = now /\ broken' = broken
  BY DEF L!Serve
<1>2. PICK evicted \in IF full THEN {{d} : d \in L!evictOldestLocked} ELSE {{}} :
        /\ entries' = [d \in Clients |->
             CASE d = c -> Append(p, now) [] d \in evicted -> <<>> [] OTHER -> entries[d]]
        /\ served' = [d \in Clients |->
             CASE d = c -> Append(served[c], now) [] d \in evicted -> <<>> [] OTHER -> served[d]]
  BY DEF L!Serve
<1>3. /\ p \in Seq(Int) /\ Len(p) \in Nat /\ Covers(p, served[c], now)
      /\ Len(p) > 0 => p[1] > now - Period
  BY PrunedEntry
<1>4. now \in Int /\ now \in Nat
  BY DEF LimitInv
<1>5. \/ ~full /\ evicted = {}
      \/ full /\ \E d \in L!Present : evicted = {d}
  BY <1>2 DEF L!evictOldestLocked
<1>6. full <=> c \notin L!Present /\ Cardinality(L!Present) >= MaxClients
  BY LimitCardinality DEF L!Present
<1> DEFINE e == Append(p, now)
           h == Append(served[c], now)
<1>7. Covers(e, h, now) /\ Len(e) = Len(p) + 1
  BY <1>3, <1>4, CoversServed
<1>8. e # <<>> /\ e \in Seq(Int) /\ h \in Seq(Int)
  BY <1>3, <1>7 DEF Covers
<1> HIDE DEF full, p
<1>9. /\ entries' = [d \in Clients |->
            CASE d = c -> e [] d \in evicted -> <<>> [] OTHER -> entries[d]]
      /\ served' = [d \in Clients |->
            CASE d = c -> h [] d \in evicted -> <<>> [] OTHER -> served[d]]
  BY <1>2
<1> HIDE DEF e, h
<1>10. c \notin evicted
  BY <1>5, <1>6
<1>11. /\ \A d \in Clients : entries'[d] = IF d = c THEN e
                                           ELSE IF d \in evicted THEN <<>> ELSE entries[d]
       /\ \A d \in Clients : served'[d] = IF d = c THEN h
                                          ELSE IF d \in evicted THEN <<>> ELSE served[d]
       /\ entries' = [d \in Clients |-> entries'[d]] /\ served' = [d \in Clients |-> served'[d]]
  <2>1. ASSUME NEW d \in Clients
        PROVE  /\ entries'[d] = IF d = c THEN e ELSE IF d \in evicted THEN <<>> ELSE entries[d]
               /\ served'[d] = IF d = c THEN h ELSE IF d \in evicted THEN <<>> ELSE served[d]
    <3>1. CASE d = c
      BY <1>9, <1>10, <3>1
    <3>2. CASE d # c /\ d \in evicted
      BY <1>9, <3>2
    <3>3. CASE d # c /\ d \notin evicted
      BY <1>9, <3>3
    <3> QED
      BY <3>1, <3>2, <3>3
  <2>2. entries' = [d \in Clients |-> entries'[d]]
    BY <1>9
  <2>3. served' = [d \in Clients |-> served'[d]]
    BY <1>9
  <2> QED
    BY <2>1, <2>2, <2>3
<1>12. promised \in [Clients -> Int]
  BY DEF LimitInv
<1>13. /\ promised' \in [Clients -> Int] /\ promised'[c] = -1
       /\ \A d \in Clients : d # c => promised'[d] = promised[d]
  BY <1>1, <1>12
<1>14. ASSUME NEW d \in Clients
       PROVE  ClientInv(entries'[d], served'[d], promised'[d], now)
  <2>1. CASE d = c
    <3>1. entries'[d] = e /\ served'[d] = h /\ promised'[d] = -1
      BY <1>11, <1>13, <2>1
    <3>2. Len(e) <= MaxPerKey
      BY <1>1, <1>3, <1>7, MCPanelAuthAssumption
    <3> QED
      BY <1>7, <3>1, <3>2 DEF ClientInv
  <2>2. CASE d # c /\ d \in evicted
    <3>1. entries'[d] = <<>> /\ served'[d] = <<>> /\ promised'[d] = promised[d]
      BY <1>11, <1>13, <2>2
    <3>2. promised[d] \in Int /\ promised[d] >= -1
      BY DEF LimitInv, ClientInv
    <3> QED
      BY <1>4, <3>1, <3>2, NothingServed
  <2>3. CASE d # c /\ d \notin evicted
    <3>1. entries'[d] = entries[d] /\ served'[d] = served[d] /\ promised'[d] = promised[d]
      BY <1>11, <1>13, <2>3
    <3> QED
      BY <3>1 DEF LimitInv
  <2> QED
    BY <2>1, <2>2, <2>3
<1>15. entries' \in [Clients -> Seq(Int)] /\ served' \in [Clients -> Seq(Int)]
  <2>1. \A d \in Clients : entries'[d] \in Seq(Int) /\ served'[d] \in Seq(Int)
    BY <1>14 DEF ClientInv, Covers
  <2> QED
    BY <1>11, <2>1
<1>16. L!Present' = (L!Present \cup {c}) \ (evicted \ {c})
  <2>1. L!Present' = {d \in Clients : entries'[d] # <<>>}
    BY DEF L!Present
  <2>2. \A d \in Clients : entries'[d] # <<>> <=> d = c \/ (d \notin evicted /\ entries[d] # <<>>)
    BY <1>8, <1>11
  <2>3. L!Present = {d \in Clients : entries[d] # <<>>}
    BY DEF L!Present
  <2> QED
    BY <2>1, <2>2, <2>3
<1>17. IsFiniteSet(L!Present') /\ Cardinality(L!Present') <= MaxClients
  <2> DEFINE P == L!Present
             Q == L!Present'
  <2>1. IsFiniteSet(P) /\ Cardinality(P) <= MaxClients /\ Cardinality(P) \in Nat
    BY FS_CardinalityType DEF LimitInv
  <2>2. MaxClients \in Nat /\ MaxClients >= 1
    BY MCPanelAuthAssumption
  <2> HIDE DEF P, Q
  <2>3. CASE c \in P
    <3>1. ~full
      BY <1>6, <2>3 DEF P
    <3>2. Q = P
      BY <1>5, <1>16, <2>3, <3>1 DEF P, Q
    <3> QED
      BY <2>1, <3>2 DEF Q
  <2>4. CASE c \notin P /\ ~full
    <3>1. Q = P \cup {c}
      BY <1>5, <1>16, <2>4 DEF P, Q
    <3>2. Cardinality(P) < MaxClients
      BY <1>6, <2>1, <2>2, <2>4 DEF P
    <3>3. IsFiniteSet(Q) /\ Cardinality(Q) = Cardinality(P) + 1
      BY <2>1, <2>4, <3>1, FS_AddElement
    <3> QED
      BY <2>1, <2>2, <3>2, <3>3 DEF Q
  <2>5. CASE c \notin P /\ full
    <3>1. PICK d \in P : evicted = {d}
      BY <1>5, <2>5 DEF P
    <3>2. Q = (P \ {d}) \cup {c}
      BY <1>16, <2>5, <3>1 DEF P, Q
    <3>3. IsFiniteSet(P \ {d}) /\ Cardinality(P \ {d}) = Cardinality(P) - 1
      BY <2>1, <3>1, FS_RemoveElement
    <3>4. IsFiniteSet(Q) /\ Cardinality(Q) = Cardinality(P \ {d}) + 1
      BY <2>5, <3>2, <3>3, FS_AddElement
    <3> QED
      BY <2>1, <3>3, <3>4 DEF Q
  <2> QED
    BY <2>3, <2>4, <2>5
<1> QED
  BY <1>1, <1>13, <1>14, <1>15, <1>17 DEF LimitInv

(* Retry-After is rounded up.                                              *)
LEMMA SecondsAreEnough ==
  ASSUME NEW t \in Int
  PROVE  /\ L!retryAfterSeconds(t) \in Int /\ L!retryAfterSeconds(t) >= 1
         /\ 2 * L!retryAfterSeconds(t) >= t
<1> DEFINE s == (t + 1) \div 2
<1>1. s \in Int /\ 2 * s >= t
  OBVIOUS
<1>2. t + L!Second - 1 = t + 1 /\ L!Second = 2
  BY DEF L!Second
<1>3. L!retryAfterSeconds(t) = IF s < 1 THEN 1 ELSE s
  BY <1>2 DEF L!retryAfterSeconds
<1> HIDE DEF s
<1> QED
  BY <1>1, <1>3

(* A refused request: its entry is pruned and non-empty, so the time       *)
(* promised is when its oldest request leaves the period.                  *)
LEMMA LimitRefuse ==
  ASSUME LimitInv, NEW c \in Clients, L!Refuse(c)
  PROVE  LimitInv'
<1> DEFINE p == L!pruneAttempts(entries[c])
           retry == p[1] + Period - now
           wait == IF retry < 0 THEN 0 ELSE retry
<1>1. /\ Len(p) >= MaxPerKey
      /\ entries' = [entries EXCEPT ![c] = p]
      /\ promised' = [promised EXCEPT ![c] = now + L!Second * L!retryAfterSeconds(wait)]
      /\ broken' = (broken \/ (promised[c] # -1 /\ now >= promised[c]))
      /\ now' = now /\ served' = served
  BY DEF L!Refuse
<1>2. /\ p \in Seq(Int) /\ Len(p) \in Nat /\ Len(p) <= Len(entries[c])
      /\ Covers(p, served[c], now)
      /\ Len(p) > 0 => p[1] > now - Period
      /\ Len(entries[c]) > 0 /\ entries[c][1] <= now - Period => Len(p) < Len(entries[c])
      /\ Len(p) = Len(entries[c]) /\ Len(p) > 0 => p[1] = entries[c][1]
  BY PrunedEntry
<1>3. /\ now \in Int /\ now >= 0 /\ Period \in Nat /\ MaxPerKey \in Nat /\ MaxPerKey >= 1
  BY MCPanelAuthAssumption DEF LimitInv
<1>4. /\ ClientInv(entries[c], served[c], promised[c], now)
      /\ entries \in [Clients -> Seq(Int)] /\ promised \in [Clients -> Int]
  BY DEF LimitInv
<1> HIDE DEF p
<1>5. Len(entries[c]) \in Nat /\ Len(entries[c]) <= MaxPerKey
  BY <1>4, LenProperties DEF ClientInv
<1>6. Len(p) = MaxPerKey /\ Len(p) = Len(entries[c]) /\ Len(p) > 0
  BY <1>1, <1>2, <1>3, <1>5
<1>7. p[1] \in Int
  BY <1>2, <1>6, ElementOfSeq
<1>8. retry \in Int /\ wait \in Int /\ wait >= retry
  BY <1>3, <1>7
<1> DEFINE t == now + L!Second * L!retryAfterSeconds(wait)
<1>9. t \in Int /\ t >= 0 /\ p[1] + Period <= t
  <2> DEFINE s == L!retryAfterSeconds(wait)
  <2>1. s \in Int /\ s >= 1 /\ 2 * s >= wait
    BY <1>8, SecondsAreEnough
  <2>2. t = now + 2 * s
    BY DEF L!Second
  <2> HIDE DEF s, t, wait
  <2>3. 2 * s >= retry
    BY <1>8, <2>1
  <2> QED
    BY <1>3, <1>7, <2>1, <2>2, <2>3
<1>10. ~(promised[c] # -1 /\ now >= promised[c])
  <2> SUFFICES ASSUME promised[c] # -1, now >= promised[c] PROVE FALSE
    OBVIOUS
  <2>1. entries[c][1] + Period <= promised[c]
    BY <1>4, <1>6 DEF ClientInv
  <2>2. p[1] = entries[c][1] /\ promised[c] \in Int
    BY <1>2, <1>4, <1>6
  <2>3. p[1] <= now - Period
    BY <1>3, <1>7, <2>1, <2>2
  <2> QED
    BY <1>2, <1>6, <2>2, <2>3
<1>11. broken' = FALSE
  BY <1>1, <1>10 DEF LimitInv
<1> HIDE DEF t, retry, wait
<1>12. /\ entries' \in [Clients -> Seq(Int)] /\ entries'[c] = p
       /\ \A d \in Clients : d # c => entries'[d] = entries[d]
  BY <1>1, <1>2, <1>4
<1>13. /\ promised' \in [Clients -> Int] /\ promised'[c] = t
       /\ \A d \in Clients : d # c => promised'[d] = promised[d]
  BY <1>1, <1>4, <1>9 DEF t
<1>14. ASSUME NEW d \in Clients
       PROVE  ClientInv(entries'[d], served[d], promised'[d], now)
  <2>1. CASE d = c
    BY <1>2, <1>3, <1>6, <1>9, <1>12, <1>13, <2>1 DEF ClientInv
  <2>2. CASE d # c
    BY <1>12, <1>13, <2>2 DEF LimitInv
  <2> QED
    BY <2>1, <2>2
<1>15. L!Present' = L!Present
  <2>1. entries[c] # <<>> /\ p # <<>>
    BY <1>6
  <2>2. \A d \in Clients : entries'[d] # <<>> <=> entries[d] # <<>>
    BY <1>12, <2>1
  <2>3. L!Present' = {d \in Clients : entries'[d] # <<>>}
    BY DEF L!Present
  <2> QED
    BY <2>2, <2>3 DEF L!Present
<1> QED
  BY <1>1, <1>11, <1>12, <1>13, <1>14, <1>15 DEF LimitInv

(* Every step of the limiter keeps the invariant.                          *)
LEMMA LimitStep ==
  ASSUME LimitInv, L!Next \/ UNCHANGED limiterVars
  PROVE  LimitInv'
<1>1. CASE L!Tick
  BY <1>1, LimitTick
<1>2. CASE \E c \in Clients : L!Serve(c) \/ L!Refuse(c)
  BY <1>2, LimitServe, LimitRefuse
<1>3. CASE UNCHANGED limiterVars
  BY <1>3 DEF limiterVars, LimitInv, L!Present
<1> QED
  BY <1>1, <1>2, <1>3 DEF L!Next

(* The requests of the last period are among the entries, which are no     *)
(* more than the limit.                                                    *)
LEMMA LimitHolds ==
  ASSUME LimitInv
  PROVE  L!TypeOK /\ L!LimitIsFair
<1>1. L!TypeOK
  BY DEF LimitInv, ClientInv, L!TypeOK
<1>2. ASSUME NEW c \in Clients
      PROVE  L!Cardinality({i \in DOMAIN served[c] : served[c][i] > now - Period}) <= MaxPerKey
  <2> DEFINE e == entries[c]
             h == served[c]
             m == Len(e)
             n == Len(h)
             Late == {i \in DOMAIN h : h[i] > now - Period}
  <2>1. /\ e \in Seq(Int) /\ h \in Seq(Int) /\ m <= n /\ m <= MaxPerKey
        /\ \A i \in 1..(n - m) : h[i] <= now - Period
    BY DEF LimitInv, ClientInv, Covers
  <2>2. m \in Nat /\ n \in Nat /\ DOMAIN h = 1..n /\ \A i \in 1..n : h[i] \in Int
    BY <2>1, LenProperties
  <2>3. now - Period \in Int
    BY MCPanelAuthAssumption DEF LimitInv
  <2> HIDE DEF h, m, n, e
  <2>4. Late \subseteq (n - m + 1)..n
    <3> SUFFICES ASSUME NEW i \in 1..n, h[i] > now - Period PROVE i \in (n - m + 1)..n
      BY <2>2
    <3>1. i \notin 1..(n - m)
      BY <2>1, <2>2, <2>3
    <3> QED
      BY <2>1, <2>2, <3>1
  <2>5. IsFiniteSet((n - m + 1)..n) /\ Cardinality((n - m + 1)..n) = m
    <3>1. n - m + 1 \in Int /\ n \in Int
      BY <2>2
    <3>2. /\ IsFiniteSet((n - m + 1)..n)
          /\ Cardinality((n - m + 1)..n) = IF n - m + 1 > n THEN 0 ELSE n - (n - m + 1) + 1
      BY <3>1, FS_Interval
    <3> QED
      BY <2>2, <3>2
  <2> HIDE DEF Late
  <2>6. Cardinality(Late) <= m /\ Cardinality(Late) \in Nat
    BY <2>4, <2>5, FS_Subset, FS_CardinalityType
  <2>7. Cardinality(Late) <= MaxPerKey
    BY <2>1, <2>2, <2>6, MCPanelAuthAssumption
  <2> QED
    BY <2>7, LimitCardinality DEF Late, h
<1>3. L!Cardinality(L!Present) <= MaxClients
  BY LimitCardinality DEF LimitInv
<1> QED
  BY <1>1, <1>2, <1>3 DEF LimitInv, L!LimitIsFair

(* The invariant of the limiter, in the behaviours that exercise it.       *)
LimitPart == part = "limiter" => LimitInv

THEOREM LimitInvariant == PanelSpec => []LimitPart
<1>1. PanelInit => LimitPart
  BY LimitInit DEF PanelInit, LimitPart
<1>2. LimitPart /\ [PanelNext]_panelVars => LimitPart'
  <2> SUFFICES ASSUME LimitPart, [PanelNext]_panelVars, part' = "limiter"
               PROVE  LimitInv'
    BY DEF LimitPart
  <2>1. part = "limiter"
    BY DEF PanelNext, panelVars
  <2>2. L!Next \/ UNCHANGED limiterVars
    BY <2>1 DEF PanelNext, panelVars
  <2> QED
    BY <2>1, <2>2, LimitStep DEF LimitPart
<1> QED
  BY <1>1, <1>2, PTL DEF PanelSpec

THEOREM LimitHoldsForAll == PanelSpec => []LimitIsFair
<1>1. LimitPart => LimitIsFair
  BY LimitHolds DEF LimitPart, LimitIsFair
<1> QED
  BY <1>1, LimitInvariant, PTL

(***************************************************************************)
(* PanelMetrics: the counters of two samples, the ring of samples and the  *)
(* lines drawn of it, for every length of the day and of the chart.        *)
(***************************************************************************)

(* Dividing less by more gives no more.                                    *)
LEMMA Products ==
  ASSUME NEW x \in Nat, NEW y \in Nat, NEW z \in Nat, x <= y
  PROVE  x * z <= y * z /\ x * z \in Nat /\ y * z \in Nat
<1>1. (y - x) * z >= 0
  OBVIOUS
<1>2. (y - x) * z = y * z - x * z
  OBVIOUS
<1>3. x * z \in Nat /\ y * z \in Nat
  OBVIOUS
<1> QED
  BY <1>1, <1>2, <1>3

(* What whole division gives.                                              *)
LEMMA Quotient ==
  ASSUME NEW a \in Nat, NEW d \in Nat, d > 0
  PROVE  /\ a \div d \in Nat
         /\ (a \div d) * d <= a
         /\ a < (a \div d + 1) * d
OBVIOUS

(* Less divided by more gives no more.                                     *)
LEMMA Quotients ==
  ASSUME NEW a \in Nat, NEW b \in Nat, NEW d \in Nat, NEW e \in Nat,
         a <= b, d > 0, d <= e
  PROVE  a \div e <= b \div d
<1> DEFINE q == a \div e
           r == b \div d
<1>1. q \in Nat /\ q * e <= a
  BY Quotient
<1>2. r \in Nat /\ b < (r + 1) * d
  BY Quotient
<1> HIDE DEF q, r
<1>3. r + 1 \in Nat
  BY <1>2
<1>4. d * (r + 1) <= e * (r + 1)
  BY <1>3, Products
<1>5. d * (r + 1) = (r + 1) * d /\ e * (r + 1) = (r + 1) * e
  BY <1>3
<1>6. q * e \in Nat /\ (r + 1) * e \in Nat /\ (r + 1) * d \in Nat
  BY <1>1, <1>3
<1>7. q * e < (r + 1) * e
  BY <1>1, <1>2, <1>4, <1>5, <1>6
<1>8. ~(r + 1 <= q)
  <2> SUFFICES ASSUME r + 1 <= q PROVE FALSE
    OBVIOUS
  <2>1. (r + 1) * e <= q * e
    BY <1>1, <1>3, Products
  <2> QED
    BY <1>6, <1>7, <2>1
<1> QED
  BY <1>1, <1>2, <1>8 DEF q, r

(* A rate is known only between two rising readings, and is clamped.       *)
LEMMA RateIs ==
  ASSUME NEW last, last.at \in Int, last.used \in Nat, NEW used \in Nat, clock \in Nat
  PROVE  LET r == M!Rate(last, used)
         IN  /\ r \in -1..6
             /\ r # -1 =>
                  /\ last.at # -1 /\ last.at < clock /\ last.used <= used
                  /\ r = M!clampPercent((6 * (used - last.used)) \div (clock - last.at))
<1> DEFINE r == M!Rate(last, used)
           None1 == \/ last.at = -1 \/ clock <= last.at
                    \/ clock - last.at > MaxGap \/ used < last.used
           q == (6 * (used - last.used)) \div (clock - last.at)
<1>1. r = IF None1 THEN -1 ELSE M!clampPercent(q)
  BY DEF M!Rate, M!Nil, M!Full
<1>2. CASE None1
  BY <1>1, <1>2
<1>3. CASE ~None1
  <2>1. last.at # -1 /\ last.at < clock /\ last.used <= used
    BY <1>3
  <2>2. 6 * (used - last.used) \in Nat /\ clock - last.at \in Nat /\ clock - last.at > 0
    BY <2>1
  <2>3. q \in Nat
    BY <2>2, Quotient
  <2> HIDE DEF q, None1
  <2>4. r = M!clampPercent(q)
    BY <1>1, <1>3
  <2>5. r \in -1..6
    BY <2>3, <2>4 DEF M!clampPercent, M!Full
  <2> QED
    BY <2>1, <2>4, <2>5 DEF q
<1> QED
  BY <1>2, <1>3

(* The invariant of the sampling.                                          *)
Readings == [ts : Nat, gameRAM : {-1, 1}, gameCPU : -1..6, sysCPU : -1..6]

(* Two samples are as many seconds apart as there are samples between.     *)
Rises(s) == \A i, j \in 1..Len(s) : i < j => s[j].ts - s[i].ts >= j - i

(* A reading of the processor goes with one of the memory, and the game    *)
(* uses no more than the machine.                                          *)
Sound(x) ==
  /\ x.gameCPU # -1 => x.gameRAM # -1
  /\ x.gameCPU # -1 /\ x.sysCPU # -1 => x.gameCPU <= x.sysCPU

(* The counters: since its last reading the game used no more than the     *)
(* machine did since its own.                                              *)
CounterInv ==
  /\ clock \in 0..MaxClock /\ due \in BOOLEAN /\ running \in BOOLEAN
  /\ usage \in Nat /\ busy \in Nat /\ usage <= clock /\ busy <= clock
  /\ ~running => usage = 0
  /\ lastGame = [at |-> lastGame.at, used |-> lastGame.used]
  /\ lastSys = [at |-> lastSys.at, used |-> lastSys.used]
  /\ lastGame.at \in Int /\ lastSys.at \in Int /\ lastGame.at <= lastSys.at
  /\ lastSys.at <= clock
  /\ lastGame.used \in Nat /\ lastSys.used \in Nat
  /\ lastSys.at # -1 => usage - lastGame.used <= busy - lastSys.used

(* The ring of samples.                                                    *)
RingInv ==
  /\ samples \in Seq(Readings) /\ Len(samples) <= Day + 1 /\ Rises(samples)
  /\ \A i \in 1..Len(samples) : /\ Sound(samples[i]) /\ samples[i].ts <= clock
                                /\ due => samples[i].ts < clock
  /\ dropped \in -1..MaxClock /\ (dropped # -1 => dropped < clock - Day)

(* Nothing has been sampled.                                               *)
LEMMA MetricsInit ==
  ASSUME M!Init
  PROVE  CounterInv /\ RingInv
<1>1. /\ clock = 0 /\ due = TRUE /\ running \in BOOLEAN /\ usage = 0 /\ busy = 0
      /\ lastGame = [at |-> -1, used |-> 0] /\ lastSys = [at |-> -1, used |-> 0]
      /\ samples = <<>> /\ dropped = -1
  BY DEF M!Init, M!Never, M!Nil
<1>2. CounterInv
  BY <1>1, MCPanelAuthAssumption DEF CounterInv
<1>3. RingInv
  <2>1. samples \in Seq(Readings) /\ Len(samples) = 0
    BY <1>1
  <2> QED
    BY <1>1, <2>1, MCPanelAuthAssumption DEF RingInv, Rises
<1> QED
  BY <1>2, <1>3

(* A reading: no more of the game than of the machine.                     *)
LEMMA ReadingIsSound ==
  ASSUME CounterInv
  PROVE  M!read \in Readings /\ Sound(M!read) /\ M!read.ts = clock
<1> DEFINE x == M!read
           g == M!Rate(lastGame, usage)
           s == M!Rate(lastSys, busy)
<1>1. clock \in Nat /\ running \in BOOLEAN
  BY DEF CounterInv
<1>2. /\ g \in -1..6
      /\ g # -1 =>
           /\ lastGame.at # -1 /\ lastGame.at < clock /\ lastGame.used <= usage
           /\ g = M!clampPercent((6 * (usage - lastGame.used)) \div (clock - lastGame.at))
  BY RateIs DEF CounterInv
<1>3. /\ s \in -1..6
      /\ s # -1 =>
           /\ lastSys.at # -1 /\ lastSys.at < clock /\ lastSys.used <= busy
           /\ s = M!clampPercent((6 * (busy - lastSys.used)) \div (clock - lastSys.at))
  BY RateIs DEF CounterInv
<1>4. x = [ts |-> clock, gameRAM |-> IF running THEN 1 ELSE -1,
           gameCPU |-> IF running THEN g ELSE -1, sysCPU |-> s]
  BY DEF M!read, M!readSystemCPU, M!Nil
<1>5. g # -1 /\ s # -1 => g <= s
  <2> SUFFICES ASSUME g # -1, s # -1 PROVE g <= s
    OBVIOUS
  <2> DEFINE a == 6 * (usage - lastGame.used)
             b == 6 * (busy - lastSys.used)
             e == clock - lastGame.at
             d == clock - lastSys.at
  <2>1. /\ a \in Nat /\ b \in Nat /\ a <= b /\ d \in Nat /\ e \in Nat /\ d > 0 /\ d <= e
    <3>1. /\ usage \in Nat /\ busy \in Nat /\ lastGame.used \in Nat /\ lastSys.used \in Nat
          /\ lastGame.at \in Int /\ lastSys.at \in Int /\ lastGame.at <= lastSys.at
          /\ lastSys.at # -1 => usage - lastGame.used <= busy - lastSys.used
      BY DEF CounterInv
    <3>2. /\ lastGame.used <= usage /\ lastSys.used <= busy /\ lastSys.at # -1
          /\ lastSys.at < clock
      BY <1>2, <1>3
    <3>3. a \in Nat /\ b \in Nat /\ a <= b
      BY <3>1, <3>2
    <3>4. d \in Nat /\ e \in Nat /\ d > 0 /\ d <= e
      BY <1>1, <3>1, <3>2
    <3> QED
      BY <3>3, <3>4
  <2>2. g = M!clampPercent(a \div e) /\ s = M!clampPercent(b \div d)
    BY <1>2, <1>3
  <2> HIDE DEF a, b, d, e, g, s
  <2>3. a \div e <= b \div d
    BY <2>1, Quotients
  <2>4. a \div e \in Nat /\ b \div d \in Nat
    BY <2>1, Quotient
  <2> QED
    BY <2>2, <2>3, <2>4 DEF M!clampPercent, M!Full
<1> HIDE DEF g, s, x
<1>6. /\ x.ts = clock /\ x.gameRAM = (IF running THEN 1 ELSE -1)
      /\ x.gameCPU = (IF running THEN g ELSE -1) /\ x.sysCPU = s
  BY <1>4
<1>7. x \in Readings
  BY <1>1, <1>2, <1>3, <1>4 DEF Readings
<1>8. Sound(x)
  BY <1>5, <1>6 DEF Sound
<1> QED
  BY <1>6, <1>7, <1>8 DEF x

(* The ring after one reading more.                                        *)
LEMMA RingGrows ==
  ASSUME CounterInv, RingInv, due = TRUE, M!sample
  PROVE  RingInv'
<1> DEFINE n == Len(samples)
           all == Append(samples, M!read)
           d == IF n + 1 > Day + 1 THEN 1 ELSE 0
           p == M!Trim(all)
<1>1. /\ samples \in Seq(Readings) /\ n \in Nat /\ n <= Day + 1 /\ Day \in Nat
      /\ \A i \in 1..n : samples[i] \in Readings
      /\ \A i \in 1..n : samples[i].ts \in Nat
  <2>1. samples \in Seq(Readings)
    BY DEF RingInv
  <2>2. n \in Nat /\ \A i \in 1..n : samples[i] \in Readings
    BY <2>1, LenProperties, ElementOfSeq
  <2>3. \A x \in Readings : x.ts \in Nat
    BY DEF Readings
  <2> QED
    BY <2>1, <2>2, <2>3, MCPanelAuthAssumption DEF RingInv
<1>2. M!read \in Readings /\ Sound(M!read) /\ M!read.ts = clock
  BY ReadingIsSound
<1>3. /\ all \in Seq(Readings) /\ Len(all) = n + 1
      /\ \A i \in 1..n : all[i] = samples[i]
      /\ all[n + 1] = M!read
  BY <1>1, <1>2, AppendProperties
<1>4. clock \in Nat /\ clock \in 0..MaxClock
  BY DEF CounterInv
<1>5. samples' = p /\ due' = FALSE /\ clock' = clock
  BY DEF M!sample
<1>6. dropped' = IF Len(all) > Len(p) THEN all[1].ts ELSE dropped
  BY DEF M!sample
<1>7. p = SubSeq(all, d + 1, n + 1)
  <2>1. M!Least(n + 1, Day + 1) = n + 1 - d
    <3> HIDE DEF n, all
    <3>1. n \in Nat /\ Day \in Nat /\ n <= Day + 1
      BY <1>1
    <3>2. CASE n + 1 > Day + 1
      <4>1. n = Day + 1 /\ ~(n + 1 < Day + 1) /\ n + 1 - 1 = Day + 1
        BY <3>1, <3>2
      <4>2. d = 1
        BY <3>2
      <4> HIDE DEF d
      <4> QED
        BY <4>1, <4>2 DEF M!Least
    <3>3. CASE ~(n + 1 > Day + 1)
      <4>1. d = 0
        BY <3>3
      <4>2. n + 1 < Day + 1 \/ n + 1 = Day + 1
        BY <3>1, <3>3
      <4>3. n + 1 - 0 = n + 1
        BY <3>1
      <4> HIDE DEF d
      <4> QED
        BY <4>1, <4>2, <4>3 DEF M!Least
    <3> QED
      BY <3>2, <3>3
  <2>2. Len(all) - M!Least(Len(all), M!metricsMax) + 1 = d + 1
    <3> HIDE DEF all, n
    <3>1. Len(all) = n + 1 /\ M!metricsMax = Day + 1
      BY <1>3 DEF M!metricsMax
    <3>2. d \in Int /\ n \in Int
      BY <1>1
    <3> HIDE DEF d
    <3>3. M!Least(Len(all), M!metricsMax) = n + 1 - d
      BY <2>1, <3>1
    <3> QED
      BY <3>1, <3>2, <3>3
  <2> QED
    BY <1>3, <2>2 DEF M!Trim
<1> HIDE DEF all, p, n
<1>8. \A i \in 1..(n + 1) : all[i] \in Readings
  <2> SUFFICES ASSUME NEW i \in 1..(n + 1) PROVE all[i] \in Readings
    OBVIOUS
  <2>1. CASE i = n + 1
    BY <1>2, <1>3, <2>1
  <2>2. CASE i \in 1..n
    BY <1>1, <1>3, <2>2
  <2> QED
    BY <1>1, <2>1, <2>2
<1>9. d \in 0..1 /\ d <= n /\ n + 1 - d <= Day + 1 /\ (d = 1 <=> n = Day + 1)
  BY <1>1
<1> HIDE DEF d
<1>10. /\ p \in Seq(Readings) /\ Len(p) = n + 1 - d
       /\ \A i \in 1..(n + 1 - d) : p[i] = all[d + i]
  <2> DEFINE k == d + 1
             m == n + 1
  <2>1. k \in Int /\ m \in Int /\ k \in 1..m /\ m - k + 1 = n + 1 - d
    BY <1>1, <1>9
  <2>2. /\ p \in Seq(Readings)
        /\ Len(p) = IF k <= m THEN m - k + 1 ELSE 0
        /\ \A i \in 1..(m - k + 1) : p[i] = all[k + i - 1]
    <3>1. p = SubSeq(all, k, m) /\ \A i \in 1..m : all[i] \in Readings
      BY <1>7, <1>8
    <3> HIDE DEF k, m
    <3>2. \A i \in k..m : all[i] \in Readings
      BY <2>1, <3>1
    <3> QED
      BY <2>1, <3>1, <3>2, SubSeqProperties
  <2>3. Len(p) = n + 1 - d
    BY <2>1, <2>2
  <2>4. ASSUME NEW i \in 1..(n + 1 - d) PROVE p[i] = all[d + i]
    <3>1. k + i - 1 = d + i
      BY <1>9
    <3> QED
      BY <2>1, <2>2, <3>1
  <2> QED
    BY <2>2, <2>3, <2>4
<1>11. ASSUME NEW i \in 1..(n + 1), NEW j \in 1..(n + 1), i < j
       PROVE  all[j].ts - all[i].ts >= j - i
  <2>1. \A k, l \in 1..n : k < l => samples[l].ts - samples[k].ts >= l - k
    BY DEF RingInv, Rises, n
  <2>2. CASE j \in 1..n
    <3>1. i \in 1..n
      BY <1>1, <1>11, <2>2
    <3> QED
      BY <1>3, <1>11, <2>1, <2>2, <3>1
  <2>3. CASE j = n + 1
    <3>1. i \in 1..n /\ n \in 1..n
      BY <1>1, <1>11, <2>3
    <3>2. all[j].ts = clock /\ all[i].ts = samples[i].ts
      BY <1>2, <1>3, <2>3, <3>1
    <3>3. samples[n].ts < clock
      BY <3>1 DEF RingInv, n
    <3>4. samples[n].ts - samples[i].ts >= n - i
      <4>1. CASE i = n
        BY <1>1, <3>1, <4>1
      <4>2. CASE i < n
        BY <2>1, <3>1, <4>2
      <4> QED
        BY <1>1, <3>1, <4>1, <4>2
    <3>5. samples[n].ts \in Nat /\ samples[i].ts \in Nat
      BY <1>1, <3>1
    <3> QED
      BY <1>1, <1>4, <2>3, <3>1, <3>2, <3>3, <3>4, <3>5
  <2> QED
    BY <1>1, <2>2, <2>3
<1>12. ASSUME NEW i \in 1..(n + 1) PROVE Sound(all[i]) /\ all[i].ts <= clock
  <2>1. CASE i = n + 1
    BY <1>2, <1>3, <1>4, <2>1
  <2>2. CASE i \in 1..n
    BY <1>3, <2>2 DEF RingInv, n
  <2> QED
    BY <1>1, <2>1, <2>2
<1>13. ASSUME NEW i \in 1..Len(p) PROVE d + i \in 1..(n + 1) /\ p[i] = all[d + i]
  BY <1>1, <1>9, <1>10
<1>14. Rises(p)
  <2> SUFFICES ASSUME NEW i \in 1..Len(p), NEW j \in 1..Len(p), i < j
               PROVE  p[j].ts - p[i].ts >= j - i
    BY DEF Rises
  <2>1. d + i < d + j /\ (d + j) - (d + i) = j - i
    BY <1>9, <1>10
  <2>2. all[d + j].ts - all[d + i].ts >= (d + j) - (d + i)
    BY <1>11, <1>13, <2>1
  <2> QED
    BY <1>13, <2>1, <2>2
<1>15. \A i \in 1..Len(p) : Sound(p[i]) /\ p[i].ts <= clock
  BY <1>12, <1>13
<1>16. dropped' \in -1..MaxClock /\ (dropped' # -1 => dropped' < clock - Day)
  <2>1. CASE d = 0
    <3>1. Len(p) = Len(all)
      BY <1>1, <1>3, <1>10, <2>1
    <3>2. dropped' = dropped
      BY <1>1, <1>3, <1>6, <3>1
    <3> QED
      BY <3>2 DEF RingInv
  <2>2. CASE d = 1
    <3>1. Len(p) < Len(all) /\ n = Day + 1
      BY <1>1, <1>3, <1>9, <1>10, <2>2
    <3>2. dropped' = all[1].ts
      BY <1>1, <1>3, <1>6, <1>10, <3>1
    <3>3. all[n + 1].ts - all[1].ts >= (n + 1) - 1
      BY <1>1, <1>11, <3>1
    <3>4. all[n + 1].ts = clock
      BY <1>2, <1>3
    <3>5. all[1].ts \in Nat
      BY <1>1, <1>8 DEF Readings
    <3>6. clock - all[1].ts >= Day + 1
      BY <1>1, <3>1, <3>3, <3>4
    <3> QED
      BY <1>1, <1>4, <3>2, <3>5, <3>6, MCPanelAuthAssumption
  <2> QED
    BY <1>9, <2>1, <2>2
<1>17. Len(p) <= Day + 1
  BY <1>1, <1>9, <1>10
<1> QED
  BY <1>5, <1>10, <1>14, <1>15, <1>16, <1>17 DEF RingInv

(* Every step of the machine and of the sampler keeps both invariants.     *)
LEMMA MetricsStep ==
  ASSUME CounterInv, RingInv, M!Next \/ UNCHANGED metricsVars
  PROVE  CounterInv' /\ RingInv'
<1>1. CASE M!sample
  <2>1. /\ due = TRUE /\ due' = FALSE
        /\ clock' = clock /\ running' = running /\ usage' = usage /\ busy' = busy
        /\ lastGame' = IF running THEN [at |-> clock, used |-> usage] ELSE lastGame
        /\ lastSys' = [at |-> clock, used |-> busy]
    BY <1>1 DEF M!sample, CounterInv
  <2>2. RingInv'
    BY <1>1, <2>1, RingGrows
  <2>3. /\ lastSys'.at = clock /\ lastSys'.used = busy
        /\ lastSys' = [at |-> lastSys'.at, used |-> lastSys'.used]
    BY <2>1
  <2>6. /\ clock \in 0..MaxClock /\ clock \in Int /\ running \in BOOLEAN
        /\ usage \in Nat /\ busy \in Nat /\ usage <= clock /\ busy <= clock
        /\ ~running => usage = 0
        /\ lastGame = [at |-> lastGame.at, used |-> lastGame.used]
        /\ lastGame.at \in Int /\ lastGame.used \in Nat
        /\ lastSys.at \in Int /\ lastGame.at <= lastSys.at /\ lastSys.at <= clock
    BY DEF CounterInv
  <2>4. CASE running
    <3>1. /\ lastGame'.at = clock /\ lastGame'.used = usage
          /\ lastGame' = [at |-> lastGame'.at, used |-> lastGame'.used]
      BY <2>1, <2>4
    <3>2. lastGame'.at <= lastSys'.at /\ lastSys'.at <= clock'
      BY <2>1, <2>3, <2>6, <3>1
    <3>3. usage' - lastGame'.used <= busy' - lastSys'.used
      BY <2>1, <2>3, <2>6, <3>1
    <3> QED
      BY <2>1, <2>2, <2>3, <2>6, <3>1, <3>2, <3>3 DEF CounterInv
  <2>5. CASE ~running
    <3>1. lastGame' = lastGame /\ usage = 0
      BY <2>1, <2>5 DEF CounterInv
    <3>2. lastGame'.at <= lastSys'.at /\ lastSys'.at <= clock'
      BY <2>1, <2>3, <2>6, <3>1
    <3>3. usage' - lastGame'.used <= busy' - lastSys'.used
      BY <2>1, <2>3, <2>6, <3>1
    <3> QED
      BY <2>1, <2>2, <2>3, <2>6, <3>1, <3>2, <3>3 DEF CounterInv
  <2> QED
    BY <2>4, <2>5
<1>2. CASE M!Tick
  <2>1. /\ clock < MaxClock /\ clock' = clock + 1 /\ due' = TRUE
        /\ running' = running /\ lastGame' = lastGame /\ lastSys' = lastSys
        /\ samples' = samples /\ dropped' = dropped
    BY <1>2 DEF M!Tick
  <2>2. PICK work \in 0..1, other \in 0..1 :
          /\ work + other <= 1
          /\ usage' = (IF running THEN usage + work ELSE usage)
          /\ busy' = busy + other + (IF running THEN work ELSE 0)
    BY <1>2 DEF M!Tick
  <2>3. CounterInv'
    <3>1. clock' \in 0..MaxClock
      BY <2>1, MCPanelAuthAssumption DEF CounterInv
    <3>2. CASE running
      BY <2>1, <2>2, <3>1, <3>2 DEF CounterInv
    <3>3. CASE ~running
      BY <2>1, <2>2, <3>1, <3>3 DEF CounterInv
    <3> QED
      BY <3>2, <3>3
  <2>4. RingInv'
    <3>1. clock \in Nat /\ Day \in Nat /\ clock' = clock + 1
      BY <2>1, MCPanelAuthAssumption DEF CounterInv
    <3>2. dropped' # -1 => dropped' < clock' - Day
      BY <2>1, <3>1, MCPanelAuthAssumption DEF RingInv
    <3>3. ASSUME NEW i \in 1..Len(samples) PROVE samples[i].ts < clock'
      <4>1. samples[i].ts <= clock
        BY DEF RingInv
      <4>2. samples[i].ts \in Nat
        <5>1. samples[i] \in Readings
          BY ElementOfSeq DEF RingInv
        <5> QED
          BY <5>1 DEF Readings
      <4> QED
        BY <3>1, <4>1, <4>2
    <3>4. ASSUME NEW i \in 1..Len(samples) PROVE Sound(samples[i]) /\ samples[i].ts <= clock'
      <4>1. samples[i].ts \in Nat
        <5>1. samples[i] \in Readings
          BY ElementOfSeq DEF RingInv
        <5> QED
          BY <5>1 DEF Readings
      <4> QED
        BY <3>1, <3>3, <4>1 DEF RingInv
    <3> QED
      BY <2>1, <3>2, <3>3, <3>4 DEF RingInv
  <2> QED
    BY <2>3, <2>4
<1>3. CASE M!GameStops \/ M!GameStarts
  <2>1. /\ running' \in BOOLEAN /\ usage' = 0
        /\ clock' = clock /\ due' = due /\ busy' = busy /\ lastGame' = lastGame
        /\ lastSys' = lastSys /\ samples' = samples /\ dropped' = dropped
    BY <1>3 DEF M!GameStops, M!GameStarts
  <2>2. lastSys.at # -1 => 0 - lastGame.used <= busy - lastSys.used
    <3>1. /\ usage \in Nat /\ busy \in Nat /\ lastGame.used \in Nat /\ lastSys.used \in Nat
          /\ lastSys.at # -1 => usage - lastGame.used <= busy - lastSys.used
      BY DEF CounterInv
    <3> QED
      BY <3>1
  <2>3. CounterInv'
    BY <2>1, <2>2 DEF CounterInv
  <2> QED
    BY <2>1, <2>3 DEF RingInv
<1>4. CASE UNCHANGED metricsVars
  BY <1>4 DEF metricsVars, CounterInv, RingInv
<1> QED
  BY <1>1, <1>2, <1>3, <1>4 DEF M!Next

(* The greatest of a set of numbers that is bounded above.                 *)
LEMMA Highest ==
  ASSUME NEW top \in Int, NEW S, S # {}, \A x \in S : x \in Int /\ x <= top
  PROVE  M!Max(S) \in S /\ \A x \in S : x <= M!Max(S)
<1> DEFINE T == {top - x : x \in S}
<1>1. T \subseteq Nat /\ T # {}
  <2>1. \A x \in S : top - x \in Nat
    OBVIOUS
  <2>2. PICK x \in S : TRUE
    OBVIOUS
  <2>3. top - x \in T
    BY <2>2
  <2> QED
    BY <2>1, <2>3
<1> HIDE DEF T
<1>2. PICK m \in T : \A k \in T : m <= k
  BY <1>1, Least
<1>3. PICK h \in S : m = top - h
  BY <1>2 DEF T
<1>4. \A x \in S : x <= h
  <2> SUFFICES ASSUME NEW x \in S PROVE x <= h
    OBVIOUS
  <2>1. m <= top - x
    BY <1>2 DEF T
  <2>2. x \in Int /\ h \in Int
    OBVIOUS
  <2> QED
    BY <1>3, <2>1, <2>2
<1>5. M!Max(S) = CHOOSE x \in S : \A y \in S : x >= y
  BY DEF M!Max
<1>6. \E x \in S : \A y \in S : x >= y
  BY <1>4
<1>7. M!Max(S) \in S /\ \A y \in S : M!Max(S) >= y
  BY <1>5, <1>6
<1> QED
  BY <1>7

(* A point above another in every value.                                   *)
Peak(x, y) ==
  /\ x.gameRAM >= y.gameRAM /\ x.gameCPU >= y.gameCPU /\ x.sysCPU >= y.sysCPU

(* A bucket's point: its last time, and the highest of each value.         *)
LEMMA MergedIs ==
  ASSUME NEW F, F \subseteq Readings, F # {}, \A s \in F : s.ts <= clock, clock \in Nat
  PROVE  LET m == M!Merged(F)
         IN  /\ m.ts \in Nat /\ m.gameRAM \in Int /\ m.gameCPU \in Int
             /\ \E s \in F : m.ts = s.ts
             /\ \E s \in F : m.gameRAM = s.gameRAM
             /\ \E s \in F : m.gameCPU = s.gameCPU
             /\ \A s \in F : s.ts <= m.ts /\ Peak(m, s)
<1> DEFINE m == M!Merged(F)
           A == {s.ts : s \in F}
           R == {s.gameRAM : s \in F}
           C == {s.gameCPU : s \in F}
           Y == {s.sysCPU : s \in F}
<1>1. m.ts = M!Max(A) /\ m.gameRAM = M!Max(R) /\ m.gameCPU = M!Max(C) /\ m.sysCPU = M!Max(Y)
  BY DEF M!Merged
<1>2. \A s \in F : /\ s.ts \in Nat /\ s.gameRAM \in -1..1
                   /\ s.gameCPU \in -1..6 /\ s.sysCPU \in -1..6
  BY DEF Readings
<1>3. M!Max(A) \in A /\ \A x \in A : x <= M!Max(A)
  <2>1. A # {} /\ \A x \in A : x \in Int /\ x <= clock
    BY <1>2
  <2>2. clock \in Int
    OBVIOUS
  <2> HIDE DEF A
  <2> QED
    BY <2>1, <2>2, Highest
<1>4. M!Max(R) \in R /\ \A x \in R : x <= M!Max(R)
  <2>1. R # {} /\ \A x \in R : x \in Int /\ x <= 1
    BY <1>2
  <2>2. 1 \in Int
    OBVIOUS
  <2> HIDE DEF R
  <2> QED
    BY <2>1, <2>2, Highest
<1>5. M!Max(C) \in C /\ \A x \in C : x <= M!Max(C)
  <2>1. C # {} /\ \A x \in C : x \in Int /\ x <= 6
    BY <1>2
  <2>2. 6 \in Int
    OBVIOUS
  <2> HIDE DEF C
  <2> QED
    BY <2>1, <2>2, Highest
<1>6. M!Max(Y) \in Y /\ \A x \in Y : x <= M!Max(Y)
  <2>1. Y # {} /\ \A x \in Y : x \in Int /\ x <= 6
    BY <1>2
  <2>2. 6 \in Int
    OBVIOUS
  <2> HIDE DEF Y
  <2> QED
    BY <2>1, <2>2, Highest
<1> HIDE DEF m
<1>7. \E s \in F : m.ts = s.ts
  BY <1>1, <1>3
<1>8. \E s \in F : m.gameRAM = s.gameRAM
  BY <1>1, <1>4
<1>9. \E s \in F : m.gameCPU = s.gameCPU
  BY <1>1, <1>5
<1>10. m.sysCPU \in Y
  BY <1>1, <1>6
<1>11. m.ts \in Nat /\ m.gameRAM \in Int /\ m.gameCPU \in Int /\ m.sysCPU \in Int
  BY <1>2, <1>7, <1>8, <1>9, <1>10
<1>12. ASSUME NEW s \in F PROVE s.ts <= m.ts /\ Peak(m, s)
  <2>1. s.ts \in A /\ s.gameRAM \in R /\ s.gameCPU \in C /\ s.sysCPU \in Y
    OBVIOUS
  <2>2. s.ts <= m.ts
    BY <1>1, <1>3, <2>1
  <2>3. s.gameRAM <= m.gameRAM
    BY <1>1, <1>4, <2>1
  <2>4. s.gameCPU <= m.gameCPU
    BY <1>1, <1>5, <2>1
  <2>5. s.sysCPU <= m.sysCPU
    BY <1>1, <1>6, <2>1
  <2> QED
    BY <1>2, <1>11, <2>2, <2>3, <2>4, <2>5 DEF Peak
<1> QED
  BY <1>7, <1>8, <1>9, <1>11, <1>12 DEF m

(* Whole division keeps the order.                                         *)
LEMMA BucketsRise ==
  ASSUME NEW a \in Nat, NEW b \in Nat, NEW d \in Nat, d > 0, a <= b
  PROVE  a \div d <= b \div d
BY Quotients

(* The points of a chart and the readings behind them.                     *)
Points(F, list, step) ==
  /\ \A m \in list : /\ m.ts \in Nat /\ m.gameRAM \in Int /\ m.gameCPU \in Int
                     /\ \E s \in F : m.ts = s.ts
                     /\ \E s \in F : s.ts \div step = m.ts \div step /\ m.gameRAM = s.gameRAM
                     /\ \E s \in F : s.ts \div step = m.ts \div step /\ m.gameCPU = s.gameCPU
  /\ \A s \in F : \E m \in list : /\ m.ts \div step = s.ts \div step
                                  /\ s.ts <= m.ts /\ Peak(m, s)
  /\ \A m, n \in list : m.ts \div step = n.ts \div step => m = n

(* Aggregating gives one point a bucket, above all of its readings.        *)
LEMMA AggregatedPoints ==
  ASSUME NEW F, F \subseteq Readings, \A s \in F : s.ts <= clock, clock \in Nat,
         NEW step \in Nat, step > 0
  PROVE  Points(F, M!aggregateSamples(F, step), step)
<1> DEFINE list == M!aggregateSamples(F, step)
           Bucket(k) == {s \in F : s.ts \div step = k}
           Ks == {s.ts \div step : s \in F}
<1>1. list = {M!Merged(Bucket(k)) : k \in Ks}
  BY DEF M!aggregateSamples
<1>2. ASSUME NEW k \in Ks
      PROVE  LET m == M!Merged(Bucket(k))
             IN  /\ m.ts \in Nat /\ m.gameRAM \in Int /\ m.gameCPU \in Int
                 /\ \E s \in Bucket(k) : m.ts = s.ts
                 /\ \E s \in Bucket(k) : m.gameRAM = s.gameRAM
                 /\ \E s \in Bucket(k) : m.gameCPU = s.gameCPU
                 /\ \A s \in Bucket(k) : s.ts <= m.ts /\ Peak(m, s)
                 /\ m.ts \div step = k
  <2> DEFINE D == Bucket(k)
  <2>1. D \subseteq F /\ D # {} /\ \A s \in D : s.ts \div step = k
    OBVIOUS
  <2> HIDE DEF D
  <2>2. D \subseteq Readings /\ \A s \in D : s.ts <= clock
    BY <2>1
  <2> DEFINE m == M!Merged(D)
  <2>3. /\ m.ts \in Nat /\ m.gameRAM \in Int /\ m.gameCPU \in Int
        /\ \E s \in D : m.ts = s.ts
        /\ \E s \in D : m.gameRAM = s.gameRAM
        /\ \E s \in D : m.gameCPU = s.gameCPU
        /\ \A s \in D : s.ts <= m.ts /\ Peak(m, s)
    BY <2>1, <2>2, MergedIs
  <2>4. m.ts \div step = k
    BY <2>1, <2>3
  <2> QED
    BY <2>3, <2>4 DEF D
<1> HIDE DEF list
<1>3. ASSUME NEW n \in list
      PROVE  /\ n.ts \in Nat /\ n.gameRAM \in Int /\ n.gameCPU \in Int
             /\ \E s \in F : n.ts = s.ts
             /\ \E s \in F : s.ts \div step = n.ts \div step /\ n.gameRAM = s.gameRAM
             /\ \E s \in F : s.ts \div step = n.ts \div step /\ n.gameCPU = s.gameCPU
  <2>1. PICK k \in Ks : n = M!Merged(Bucket(k))
    BY <1>1
  <2>2. /\ n.ts \in Nat /\ n.gameRAM \in Int /\ n.gameCPU \in Int /\ n.ts \div step = k
        /\ \E s \in Bucket(k) : n.ts = s.ts
        /\ \E s \in Bucket(k) : n.gameRAM = s.gameRAM
        /\ \E s \in Bucket(k) : n.gameCPU = s.gameCPU
    BY <1>2, <2>1
  <2>3. \A s \in Bucket(k) : s \in F /\ s.ts \div step = k
    OBVIOUS
  <2> HIDE DEF Bucket, Ks
  <2>4. \E s \in F : n.ts = s.ts
    BY <2>2, <2>3
  <2>5. \E s \in F : s.ts \div step = n.ts \div step /\ n.gameRAM = s.gameRAM
    BY <2>2, <2>3
  <2>6. \E s \in F : s.ts \div step = n.ts \div step /\ n.gameCPU = s.gameCPU
    BY <2>2, <2>3
  <2> QED
    BY <2>2, <2>4, <2>5, <2>6
<1>4. ASSUME NEW s \in F
      PROVE  \E m \in list : /\ m.ts \div step = s.ts \div step
                             /\ s.ts <= m.ts /\ Peak(m, s)
  <2> DEFINE k == s.ts \div step
             m == M!Merged(Bucket(k))
  <2>1. k \in Ks /\ s \in Bucket(k)
    OBVIOUS
  <2>2. m \in list
    BY <1>1, <2>1
  <2>3. m.ts \div step = k /\ s.ts <= m.ts /\ Peak(m, s)
    BY <1>2, <2>1
  <2> HIDE DEF m
  <2> QED
    BY <2>2, <2>3
<1>5. ASSUME NEW m \in list, NEW n \in list, m.ts \div step = n.ts \div step
      PROVE  m = n
  <2>1. PICK k \in Ks : m = M!Merged(Bucket(k))
    BY <1>1
  <2>2. PICK l \in Ks : n = M!Merged(Bucket(l))
    BY <1>1
  <2>3. m.ts \div step = k /\ n.ts \div step = l
    BY <1>2, <2>1, <2>2
  <2> HIDE DEF Bucket, Ks
  <2>4. k = l
    BY <1>5, <2>3
  <2> QED
    BY <2>1, <2>2, <2>4
<1> QED
  BY <1>3, <1>4, <1>5 DEF Points, list

(* A line over a reading ends in its bucket, which shows a value.          *)
LEMMA LineEnds ==
  ASSUME NEW F, F \subseteq Readings, NEW list, NEW step \in Nat, step > 0,
         Points(F, list, step), NEW field, NEW l \in M!chartLines(list, field),
         NEW s \in F, l[1].ts < s.ts, s.ts < l[2].ts
  PROVE  l[2] \in list /\ l[2].ts \div step = s.ts \div step /\ l[2][field] # -1
<1>1. /\ l \in list \X list
      /\ ~\E x \in list : l[1].ts < x.ts /\ x.ts < l[2].ts
      /\ l[2][field] # -1
  BY DEF M!chartLines, M!Nil
<1> DEFINE a == l[1]
           b == l[2]
<1>2. a \in list /\ b \in list
  BY <1>1
<1>3. a.ts < s.ts /\ s.ts < b.ts /\ ~\E x \in list : a.ts < x.ts /\ x.ts < b.ts
  BY <1>1
<1> HIDE DEF a, b
<1>4. PICK m \in list : m.ts \div step = s.ts \div step /\ s.ts <= m.ts
  BY DEF Points
<1>5. a.ts \in Nat /\ b.ts \in Nat /\ m.ts \in Nat /\ s.ts \in Nat
  BY <1>2 DEF Points, Readings
<1>6. b.ts <= m.ts
  BY <1>2, <1>3, <1>4, <1>5
<1>7. s.ts \div step <= b.ts \div step /\ b.ts \div step <= m.ts \div step
  BY <1>3, <1>5, <1>6, BucketsRise
<1>8. s.ts \div step \in Int /\ b.ts \div step \in Int
  BY <1>5, Quotient
<1>9. b.ts \div step = s.ts \div step
  BY <1>4, <1>7, <1>8
<1> QED
  BY <1>1, <1>2, <1>9 DEF b

(* What a window shows was sampled.                                        *)
LEMMA ReadingsShown ==
  ASSUME CounterInv, RingInv, NEW spec
  PROVE  /\ M!Filtered(spec) \subseteq Readings /\ clock \in Nat
         /\ \A s \in M!Filtered(spec) : s.ts <= clock /\ (s.gameCPU # -1 => s.gameRAM # -1)
<1>1. samples \in Seq(Readings) /\ DOMAIN samples = 1..Len(samples)
  BY DEF RingInv
<1>2. \A i \in 1..Len(samples) : samples[i] \in Readings
  BY <1>1, ElementOfSeq
<1>3. \A i \in 1..Len(samples) : samples[i].ts <= clock /\ Sound(samples[i])
  BY DEF RingInv
<1>4. ASSUME NEW s \in M!Filtered(spec)
      PROVE  \E i \in 1..Len(samples) : s = samples[i]
  BY <1>1 DEF M!Filtered
<1>5. clock \in Nat
  BY DEF CounterInv
<1> QED
  BY <1>2, <1>3, <1>4, <1>5 DEF Sound

(* No window hides a peak or draws over a stop.                            *)
LEMMA PeaksAreDrawn ==
  ASSUME CounterInv, RingInv
  PROVE  M!PeaksDrawn
<1>1. dropped # -1 => dropped < clock - Day
  BY DEF RingInv
<1>2. ASSUME NEW spec \in M!metricsWindowSpecFor
      PROVE  LET shown == M!snapshot(spec)
             IN  /\ \A s \in M!Filtered(spec) : \E b \in shown.samples :
                      /\ b.ts \div spec.step = s.ts \div spec.step
                      /\ b.gameRAM >= s.gameRAM
                      /\ b.gameCPU >= s.gameCPU
                      /\ b.sysCPU >= s.sysCPU
                 /\ \A l \in shown.view.ram \cup shown.view.cpu.game, s \in M!Filtered(spec) :
                      (l[1].ts < s.ts /\ s.ts < l[2].ts) =>
                         \E t \in M!Filtered(spec) :
                           /\ t.ts \div spec.step = s.ts \div spec.step
                           /\ t.gameRAM # -1
                 /\ shown.available = \E s \in M!Filtered(spec) : s.gameRAM # -1
  <2> DEFINE F == M!Filtered(spec)
             step == spec.step
             shown == M!snapshot(spec)
             list == M!aggregateSamples(F, step)
  <2>1. step \in Nat /\ step > 0
    BY MCPanelAuthAssumption DEF M!metricsWindowSpecFor
  <2>2. /\ F \subseteq Readings /\ clock \in Nat
        /\ \A s \in F : s.ts <= clock /\ (s.gameCPU # -1 => s.gameRAM # -1)
    BY ReadingsShown
  <2>3. /\ shown.samples = list
        /\ shown.available = \E s \in list : s.gameRAM # -1 \/ s.gameCPU # -1
        /\ shown.view.ram = M!chartLines(list, "gameRAM")
        /\ shown.view.cpu.game = M!chartLines(list, "gameCPU")
    BY DEF M!snapshot, M!buildMetricsView, M!buildDualCPUChart, M!Nil
  <2> HIDE DEF F, step, shown
  <2>4. Points(F, list, step)
    BY <2>1, <2>2, AggregatedPoints
  <2> HIDE DEF list
  <2>5. ASSUME NEW s \in F
        PROVE  \E b \in list : /\ b.ts \div step = s.ts \div step
                               /\ b.gameRAM >= s.gameRAM
                               /\ b.gameCPU >= s.gameCPU
                               /\ b.sysCPU >= s.sysCPU
    BY <2>4 DEF Points, Peak
  <2>6. ASSUME NEW m \in list, m.gameRAM # -1 \/ m.gameCPU # -1
        PROVE  \E t \in F : t.ts \div step = m.ts \div step /\ t.gameRAM # -1
    <3>1. CASE m.gameRAM # -1
      BY <2>4, <3>1 DEF Points
    <3>2. CASE m.gameCPU # -1
      <4>1. PICK t \in F : t.ts \div step = m.ts \div step /\ m.gameCPU = t.gameCPU
        BY <2>4 DEF Points
      <4> QED
        BY <2>2, <3>2, <4>1
    <3> QED
      BY <2>6, <3>1, <3>2
  <2>7. ASSUME NEW l \in shown.view.ram \cup shown.view.cpu.game, NEW s \in F,
               l[1].ts < s.ts, s.ts < l[2].ts
        PROVE  \E t \in F : t.ts \div step = s.ts \div step /\ t.gameRAM # -1
    <3>1. CASE l \in M!chartLines(list, "gameRAM")
      <4>1. l[2] \in list /\ l[2].ts \div step = s.ts \div step /\ l[2]["gameRAM"] # -1
        BY <2>1, <2>2, <2>4, <2>7, <3>1, LineEnds
      <4> QED
        BY <2>6, <4>1
    <3>2. CASE l \in M!chartLines(list, "gameCPU")
      <4>1. l[2] \in list /\ l[2].ts \div step = s.ts \div step /\ l[2]["gameCPU"] # -1
        BY <2>1, <2>2, <2>4, <2>7, <3>2, LineEnds
      <4> QED
        BY <2>6, <4>1
    <3> QED
      BY <2>3, <3>1, <3>2
  <2>8. shown.available = \E s \in F : s.gameRAM # -1
    <3>1. ASSUME NEW s \in F, s.gameRAM # -1
          PROVE  \E m \in list : m.gameRAM # -1
      <4>1. PICK m \in list : m.gameRAM >= s.gameRAM
        BY <2>5
      <4>2. m.gameRAM \in Int /\ s.gameRAM \in {-1, 1}
        BY <2>2, <2>4 DEF Points, Readings
      <4>3. m.gameRAM # -1
        BY <3>1, <4>1, <4>2
      <4> QED
        BY <4>3
    <3> QED
      BY <2>3, <2>6, <3>1
  <2> QED
    BY <2>3, <2>5, <2>7, <2>8 DEF F, step, shown
<1> QED
  BY <1>1, <1>2 DEF M!PeaksDrawn, M!Nil

(* What is shown follows from the invariants.                              *)
LEMMA MetricsHold ==
  ASSUME CounterInv, RingInv
  PROVE  M!TypeOK /\ M!PeaksDrawn /\ M!GameWithinSystem
<1>1. M!TypeOK
  <2>1. usage \in 0..MaxClock /\ busy \in 0..MaxClock /\ clock \in 0..MaxClock
    BY MCPanelAuthAssumption DEF CounterInv
  <2>2. Len(samples) <= M!metricsMax /\ dropped \in M!Nil..MaxClock
    BY DEF RingInv, M!metricsMax, M!Nil
  <2> QED
    BY <2>1, <2>2 DEF M!TypeOK
<1>2. M!GameWithinSystem
  <2>1. DOMAIN samples = 1..Len(samples)
    BY DEF RingInv
  <2>2. \A i \in 1..Len(samples) : Sound(samples[i])
    BY DEF RingInv
  <2> QED
    BY <2>1, <2>2 DEF M!GameWithinSystem, M!Nil, Sound
<1> QED
  BY <1>1, <1>2, PeaksAreDrawn

(* The invariant of the metrics, in the behaviours that exercise it.       *)
MetricsPart == part = "metrics" => CounterInv /\ RingInv

(* The counters and the ring, whatever the game and the machine do and     *)
(* however late the goroutine runs.                                        *)
THEOREM MetricsInvariant == PanelSpec => []MetricsPart
<1>1. PanelInit => MetricsPart
  BY MetricsInit DEF PanelInit, MetricsPart
<1>2. MetricsPart /\ [PanelNext]_panelVars => MetricsPart'
  <2> SUFFICES ASSUME MetricsPart, [PanelNext]_panelVars, part' = "metrics"
               PROVE  CounterInv' /\ RingInv'
    BY DEF MetricsPart
  <2>1. part = "metrics"
    BY DEF PanelNext, panelVars
  <2>2. M!Next \/ UNCHANGED metricsVars
    BY <2>1 DEF PanelNext, panelVars
  <2> QED
    BY <2>1, <2>2, MetricsStep DEF MetricsPart
<1> QED
  BY <1>1, <1>2, PTL DEF PanelSpec

(* No reading of the day is lost or hidden, no line hides a stop, and the  *)
(* game's line stays below the machine's, for any day, bucket and gap.     *)
THEOREM PanelChart == PanelSpec => []ChartIsTrue
<1>1. MetricsPart => ChartIsTrue
  BY MetricsHold DEF MetricsPart, ChartIsTrue
<1> QED
  BY <1>1, MetricsInvariant, PTL
=============================================================================
