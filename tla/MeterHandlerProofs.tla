------------------------- MODULE MeterHandlerProofs -------------------------
(***************************************************************************)
(* Proofs about the meter handler, for any set of workers, requests and    *)
(* any bound of the counter.                                               *)
(***************************************************************************)
EXTENDS MeterHandler, TLAPS

USE MeterHandlerAssumption

Ciphering == {"icload", "icstore", "control", "encrypt"}

\* Where proc_request has not set ret yet.
Fresh == {"dispatch", "isdata", "isconnect", "decrypt", "response", "passed", "data",
          "format", "protect", "seal"}

\* What the local variables of a worker say at each label.
LocalInv ==
    \A w \in Workers :
        /\ pc[w] = "dispatch" => req[w] \in Requests
        /\ pc[w] \in {"isdata", "isconnect", "decrypt", "data", "format", "protect", "seal"}
              => req[w] \in Apdus
        /\ pc[w] \in Fresh => loc[w].ret = 1
        /\ pc[w] \in Ciphering /\ loc[w].ret = 2 => loc[w].job = "init"
        /\ pc[w] = "passed" \/ (pc[w] \in Ciphering /\ loc[w].job = "proof")
              => req[w].tag = "AARQ"
        /\ pc[w] = "init" => loc[w].job = "init"
        /\ loc[w].reply.kind \in {"lls_aare", "rlre"} => loc[w].ret = 1
        /\ loc[w].reply.kind = "data" =>
              /\ loc[w].job = "data"
              /\ pc[w] \in {"idle", "protect", "seal", "send"} \cup Ciphering
        /\ pc[w] \in Ciphering => loc[w].job # "none"
        /\ pc[w] \in Ciphering /\ loc[w].job = "data" => loc[w].reply.kind = "data"
        /\ pc[w] \in {"protect", "seal"} =>
              loc[w].reply.kind = "data" /\ loc[w].reply.form \in {"clear", "overrun"}

\* Worker w is on its way to setting state_ back to INIT.
Settles(w) ==
    \/ pc[w] = "request"
    \/ pc[w] \in {"init", "formed", "reset"} /\ loc[w].ret = 1
    \/ pc[w] \in Ciphering /\ loc[w].job \in {"init", "pass4"} /\ loc[w].ret = 1

\* A state other than the two quiet ones has a worker that takes it back.
SettlingInv == state \notin {"INIT", "PASS_2"} => \E w \in Workers : Settles(w)

\* A worker whose request began alone, and that no other request has joined.
Alone(w) == alone[w] /\ pc[w] # "idle"

\* What such a worker finds in the shared fields.
Undisturbed(w) ==
    /\ pc[w] \in {"dispatch", "isdata", "isconnect"} => ~isCipher
    /\ pc[w] = "decrypt" => isCipher /\ req[w].glo
    /\ pc[w] \in {"data", "format", "protect", "seal"} => (isCipher <=> req[w].glo)
    /\ pc[w] = "seal" => isCipher
    /\ pc[w] = "format" => invokeId = req[w].invoke
    /\ loc[w].reply.kind = "data" => loc[w].reply.invoke = req[w].invoke
    /\ pc[w] \in Ciphering /\ loc[w].job = "data" => req[w].glo
    /\ pc[w] = "encrypt" /\ loc[w].job = "data" => control = Flags
    /\ Sending(w, "data") =>
          loc[w].reply.form \in {IF req[w].glo THEN "sealed" ELSE "clear", "overrun"}

AloneInv ==
    \A w \in Workers : Alone(w) =>
        /\ \A v \in Workers : v # w => pc[v] = "idle"
        /\ Undisturbed(w)

HandlerInv == TypeOK /\ LocalInv /\ SettlingInv /\ AloneInv

\* Without overlapping there is at most one busy worker.
SerialInv ==
    ~overlapped => \A v, w \in Workers : v # w => pc[v] = "idle" \/ pc[w] = "idle"

\* Without overlapping a challenge means that the handler is connecting, or that the
\* worker is about to say so.
Answers(w) ==
    \/ pc[w] = "request"
    \/ loc[w].ret = 2 /\ pc[w] \in {"init", "formed", "reset", "settle"} \cup Ciphering

ChallengeInv ==
    ~overlapped =>
        /\ state = "PASS_2" => mhs = "connect" \/ \E w \in Workers : Answers(w)
        /\ \A w \in Workers :
              /\ pc[w] = "settle" /\ loc[w].ret = 1 => state # "PASS_2"
              /\ pc[w] = "request" /\ req[w].tag = "RLRQ" => state = "RLRE"
              /\ loc[w].ret = 2 /\ pc[w] # "idle" => req[w].tag # "RLRQ"

OrderInv == SerialInv /\ ChallengeInv

-----------------------------------------------------------------------------

\* The initial states satisfy the invariants.
LEMMA InitHandlerInv == Init => HandlerInv
<1> SUFFICES ASSUME Init PROVE HandlerInv
  OBVIOUS
<1> USE DEF Init
<1>1. TypeOK
  <2>1. Blank \in Locals
    BY DEF Blank, Empty, Locals, Replies, Jobs, Kinds, Forms
  <2>2. /\ cipherFlag \in BOOLEAN /\ isCipher \in BOOLEAN /\ overlapped \in BOOLEAN
        /\ alone \in [Workers -> BOOLEAN]
    BY Zenon
  <2> QED
    BY <2>1, <2>2 DEF TypeOK, Labels
<1>2. LocalInv /\ SettlingInv /\ AloneInv
  BY DEF LocalInv, SettlingInv, AloneInv, Alone, Undisturbed, Sending, Blank, Empty, Ciphering, Fresh
<1> QED
  BY <1>1, <1>2 DEF HandlerInv

\* What the actions make of the local variables of a worker are local variables.
LEMMA LocalsUpdate ==
    ASSUME TypeOK, NEW w \in Workers
    PROVE  /\ \A n \in Nat : [loc EXCEPT ![w].ic = n] \in [Workers -> Locals]
           /\ \A j \in Jobs : [loc EXCEPT ![w].job = j] \in [Workers -> Locals]
           /\ \A f \in Forms : [loc EXCEPT ![w].reply.form = f] \in [Workers -> Locals]
           /\ \A y \in Replies : [loc EXCEPT ![w].reply = y] \in [Workers -> Locals]
           /\ \A y \in Replies, j \in Jobs :
                 [loc EXCEPT ![w].reply = y, ![w].job = j] \in [Workers -> Locals]
           /\ \A j \in Jobs, t \in {1, 2}, k \in Kinds :
                 [loc EXCEPT ![w].job = j, ![w].ret = t, ![w].reply.kind = k]
                    \in [Workers -> Locals]
<1>1. loc \in [Workers -> Locals] /\ loc[w] \in Locals
  BY DEF TypeOK
<1>2. /\ loc[w] = [ic |-> loc[w].ic, job |-> loc[w].job, ret |-> loc[w].ret,
                  reply |-> loc[w].reply]
      /\ loc[w].ic \in Nat /\ loc[w].job \in Jobs /\ loc[w].ret \in {1, 2}
      /\ loc[w].reply \in Replies
  BY <1>1 DEF Locals
<1>3. /\ loc[w].reply = [kind |-> loc[w].reply.kind, form |-> loc[w].reply.form,
                        invoke |-> loc[w].reply.invoke]
      /\ loc[w].reply.kind \in Kinds /\ loc[w].reply.form \in Forms
      /\ loc[w].reply.invoke \in Nat
  BY <1>2 DEF Replies
<1>4. ASSUME NEW n \in Nat PROVE [loc EXCEPT ![w].ic = n] \in [Workers -> Locals]
  BY <1>1, <1>2 DEF Locals
<1>5. ASSUME NEW j \in Jobs PROVE [loc EXCEPT ![w].job = j] \in [Workers -> Locals]
  BY <1>1, <1>2 DEF Locals
<1>6. ASSUME NEW f \in Forms
      PROVE  [loc EXCEPT ![w].reply.form = f] \in [Workers -> Locals]
  BY <1>1, <1>2, <1>3 DEF Locals, Replies
<1>7. ASSUME NEW y \in Replies PROVE [loc EXCEPT ![w].reply = y] \in [Workers -> Locals]
  BY <1>1, <1>2 DEF Locals
<1>8. ASSUME NEW y \in Replies, NEW j \in Jobs
      PROVE  [loc EXCEPT ![w].reply = y, ![w].job = j] \in [Workers -> Locals]
  BY <1>1, <1>2 DEF Locals
<1>9. ASSUME NEW j \in Jobs, NEW t \in {1, 2}, NEW k \in Kinds
      PROVE  [loc EXCEPT ![w].job = j, ![w].ret = t, ![w].reply.kind = k]
                \in [Workers -> Locals]
  BY <1>1, <1>2, <1>3 DEF Locals, Replies
<1> QED
  BY <1>4, <1>5, <1>6, <1>7, <1>8, <1>9

\* The fields of a request have their types.
LEMMA RequestFields ==
    ASSUME NEW r \in Requests
    PROVE  /\ r.tag = "AARQ" => r \in AarqType
           /\ r.tag \in {"get", "action", "other"} => r \in ApduType /\ r \in Apdus
  BY DEF Requests, AarqType, ApduType, Rlrq

\* Every step keeps the types.
LEMMA TypeStep == TypeOK /\ LocalInv /\ [Next]_vars => TypeOK'
<1> SUFFICES ASSUME TypeOK, LocalInv, [Next]_vars PROVE TypeOK'
  OBVIOUS
<1> USE DEF GoTo, session, security, apdu, worker
<1>0. Blank \in Locals /\ Empty \in Replies
  BY DEF Blank, Empty, Locals, Replies, Jobs, Kinds, Forms
<1>1. ASSUME NEW w \in Workers, NEW r \in Requests, Take(w, r) PROVE TypeOK'
  <2>1. loc' \in [Workers -> Locals]
    BY <1>0, <1>1 DEF Take, TypeOK
  <2>2. alone' \in [Workers -> BOOLEAN]
    <3>1. \A v \in Workers : (IF v = w THEN Busy = {} ELSE alone[v] /\ pc[v] = "idle") \in BOOLEAN
      OBVIOUS
    <3> QED
      BY <3>1, <1>1, Zenon DEF Take
  <2>3. overlapped' \in BOOLEAN /\ isCipher' \in BOOLEAN
    BY <1>1 DEF Take, CipherFlagReset
  <2> QED
    BY <1>1, <2>1, <2>2, <2>3 DEF Take, TypeOK, Labels
<1>2. ASSUME NEW w \in Workers, Dispatch(w) PROVE TypeOK'
  BY <1>2 DEF Dispatch, TypeOK, Labels, Route
<1>3. ASSUME NEW w \in Workers, Decrypt(w) PROVE TypeOK'
  BY <1>3 DEF Decrypt, TypeOK, Labels
<1>4. ASSUME NEW w \in Workers, Send(w) PROVE TypeOK'
  BY <1>0, <1>4 DEF Send, TypeOK, Labels
<1>5. ASSUME NEW w \in Workers, ResponseAarq(w) PROVE TypeOK'
  <2>1. loc' \in [Workers -> Locals]
    <3>1. "proof" \in Jobs
      BY DEF Jobs
    <3>2. loc' = loc \/ loc' = [loc EXCEPT ![w].job = "proof"]
      BY <1>5 DEF ResponseAarq
    <3>3. loc \in [Workers -> Locals]
      BY DEF TypeOK
    <3>4. [loc EXCEPT ![w].job = "proof"] \in [Workers -> Locals]
      BY <3>1, LocalsUpdate, Zenon
    <3> QED
      BY <3>2, <3>3, <3>4, Zenon
  <2>2. req[w] \in AarqType
    BY <1>5, RequestFields DEF ResponseAarq, TypeOK, NoRequest
  <2>3. sc' \in SUBSET Flags
    BY <1>5, <2>2 DEF ResponseAarq, TypeOK, AarqType
  <2>4. cipherFlag' \in BOOLEAN
    BY <1>5 DEF ResponseAarq, TypeOK
  <2>5. pc' \in [Workers -> Labels] /\ state' \in {"INIT", "PASS_2", "PASS_4", "LLS_AARE", "RLRE"}
    BY <1>5 DEF ResponseAarq, TypeOK, Labels
  <2> QED
    BY <1>5, <2>1, <2>3, <2>4, <2>5 DEF ResponseAarq, TypeOK
<1>6. ASSUME NEW w \in Workers, ResponseRlrq(w) PROVE TypeOK'
  BY <1>6 DEF ResponseRlrq, TypeOK, Labels
<1>7. ASSUME NEW w \in Workers, ResponseAction(w) PROVE TypeOK'
  BY <1>7 DEF ResponseAction, TypeOK, Labels
<1>8. ASSUME NEW w \in Workers, ResponseOther(w) PROVE TypeOK'
  BY <1>8 DEF ResponseOther, TypeOK, Labels
<1>9. ASSUME NEW w \in Workers, Request(w) PROVE TypeOK'
  <2>1. ReplyKind(state) \in Kinds
    BY DEF ReplyKind, Kinds
  <2> DEFINE j == IF state = "PASS_4" THEN "pass4" ELSE "init"
             t == IF state = "PASS_2" THEN 2 ELSE 1
  <2>3. j \in Jobs /\ t \in {1, 2}
    BY DEF Jobs
  <2>4. loc' = [loc EXCEPT ![w].job = j, ![w].ret = t, ![w].reply.kind = ReplyKind(state)]
    BY <1>9 DEF Request
  <2> HIDE DEF j, t
  <2>5. loc' \in [Workers -> Locals]
    BY <2>1, <2>3, <2>4, LocalsUpdate, Zenon
  <2> QED
    BY <1>9, <2>5 DEF Request, TypeOK, Labels
<1>10. ASSUME NEW w \in Workers, BuildInit(w) PROVE TypeOK'
  BY <1>10 DEF BuildInit, TypeOK, Labels
<1>11. ASSUME NEW w \in Workers, Formed(w) PROVE TypeOK'
  BY <1>11 DEF Formed, TypeOK, Labels
<1>12. ASSUME NEW w \in Workers, Passed(w) PROVE TypeOK'
  BY <1>12 DEF Passed, TypeOK, Labels
<1>13. ASSUME NEW w \in Workers, Reset(w) PROVE TypeOK'
  BY <1>13 DEF Reset, TypeOK, Labels, ResetState
<1>14. ASSUME NEW w \in Workers, Settle(w) PROVE TypeOK'
  BY <1>14 DEF Settle, TypeOK, Labels, NextState
<1>15. ASSUME NEW w \in Workers, LoadIc(w) PROVE TypeOK'
  <2>0. ic + 1 \in Nat /\ loc' = [loc EXCEPT ![w].ic = ic + 1]
    BY <1>15 DEF LoadIc, TypeOK
  <2>1. loc' \in [Workers -> Locals]
    BY <2>0, LocalsUpdate, Zenon
  <2> QED
    BY <1>15, <2>1 DEF LoadIc, TypeOK, Labels
<1>16. ASSUME NEW w \in Workers, StoreIc(w) PROVE TypeOK'
  <2>1. loc[w].ic \in Nat
    BY DEF TypeOK, Locals
  <2> QED
    BY <1>16, <2>1 DEF StoreIc, TypeOK, Labels
<1>17. ASSUME NEW w \in Workers, SetControl(w) PROVE TypeOK'
  BY <1>17 DEF SetControl, TypeOK, Labels, Flags
<1>18. ASSUME NEW w \in Workers, Encrypt(w) PROVE TypeOK'
  <2>1. Encrypted(Argument(w)) \in Forms
    BY DEF Encrypted, Forms
  <2>2. loc' \in [Workers -> Locals]
    <3>1. \/ loc' = loc \/ loc' = [loc EXCEPT ![w].reply = Empty]
          \/ loc' = [loc EXCEPT ![w].reply.form = Encrypted(Argument(w))]
      BY <1>18 DEF Encrypt
    <3>2. loc \in [Workers -> Locals]
      BY DEF TypeOK
    <3>3. /\ [loc EXCEPT ![w].reply = Empty] \in [Workers -> Locals]
          /\ [loc EXCEPT ![w].reply.form = Encrypted(Argument(w))] \in [Workers -> Locals]
      BY <1>0, <2>1, LocalsUpdate, Zenon
    <3> QED
      BY <3>1, <3>2, <3>3, Zenon
  <2> QED
    BY <1>18, <2>2 DEF Encrypt, TypeOK, Labels, Flags
<1>19. ASSUME NEW w \in Workers, Data(w) PROVE TypeOK'
  <2>1. req[w] \in ApduType
    BY <1>19 DEF Data, LocalInv
  <2>2. invokeId' \in Nat
    BY <1>19, <2>1 DEF Data, ApduType
  <2> QED
    BY <1>19, <2>2 DEF Data, TypeOK, Labels
<1>20. ASSUME NEW w \in Workers, DataIgnored(w) PROVE TypeOK'
  BY <1>20 DEF DataIgnored, TypeOK, Labels
<1>21. ASSUME NEW w \in Workers, Format(w) PROVE TypeOK'
  <2>1. [kind |-> "data", form |-> "clear", invoke |-> InvokeIdOfRequest] \in Replies
    BY DEF TypeOK, InvokeIdOfRequest, Replies, Kinds, Forms
  <2>2. loc' \in [Workers -> Locals]
    BY <1>21, <2>1, LocalsUpdate DEF Format, Formatted, Jobs
  <2> QED
    BY <1>21, <2>2 DEF Format, Formatted, TypeOK, Labels
<1>22. ASSUME NEW w \in Workers, Protect(w) PROVE TypeOK'
  BY <1>22 DEF Protect, TypeOK, Labels
<1>23. ASSUME NEW w \in Workers, Seal(w) PROVE TypeOK'
  <2>0. loc' = loc \/ loc' = [loc EXCEPT ![w].reply.form = "doubled"]
    BY <1>23 DEF Seal
  <2>1. loc' \in [Workers -> Locals]
    <3>1. loc \in [Workers -> Locals] /\ "doubled" \in Forms
      BY DEF TypeOK, Forms
    <3>2. [loc EXCEPT ![w].reply.form = "doubled"] \in [Workers -> Locals]
      BY <3>1, LocalsUpdate, Zenon
    <3> QED
      BY <2>0, <3>1, <3>2, Zenon
  <2> QED
    BY <1>23, <2>1 DEF Seal, TypeOK, Labels
<1>25. ASSUME NEW w \in Workers, Unanswered(w) PROVE TypeOK'
  BY <1>25 DEF Unanswered, TypeOK, Labels
<1>26. ASSUME NEW w \in Workers, TooLong(w) PROVE TypeOK'
  <2>1. Empty \in Replies
    BY DEF Empty, Replies, Kinds, Forms
  <2>2. loc' \in [Workers -> Locals]
    BY <1>26, <2>1, LocalsUpdate DEF TooLong
  <2> QED
    BY <1>26, <2>2 DEF TooLong, TypeOK, Labels
<1>27. ASSUME NEW w \in Workers, IsData(w) PROVE TypeOK'
  BY <1>27 DEF IsData, TypeOK, Labels
<1>28. ASSUME NEW w \in Workers, IsConnect(w) PROVE TypeOK'
  BY <1>28 DEF IsConnect, TypeOK, Labels
<1>29. ASSUME NEW w \in Workers, EncryptOverrun(w) PROVE TypeOK'
  <2>1. loc' \in [Workers -> Locals]
    BY <1>29, LocalsUpdate DEF EncryptOverrun, Forms
  <2> QED
    BY <1>29, <2>1 DEF EncryptOverrun, TypeOK, Labels, Flags
<1>30. ASSUME NEW w \in Workers, FormatOverrun(w) PROVE TypeOK'
  <2>1. [kind |-> "data", form |-> "overrun", invoke |-> InvokeIdOfRequest] \in Replies
    BY DEF TypeOK, InvokeIdOfRequest, Replies, Kinds, Forms
  <2>2. loc' \in [Workers -> Locals]
    BY <1>30, <2>1, LocalsUpdate DEF FormatOverrun, Formatted, Jobs
  <2> QED
    BY <1>30, <2>2 DEF FormatOverrun, Formatted, TypeOK, Labels
<1>24. CASE UNCHANGED vars
  BY <1>24 DEF vars, TypeOK
<1> QED
  BY <1>1, <1>2, <1>3, <1>4, <1>5, <1>6, <1>7, <1>8, <1>9, <1>10, <1>11, <1>12, <1>13, <1>14, <1>15, <1>16, <1>17, <1>18, <1>19, <1>20, <1>21, <1>22, <1>23, <1>24,
     <1>25, <1>26, <1>27, <1>28, <1>29, <1>30
     DEF Next, Connect, Cipher, ProcessData

\* Every step keeps what the local variables say.
LEMMA LocalStep == TypeOK /\ LocalInv /\ [Next]_vars => LocalInv'
<1> SUFFICES ASSUME TypeOK, LocalInv, [Next]_vars PROVE LocalInv'
  OBVIOUS
<1> USE DEF TypeOK, LocalInv, Fresh, Ciphering, GoTo, session, security, apdu, worker, Blank, Empty
<1>1. ASSUME NEW w \in Workers, NEW r \in Requests, Take(w, r) PROVE LocalInv'
  BY <1>1 DEF Take, CipherFlagReset, Busy
<1>2. ASSUME NEW w \in Workers, Dispatch(w) PROVE LocalInv'
  <2>1. Route(req[w]) \in {"decrypt", "isdata"} => req[w] \in Apdus
    BY <1>2, RequestFields DEF Dispatch, Route, Requests, AarqType, Rlrq
  <2>2. Route(req[w]) \in {"decrypt", "response", "isdata"}
    BY DEF Route
  <2> QED
    BY <1>2, <2>1, <2>2 DEF Dispatch
<1>3. ASSUME NEW w \in Workers, Decrypt(w) PROVE LocalInv'
  BY <1>3 DEF Decrypt
<1>4. ASSUME NEW w \in Workers, Send(w) PROVE LocalInv'
  BY <1>4 DEF Send
<1>5. ASSUME NEW w \in Workers, ResponseAarq(w) PROVE LocalInv'
  <2>1. CASE req[w].ok /\ req[w].mech = "high" /\ state = "INIT"
    <3>1. /\ pc[w] = "response" /\ pc' = [pc EXCEPT ![w] = "icload"]
          /\ loc' = [loc EXCEPT ![w].job = "proof"] /\ req' = req
          /\ req[w].tag = "AARQ"
      BY <1>5, <2>1 DEF ResponseAarq
    <3>2. /\ \A v \in Workers : v # w => loc'[v] = loc[v] /\ pc'[v] = pc[v]
          /\ pc'[w] = "icload" /\ loc'[w].job = "proof"
          /\ loc'[w].ret = loc[w].ret /\ loc'[w].reply = loc[w].reply
          /\ loc[w].reply.kind # "data"
      BY <3>1 DEF Locals
    <3> QED
      BY <3>1, <3>2
  <2>2. CASE ~(req[w].ok /\ req[w].mech = "high" /\ state = "INIT")
    BY <1>5, <2>2 DEF ResponseAarq
  <2> QED
    BY <2>1, <2>2
<1>6. ASSUME NEW w \in Workers, ResponseRlrq(w) PROVE LocalInv'
  BY <1>6 DEF ResponseRlrq
<1>7. ASSUME NEW w \in Workers, ResponseAction(w) PROVE LocalInv'
  BY <1>7 DEF ResponseAction
<1>8. ASSUME NEW w \in Workers, ResponseOther(w) PROVE LocalInv'
  BY <1>8 DEF ResponseOther
<1>9. ASSUME NEW w \in Workers, Request(w) PROVE LocalInv'
  BY <1>9 DEF Request, ReplyKind
<1>10. ASSUME NEW w \in Workers, BuildInit(w) PROVE LocalInv'
  BY <1>10 DEF BuildInit
<1>11. ASSUME NEW w \in Workers, Formed(w) PROVE LocalInv'
  BY <1>11 DEF Formed
<1>12. ASSUME NEW w \in Workers, Passed(w) PROVE LocalInv'
  BY <1>12 DEF Passed
<1>13. ASSUME NEW w \in Workers, Reset(w) PROVE LocalInv'
  BY <1>13 DEF Reset, ResetState
<1>14. ASSUME NEW w \in Workers, Settle(w) PROVE LocalInv'
  BY <1>14 DEF Settle, NextState
<1>15. ASSUME NEW w \in Workers, LoadIc(w) PROVE LocalInv'
  BY <1>15 DEF LoadIc
<1>16. ASSUME NEW w \in Workers, StoreIc(w) PROVE LocalInv'
  BY <1>16 DEF StoreIc
<1>17. ASSUME NEW w \in Workers, SetControl(w) PROVE LocalInv'
  BY <1>17 DEF SetControl
<1>18. ASSUME NEW w \in Workers, Encrypt(w) PROVE LocalInv'
  <2>1. \A v \in Workers :
           /\ v # w => loc'[v] = loc[v] /\ pc'[v] = pc[v]
           /\ loc'[v].job = loc[v].job /\ loc'[v].ret = loc[v].ret
           /\ loc'[v].reply.kind \in {loc[v].reply.kind, "empty"}
           /\ loc[w].job = "data" => loc'[w].reply.kind = loc[w].reply.kind
    BY <1>18 DEF Encrypt, Locals, Replies
  <2>2. /\ pc[w] = "encrypt"
        /\ pc'[w] \in {"passed", "formed", "reset", "send"}
        /\ loc[w].job = "data" <=> pc'[w] = "send"
        /\ loc[w].job = "proof" <=> pc'[w] = "passed"
    BY <1>18 DEF Encrypt, Locals, Jobs
  <2> QED
    <3>1. req' = req
      BY <1>18 DEF Encrypt
    <3>2. ASSUME NEW v \in Workers, v # w
          PROVE  loc'[v] = loc[v] /\ pc'[v] = pc[v] /\ req'[v] = req[v]
      BY <2>1, <3>1, <3>2
    <3>3. /\ loc'[w].job = loc[w].job /\ loc'[w].ret = loc[w].ret
          /\ loc'[w].reply.kind \in {loc[w].reply.kind, "empty"}
          /\ req'[w] = req[w]
      BY <2>1, <3>1
    <3>4. ASSUME loc[w].ret = 2 PROVE loc[w].job = "init"
      BY <2>2, <3>4
    <3>5. pc'[w] \notin Fresh \/ loc[w].ret = 1
      BY <2>2, <3>4 DEF Fresh, Locals
    <3> HIDE DEF TypeOK, Fresh
    <3> QED
      BY <2>2, <3>2, <3>3, <3>4, <3>5
<1>19. ASSUME NEW w \in Workers, Data(w) PROVE LocalInv'
  BY <1>19 DEF Data
<1>20. ASSUME NEW w \in Workers, DataIgnored(w) PROVE LocalInv'
  BY <1>20 DEF DataIgnored
<1>21. ASSUME NEW w \in Workers, Format(w) PROVE LocalInv'
  BY <1>21 DEF Format, Formatted, InvokeIdOfRequest
<1>22. ASSUME NEW w \in Workers, Protect(w) PROVE LocalInv'
  BY <1>22 DEF Protect
<1>23. ASSUME NEW w \in Workers, Seal(w) PROVE LocalInv'
  <2>1. CASE loc' = loc
    BY <1>23, <2>1 DEF Seal
  <2>2. CASE loc' = [loc EXCEPT ![w].reply.form = "doubled"] /\ ~isCipher
    BY <1>23, <2>2 DEF Seal
  <2> QED
    BY <1>23, <2>1, <2>2 DEF Seal
<1>25. ASSUME NEW w \in Workers, Unanswered(w) PROVE LocalInv'
  BY <1>25 DEF Unanswered
<1>26. ASSUME NEW w \in Workers, TooLong(w) PROVE LocalInv'
  BY <1>26 DEF TooLong, Empty
<1>27. ASSUME NEW w \in Workers, IsData(w) PROVE LocalInv'
  BY <1>27 DEF IsData
<1>28. ASSUME NEW w \in Workers, IsConnect(w) PROVE LocalInv'
  BY <1>28 DEF IsConnect
<1>29. ASSUME NEW w \in Workers, EncryptOverrun(w) PROVE LocalInv'
  BY <1>29 DEF EncryptOverrun
<1>30. ASSUME NEW w \in Workers, FormatOverrun(w) PROVE LocalInv'
  BY <1>30 DEF FormatOverrun, Formatted, InvokeIdOfRequest
<1>24. CASE UNCHANGED vars
  BY <1>24 DEF vars
<1> QED
  BY <1>1, <1>2, <1>3, <1>4, <1>5, <1>6, <1>7, <1>8, <1>9, <1>10, <1>11, <1>12, <1>13, <1>14, <1>15, <1>16, <1>17, <1>18, <1>19, <1>20, <1>21, <1>22, <1>23, <1>24,
     <1>25, <1>26, <1>27, <1>28, <1>29, <1>30
     DEF Next, Connect, Cipher, ProcessData

\* Every step that leaves or keeps a state that must be taken back leaves a worker
\* that takes it back.
LEMMA SettlingStep == TypeOK /\ LocalInv /\ SettlingInv /\ [Next]_vars => SettlingInv'
<1> SUFFICES ASSUME TypeOK, LocalInv, SettlingInv, [Next]_vars PROVE SettlingInv'
  OBVIOUS
<1> USE DEF GoTo, session, security, apdu, worker, Ciphering
\* It is enough that each worker that settles still does, and that the one that makes
\* a step settles if it sets such a state.
<1>0. ASSUME NEW w \in Workers,
             state' = state \/ state' \in {"INIT", "PASS_2"} \/ Settles(w)',
             \A v \in Workers : Settles(v) => Settles(v)' \/ state' \in {"INIT", "PASS_2"}
      PROVE  SettlingInv'
  BY <1>0 DEF SettlingInv
<1>1. ASSUME NEW w \in Workers, NEW r \in Requests, Take(w, r) PROVE SettlingInv'
  BY <1>0, <1>1 DEF Take, Settles, TypeOK, Blank
<1>2. ASSUME NEW w \in Workers, Dispatch(w) PROVE SettlingInv'
  BY <1>0, <1>2 DEF Dispatch, Settles, TypeOK, LocalInv, Route
<1>3. ASSUME NEW w \in Workers, Decrypt(w) PROVE SettlingInv'
  BY <1>0, <1>3 DEF Decrypt, Settles, TypeOK, LocalInv
<1>4. ASSUME NEW w \in Workers, Send(w) PROVE SettlingInv'
  BY <1>0, <1>4 DEF Send, Settles, TypeOK, LocalInv
<1>5. ASSUME NEW w \in Workers, ResponseAarq(w) PROVE SettlingInv'
  BY <1>0, <1>5 DEF ResponseAarq, Settles, TypeOK, LocalInv
<1>6. ASSUME NEW w \in Workers, ResponseRlrq(w) PROVE SettlingInv'
  BY <1>0, <1>6 DEF ResponseRlrq, Settles, TypeOK, LocalInv
<1>7. ASSUME NEW w \in Workers, ResponseAction(w) PROVE SettlingInv'
  BY <1>0, <1>7 DEF ResponseAction, Settles, TypeOK, LocalInv
<1>8. ASSUME NEW w \in Workers, ResponseOther(w) PROVE SettlingInv'
  BY <1>0, <1>8 DEF ResponseOther, Settles, TypeOK, LocalInv
<1>9. ASSUME NEW w \in Workers, Request(w) PROVE SettlingInv'
  <2>1. /\ pc[w] = "request" /\ state' = state
        /\ \A v \in Workers : v # w => pc'[v] = pc[v] /\ loc'[v] = loc[v]
        /\ loc'[w].job = (IF state = "PASS_4" THEN "pass4" ELSE "init")
        /\ loc'[w].ret = (IF state = "PASS_2" THEN 2 ELSE 1)
        /\ pc'[w] = CASE state = "PASS_4" -> "icload"
                      [] state \in {"PASS_2", "LLS_AARE", "RLRE"} -> "init"
                      [] OTHER -> "reset"
    BY <1>9 DEF Request, TypeOK, Locals
  <2>2. state \in {"INIT", "PASS_2"} \/ Settles(w)'
    BY <2>1 DEF Settles, TypeOK
  <2>3. \A v \in Workers : v # w /\ Settles(v) => Settles(v)'
    BY <2>1 DEF Settles
  <2> QED
    BY <1>0, <2>1, <2>2, <2>3
<1>10. ASSUME NEW w \in Workers, BuildInit(w) PROVE SettlingInv'
  BY <1>0, <1>10 DEF BuildInit, Settles, TypeOK, LocalInv
<1>11. ASSUME NEW w \in Workers, Formed(w) PROVE SettlingInv'
  BY <1>0, <1>11 DEF Formed, Settles, TypeOK, LocalInv
<1>12. ASSUME NEW w \in Workers, Passed(w) PROVE SettlingInv'
  BY <1>0, <1>12 DEF Passed, Settles, TypeOK, LocalInv
<1>13. ASSUME NEW w \in Workers, Reset(w) PROVE SettlingInv'
  BY <1>0, <1>13 DEF Reset, Settles, TypeOK, LocalInv, ResetState
<1>14. ASSUME NEW w \in Workers, Settle(w) PROVE SettlingInv'
  BY <1>0, <1>14 DEF Settle, Settles, TypeOK, LocalInv, NextState
<1>15. ASSUME NEW w \in Workers, LoadIc(w) PROVE SettlingInv'
  BY <1>0, <1>15 DEF LoadIc, Settles, TypeOK, LocalInv
<1>16. ASSUME NEW w \in Workers, StoreIc(w) PROVE SettlingInv'
  BY <1>0, <1>16 DEF StoreIc, Settles, TypeOK, LocalInv
<1>17. ASSUME NEW w \in Workers, SetControl(w) PROVE SettlingInv'
  BY <1>0, <1>17 DEF SetControl, Settles, TypeOK, LocalInv
<1>18. ASSUME NEW w \in Workers, Encrypt(w) PROVE SettlingInv'
  BY <1>0, <1>18 DEF Encrypt, Settles, TypeOK, LocalInv
<1>19. ASSUME NEW w \in Workers, Data(w) PROVE SettlingInv'
  BY <1>0, <1>19 DEF Data, Settles, TypeOK, LocalInv
<1>20. ASSUME NEW w \in Workers, DataIgnored(w) PROVE SettlingInv'
  BY <1>0, <1>20 DEF DataIgnored, Settles, TypeOK, LocalInv
<1>21. ASSUME NEW w \in Workers, Format(w) PROVE SettlingInv'
  BY <1>0, <1>21 DEF Format, Formatted, Settles, TypeOK, LocalInv, InvokeIdOfRequest
<1>22. ASSUME NEW w \in Workers, Protect(w) PROVE SettlingInv'
  BY <1>0, <1>22 DEF Protect, Settles, TypeOK, LocalInv
<1>23. ASSUME NEW w \in Workers, Seal(w) PROVE SettlingInv'
  BY <1>0, <1>23 DEF Seal, Settles, TypeOK, LocalInv
<1>25. ASSUME NEW w \in Workers, Unanswered(w) PROVE SettlingInv'
  BY <1>0, <1>25 DEF Unanswered, Settles, TypeOK, LocalInv
<1>26. ASSUME NEW w \in Workers, TooLong(w) PROVE SettlingInv'
  BY <1>0, <1>26 DEF TooLong, Settles, TypeOK, LocalInv, Empty
<1>27. ASSUME NEW w \in Workers, IsData(w) PROVE SettlingInv'
  BY <1>0, <1>27 DEF IsData, Settles, TypeOK, LocalInv
<1>28. ASSUME NEW w \in Workers, IsConnect(w) PROVE SettlingInv'
  BY <1>0, <1>28 DEF IsConnect, Settles, TypeOK, LocalInv
<1>29. ASSUME NEW w \in Workers, EncryptOverrun(w) PROVE SettlingInv'
  BY <1>0, <1>29 DEF EncryptOverrun, Settles, TypeOK, LocalInv
<1>30. ASSUME NEW w \in Workers, FormatOverrun(w) PROVE SettlingInv'
  BY <1>0, <1>30 DEF FormatOverrun, Formatted, InvokeIdOfRequest, Settles, TypeOK, LocalInv
<1>24. CASE UNCHANGED vars
  BY <1>24 DEF vars, SettlingInv, Settles
<1> QED
  BY <1>1, <1>2, <1>3, <1>4, <1>5, <1>6, <1>7, <1>8, <1>9, <1>10, <1>11, <1>12, <1>13, <1>14, <1>15, <1>16, <1>17, <1>18, <1>19, <1>20, <1>21, <1>22, <1>23, <1>24,
     <1>25, <1>26, <1>27, <1>28, <1>29, <1>30
     DEF Next, Connect, Cipher, ProcessData

\* Every step of a worker whose request is alone finds the shared fields as that
\* worker left them, and no other worker but a new one makes a step.
LEMMA AloneStep == TypeOK /\ LocalInv /\ AloneInv /\ [Next]_vars => AloneInv'
<1> SUFFICES ASSUME TypeOK, LocalInv, AloneInv, [Next]_vars PROVE AloneInv'
  OBVIOUS
<1> USE DEF GoTo, session, security, apdu, worker, Ciphering
<1>0. ASSUME NEW w \in Workers, pc[w] # "idle", alone' = alone,
             \A v \in Workers : v # w => pc'[v] = pc[v],
             Alone(w) /\ Alone(w)' => Undisturbed(w)'
      PROVE  AloneInv'
  BY <1>0 DEF AloneInv, Alone
<1>1. ASSUME NEW w \in Workers, NEW r \in Requests, Take(w, r) PROVE AloneInv'
  BY <1>1, ZenonT(60) DEF Take, Busy, CipherFlagReset, AloneInv, Alone, Undisturbed, Sending, TypeOK, Blank, Empty
<1>2. ASSUME NEW w \in Workers, Dispatch(w) PROVE AloneInv'
  <2>1. /\ Route(req[w]) \in {"decrypt", "response", "isdata"}
        /\ Route(req[w]) = "decrypt" => req[w].glo
    BY DEF Route
  <2>2. /\ pc[w] = "dispatch" /\ pc' = [pc EXCEPT ![w] = Route(req[w])]
        /\ isCipher' <=> (isCipher \/ Route(req[w]) = "decrypt")
        /\ req' = req /\ loc' = loc /\ alone' = alone
    BY <1>2 DEF Dispatch
  <2>3. ASSUME Alone(w) PROVE Undisturbed(w)'
    <3>1. ~isCipher /\ loc[w].reply.kind # "data"
      BY <2>2, <2>3 DEF AloneInv, Undisturbed, LocalInv
    <3>2. pc'[w] = Route(req[w])
      BY <2>2 DEF TypeOK
    <3> QED
      BY <2>1, <2>2, <3>1, <3>2 DEF Undisturbed, Sending
  <2> QED
    BY <1>0, <2>2, <2>3 DEF TypeOK
<1>3. ASSUME NEW w \in Workers, Decrypt(w) PROVE AloneInv'
  <2>1. /\ pc[w] = "decrypt" /\ pc' = [pc EXCEPT ![w] = pc'[w]]
        /\ pc'[w] \in {"data", "idle"}
        /\ isCipher' = isCipher /\ invokeId' = invokeId
        /\ req' = req /\ loc' = loc /\ alone' = alone
    BY <1>3 DEF Decrypt, TypeOK
  <2>2. ASSUME Alone(w) PROVE Undisturbed(w)'
    <3>1. isCipher /\ req[w].glo /\ loc[w].reply.kind # "data"
      BY <2>1, <2>2 DEF AloneInv, Undisturbed, LocalInv
    <3> QED
      BY <2>1, <3>1 DEF Undisturbed, Sending
  <2> QED
    BY <1>0, <2>1, <2>2 DEF TypeOK
<1>4. ASSUME NEW w \in Workers, Send(w) PROVE AloneInv'
  BY <1>0, <1>4 DEF Send, Undisturbed, Sending, AloneInv, Alone, TypeOK, LocalInv
<1>5. ASSUME NEW w \in Workers, ResponseAarq(w) PROVE AloneInv'
  <2>1. /\ pc[w] = "response" /\ pc' = [pc EXCEPT ![w] = pc'[w]]
        /\ pc'[w] = "request" \/ (pc'[w] = "icload" /\ loc'[w].job = "proof")
        /\ loc'[w].reply = loc[w].reply /\ loc[w].reply.kind # "data"
        /\ alone' = alone
    <3>1. /\ pc[w] = "response" /\ alone' = alone
          /\ \/ /\ pc' = [pc EXCEPT ![w] = "request"] /\ loc' = loc
             \/ /\ pc' = [pc EXCEPT ![w] = "icload"]
                /\ loc' = [loc EXCEPT ![w].job = "proof"]
      BY <1>5 DEF ResponseAarq
    <3>2. pc' = [pc EXCEPT ![w] = pc'[w]]
      BY <3>1 DEF TypeOK
    <3>3. loc[w].reply.kind # "data"
      BY <3>1 DEF LocalInv
    <3>4. CASE pc' = [pc EXCEPT ![w] = "request"] /\ loc' = loc
      <4>1. pc'[w] = "request"
        BY <3>4 DEF TypeOK
      <4>2. loc'[w].reply = loc[w].reply
        BY <3>4
      <4> QED
        BY <3>1, <3>2, <3>3, <4>1, <4>2
    <3>5. CASE pc' = [pc EXCEPT ![w] = "icload"] /\ loc' = [loc EXCEPT ![w].job = "proof"]
      <4>1. loc'[w] = [loc[w] EXCEPT !.job = "proof"] /\ pc'[w] = "icload"
        BY <3>5 DEF TypeOK
      <4>2. loc'[w].reply = loc[w].reply /\ loc'[w].job = "proof"
        BY <4>1 DEF TypeOK, Locals
      <4> QED
        BY <3>1, <3>2, <3>3, <4>1, <4>2
    <3> QED
      BY <3>1, <3>4, <3>5
  <2> QED
    BY <1>0, <2>1 DEF Undisturbed, Sending, TypeOK
<1>6. ASSUME NEW w \in Workers, ResponseRlrq(w) PROVE AloneInv'
  BY <1>0, <1>6 DEF ResponseRlrq, Undisturbed, Sending, AloneInv, Alone, TypeOK, LocalInv
<1>7. ASSUME NEW w \in Workers, ResponseAction(w) PROVE AloneInv'
  BY <1>0, <1>7 DEF ResponseAction, Undisturbed, Sending, AloneInv, Alone, TypeOK, LocalInv
<1>8. ASSUME NEW w \in Workers, ResponseOther(w) PROVE AloneInv'
  BY <1>0, <1>8 DEF ResponseOther, Undisturbed, Sending, AloneInv, Alone, TypeOK, LocalInv
<1>9. ASSUME NEW w \in Workers, Request(w) PROVE AloneInv'
  BY <1>0, <1>9 DEF Request, Undisturbed, Sending, AloneInv, Alone, TypeOK, LocalInv, ReplyKind
<1>10. ASSUME NEW w \in Workers, BuildInit(w) PROVE AloneInv'
  BY <1>0, <1>10 DEF BuildInit, Undisturbed, Sending, AloneInv, Alone, TypeOK, LocalInv
<1>11. ASSUME NEW w \in Workers, Formed(w) PROVE AloneInv'
  BY <1>0, <1>11 DEF Formed, Undisturbed, Sending, AloneInv, Alone, TypeOK, LocalInv
<1>12. ASSUME NEW w \in Workers, Passed(w) PROVE AloneInv'
  BY <1>0, <1>12 DEF Passed, Undisturbed, Sending, AloneInv, Alone, TypeOK, LocalInv
<1>13. ASSUME NEW w \in Workers, Reset(w) PROVE AloneInv'
  BY <1>0, <1>13 DEF Reset, Undisturbed, Sending, AloneInv, Alone, TypeOK, LocalInv, ResetState
<1>14. ASSUME NEW w \in Workers, Settle(w) PROVE AloneInv'
  BY <1>0, <1>14 DEF Settle, Undisturbed, Sending, AloneInv, Alone, TypeOK, LocalInv, NextState
<1>15. ASSUME NEW w \in Workers, LoadIc(w) PROVE AloneInv'
  BY <1>0, <1>15 DEF LoadIc, Undisturbed, Sending, AloneInv, Alone, TypeOK, LocalInv
<1>16. ASSUME NEW w \in Workers, StoreIc(w) PROVE AloneInv'
  BY <1>0, <1>16 DEF StoreIc, Undisturbed, Sending, AloneInv, Alone, TypeOK, LocalInv
<1>17. ASSUME NEW w \in Workers, SetControl(w) PROVE AloneInv'
  BY <1>0, <1>17 DEF SetControl, Undisturbed, Sending, AloneInv, Alone, TypeOK, LocalInv
<1>18. ASSUME NEW w \in Workers, Encrypt(w) PROVE AloneInv'
  <2>1. /\ pc[w] = "encrypt" /\ pc' = [pc EXCEPT ![w] = pc'[w]]
        /\ pc'[w] \in {"passed", "formed", "reset", "send"}
        /\ pc'[w] = "send" <=> loc[w].job = "data"
        /\ req' = req /\ alone' = alone
    <3>1. /\ pc[w] = "encrypt" /\ req' = req /\ alone' = alone
          /\ pc' = [pc EXCEPT ![w] = CASE loc[w].job = "proof" -> "passed"
                                        [] loc[w].job = "init" -> "formed"
                                        [] loc[w].job = "pass4" -> "reset"
                                        [] OTHER -> "send"]
      BY <1>18 DEF Encrypt
    <3>2. loc[w].job \in {"proof", "init", "pass4", "data"}
      BY <3>1 DEF TypeOK, Locals, Jobs, LocalInv
    <3>3. pc'[w] = CASE loc[w].job = "proof" -> "passed"
                     [] loc[w].job = "init" -> "formed"
                     [] loc[w].job = "pass4" -> "reset"
                     [] OTHER -> "send"
      BY <3>1 DEF TypeOK
    <3>4. pc' = [pc EXCEPT ![w] = pc'[w]]
      BY <3>1, <3>3, Zenon
    <3> QED
      BY <3>1, <3>2, <3>3, <3>4
  <2>2. CASE loc[w].job = "data"
    <3>1. loc' = [loc EXCEPT ![w].reply.form = Encrypted(Argument(w))]
      BY <1>18, <2>2 DEF Encrypt
    <3>2. /\ loc'[w].reply.form = Encrypted(Argument(w))
          /\ loc'[w].reply.invoke = loc[w].reply.invoke
          /\ loc[w].reply.kind = "data"
      BY <2>1, <2>2, <3>1 DEF TypeOK, Locals, Replies, LocalInv
    <3>3. ASSUME Alone(w)
          PROVE  /\ Encrypted(Argument(w)) = "sealed" /\ req[w].glo
                 /\ loc[w].reply.invoke = req[w].invoke
      BY <2>1, <2>2, <3>2, <3>3 DEF AloneInv, Undisturbed, Encrypted, Argument, Flags
    <3> QED
      BY <1>0, <2>1, <2>2, <3>2, <3>3 DEF Undisturbed, Sending, TypeOK
  <2>3. CASE loc[w].job # "data"
    <3>1. loc'[w].reply.kind # "data"
      BY <1>18, <2>1, <2>3 DEF Encrypt, TypeOK, Locals, Replies, LocalInv, Empty
    <3> QED
      BY <1>0, <2>1, <2>3, <3>1 DEF Undisturbed, Sending, TypeOK
  <2> QED
    BY <2>2, <2>3
<1>19. ASSUME NEW w \in Workers, Data(w) PROVE AloneInv'
  BY <1>0, <1>19 DEF Data, Undisturbed, Sending, AloneInv, Alone, TypeOK, LocalInv
<1>20. ASSUME NEW w \in Workers, DataIgnored(w) PROVE AloneInv'
  BY <1>0, <1>20 DEF DataIgnored, Undisturbed, Sending, AloneInv, Alone, TypeOK, LocalInv
<1>21. ASSUME NEW w \in Workers, Format(w) PROVE AloneInv'
  BY <1>0, <1>21 DEF Format, Formatted, Undisturbed, Sending, AloneInv, Alone, TypeOK, LocalInv, InvokeIdOfRequest
<1>22. ASSUME NEW w \in Workers, Protect(w) PROVE AloneInv'
  BY <1>0, <1>22 DEF Protect, Undisturbed, Sending, AloneInv, Alone, TypeOK, LocalInv
<1>23. ASSUME NEW w \in Workers, Seal(w) PROVE AloneInv'
  BY <1>0, <1>23 DEF Seal, Undisturbed, Sending, AloneInv, Alone, TypeOK, LocalInv
<1>25. ASSUME NEW w \in Workers, Unanswered(w) PROVE AloneInv'
  BY <1>0, <1>25 DEF Unanswered, Undisturbed, Sending, AloneInv, Alone, TypeOK, LocalInv
<1>26. ASSUME NEW w \in Workers, TooLong(w) PROVE AloneInv'
  BY <1>0, <1>26 DEF TooLong, Undisturbed, Sending, AloneInv, Alone, TypeOK, LocalInv, Empty
<1>27. ASSUME NEW w \in Workers, IsData(w) PROVE AloneInv'
  BY <1>0, <1>27 DEF IsData, Undisturbed, Sending, AloneInv, Alone, TypeOK, LocalInv
<1>28. ASSUME NEW w \in Workers, IsConnect(w) PROVE AloneInv'
  BY <1>0, <1>28 DEF IsConnect, Undisturbed, Sending, AloneInv, Alone, TypeOK, LocalInv
<1>29. ASSUME NEW w \in Workers, EncryptOverrun(w) PROVE AloneInv'
  BY <1>0, <1>29 DEF EncryptOverrun, Undisturbed, Sending, AloneInv, Alone, TypeOK, LocalInv
<1>30. ASSUME NEW w \in Workers, FormatOverrun(w) PROVE AloneInv'
  BY <1>0, <1>30 DEF FormatOverrun, Formatted, InvokeIdOfRequest, Undisturbed, Sending, AloneInv, Alone, TypeOK, LocalInv
<1>24. CASE UNCHANGED vars
  BY <1>24 DEF vars, AloneInv, Alone, Undisturbed, Sending
<1> QED
  BY <1>1, <1>2, <1>3, <1>4, <1>5, <1>6, <1>7, <1>8, <1>9, <1>10, <1>11, <1>12, <1>13, <1>14, <1>15, <1>16, <1>17, <1>18, <1>19, <1>20, <1>21, <1>22, <1>23, <1>24,
     <1>25, <1>26, <1>27, <1>28, <1>29, <1>30
     DEF Next, Connect, Cipher, ProcessData

\* A second busy worker means that requests overlapped.
LEMMA SerialStep ==
    TypeOK /\ SerialInv /\ [Next]_vars => SerialInv'
<1> SUFFICES ASSUME TypeOK, SerialInv, [Next]_vars PROVE SerialInv'
  OBVIOUS
<1> USE DEF GoTo, session, security, apdu, worker, Ciphering
<1>1. ASSUME NEW w \in Workers, NEW r \in Requests, Take(w, r) PROVE SerialInv'
  BY <1>1 DEF Take, Busy, Blank, Empty, TypeOK, SerialInv
<1>2. ASSUME NEW w \in Workers, Dispatch(w) PROVE SerialInv'
  BY <1>2 DEF Dispatch, TypeOK, SerialInv
<1>3. ASSUME NEW w \in Workers, Decrypt(w) PROVE SerialInv'
  BY <1>3 DEF Decrypt, TypeOK, SerialInv
<1>4. ASSUME NEW w \in Workers, Send(w) PROVE SerialInv'
  BY <1>4 DEF Send, TypeOK, SerialInv
<1>5. ASSUME NEW w \in Workers, ResponseAarq(w) PROVE SerialInv'
  BY <1>5 DEF ResponseAarq, TypeOK, SerialInv
<1>6. ASSUME NEW w \in Workers, ResponseRlrq(w) PROVE SerialInv'
  BY <1>6 DEF ResponseRlrq, TypeOK, SerialInv
<1>7. ASSUME NEW w \in Workers, ResponseAction(w) PROVE SerialInv'
  BY <1>7 DEF ResponseAction, TypeOK, SerialInv
<1>8. ASSUME NEW w \in Workers, ResponseOther(w) PROVE SerialInv'
  BY <1>8 DEF ResponseOther, TypeOK, SerialInv
<1>9. ASSUME NEW w \in Workers, Request(w) PROVE SerialInv'
  BY <1>9 DEF Request, TypeOK, SerialInv, ReplyKind
<1>10. ASSUME NEW w \in Workers, BuildInit(w) PROVE SerialInv'
  BY <1>10 DEF BuildInit, TypeOK, SerialInv
<1>11. ASSUME NEW w \in Workers, Formed(w) PROVE SerialInv'
  BY <1>11 DEF Formed, TypeOK, SerialInv
<1>12. ASSUME NEW w \in Workers, Passed(w) PROVE SerialInv'
  BY <1>12 DEF Passed, TypeOK, SerialInv
<1>13. ASSUME NEW w \in Workers, Reset(w) PROVE SerialInv'
  BY <1>13 DEF Reset, TypeOK, SerialInv, ResetState
<1>14. ASSUME NEW w \in Workers, Settle(w) PROVE SerialInv'
  BY <1>14 DEF Settle, TypeOK, SerialInv, NextState
<1>15. ASSUME NEW w \in Workers, LoadIc(w) PROVE SerialInv'
  BY <1>15 DEF LoadIc, TypeOK, SerialInv
<1>16. ASSUME NEW w \in Workers, StoreIc(w) PROVE SerialInv'
  BY <1>16 DEF StoreIc, TypeOK, SerialInv
<1>17. ASSUME NEW w \in Workers, SetControl(w) PROVE SerialInv'
  BY <1>17 DEF SetControl, TypeOK, SerialInv
<1>18. ASSUME NEW w \in Workers, Encrypt(w) PROVE SerialInv'
  BY <1>18 DEF Encrypt, TypeOK, SerialInv
<1>19. ASSUME NEW w \in Workers, Data(w) PROVE SerialInv'
  BY <1>19 DEF Data, TypeOK, SerialInv
<1>20. ASSUME NEW w \in Workers, DataIgnored(w) PROVE SerialInv'
  BY <1>20 DEF DataIgnored, TypeOK, SerialInv
<1>21. ASSUME NEW w \in Workers, Format(w) PROVE SerialInv'
  BY <1>21 DEF Format, Formatted, TypeOK, SerialInv
<1>22. ASSUME NEW w \in Workers, Protect(w) PROVE SerialInv'
  BY <1>22 DEF Protect, TypeOK, SerialInv
<1>23. ASSUME NEW w \in Workers, Seal(w) PROVE SerialInv'
  BY <1>23 DEF Seal, TypeOK, SerialInv
<1>25. ASSUME NEW w \in Workers, Unanswered(w) PROVE SerialInv'
  BY <1>25 DEF Unanswered, TypeOK, SerialInv
<1>26. ASSUME NEW w \in Workers, TooLong(w) PROVE SerialInv'
  BY <1>26 DEF TooLong, TypeOK, SerialInv
<1>27. ASSUME NEW w \in Workers, IsData(w) PROVE SerialInv'
  BY <1>27 DEF IsData, TypeOK, SerialInv
<1>28. ASSUME NEW w \in Workers, IsConnect(w) PROVE SerialInv'
  BY <1>28 DEF IsConnect, TypeOK, SerialInv
<1>29. ASSUME NEW w \in Workers, EncryptOverrun(w) PROVE SerialInv'
  BY <1>29 DEF EncryptOverrun, TypeOK, SerialInv
<1>30. ASSUME NEW w \in Workers, FormatOverrun(w) PROVE SerialInv'
  BY <1>30 DEF FormatOverrun, Formatted, InvokeIdOfRequest, TypeOK, SerialInv
<1>24. CASE UNCHANGED vars
  BY <1>24 DEF vars, TypeOK, SerialInv
<1> QED
  BY <1>1, <1>2, <1>3, <1>4, <1>5, <1>6, <1>7, <1>8, <1>9, <1>10, <1>11, <1>12, <1>13, <1>14, <1>15, <1>16, <1>17, <1>18, <1>19, <1>20, <1>21, <1>22, <1>23, <1>24,
     <1>25, <1>26, <1>27, <1>28, <1>29, <1>30
     DEF Next, Connect, Cipher, ProcessData

\* Without overlapping a challenge leaves the handler connecting.
LEMMA ChallengeStep ==
    TypeOK /\ LocalInv /\ SerialInv /\ ChallengeInv /\ [Next]_vars => ChallengeInv'
<1> SUFFICES ASSUME TypeOK, LocalInv, SerialInv, ChallengeInv, [Next]_vars PROVE ChallengeInv'
  OBVIOUS
<1> USE DEF GoTo, session, security, apdu, worker, Ciphering
<1>1. ASSUME NEW w \in Workers, NEW r \in Requests, Take(w, r) PROVE ChallengeInv'
  BY <1>1 DEF Take, Busy, Blank, Empty, TypeOK, Fresh, LocalInv, SerialInv, Answers, ChallengeInv
<1>2. ASSUME NEW w \in Workers, Dispatch(w) PROVE ChallengeInv'
  <2>1. Route(req[w]) \in {"decrypt", "response", "isdata"}
    BY DEF Route
  <2> QED
    BY <1>2, <2>1 DEF Dispatch, TypeOK, Fresh, LocalInv, Answers, ChallengeInv
<1>3. ASSUME NEW w \in Workers, Decrypt(w) PROVE ChallengeInv'
  BY <1>3 DEF Decrypt, TypeOK, Fresh, LocalInv, SerialInv, Answers, ChallengeInv
<1>4. ASSUME NEW w \in Workers, Send(w) PROVE ChallengeInv'
  BY <1>4 DEF Send, TypeOK, Fresh, LocalInv, SerialInv, Answers, ChallengeInv
<1>5. ASSUME NEW w \in Workers, ResponseAarq(w) PROVE ChallengeInv'
  BY <1>5 DEF ResponseAarq, TypeOK, Fresh, LocalInv, SerialInv, Answers, ChallengeInv
<1>6. ASSUME NEW w \in Workers, ResponseRlrq(w) PROVE ChallengeInv'
  BY <1>6 DEF ResponseRlrq, TypeOK, Fresh, LocalInv, SerialInv, Answers, ChallengeInv
<1>7. ASSUME NEW w \in Workers, ResponseAction(w) PROVE ChallengeInv'
  BY <1>7 DEF ResponseAction, TypeOK, Fresh, LocalInv, SerialInv, Answers, ChallengeInv
<1>8. ASSUME NEW w \in Workers, ResponseOther(w) PROVE ChallengeInv'
  BY <1>8 DEF ResponseOther, TypeOK, Fresh, LocalInv, SerialInv, Answers, ChallengeInv
<1>9. ASSUME NEW w \in Workers, Request(w) PROVE ChallengeInv'
  BY <1>9 DEF Request, TypeOK, Fresh, LocalInv, SerialInv, Answers, ChallengeInv, ReplyKind
<1>10. ASSUME NEW w \in Workers, BuildInit(w) PROVE ChallengeInv'
  BY <1>10 DEF BuildInit, TypeOK, Fresh, LocalInv, SerialInv, Answers, ChallengeInv
<1>11. ASSUME NEW w \in Workers, Formed(w) PROVE ChallengeInv'
  BY <1>11 DEF Formed, TypeOK, Fresh, LocalInv, SerialInv, Answers, ChallengeInv
<1>12. ASSUME NEW w \in Workers, Passed(w) PROVE ChallengeInv'
  BY <1>12 DEF Passed, TypeOK, Fresh, LocalInv, SerialInv, Answers, ChallengeInv
<1>13. ASSUME NEW w \in Workers, Reset(w) PROVE ChallengeInv'
  BY <1>13 DEF Reset, TypeOK, Fresh, LocalInv, SerialInv, Answers, ChallengeInv, ResetState
<1>14. ASSUME NEW w \in Workers, Settle(w) PROVE ChallengeInv'
  BY <1>14 DEF Settle, TypeOK, Fresh, LocalInv, SerialInv, Answers, ChallengeInv, NextState
<1>15. ASSUME NEW w \in Workers, LoadIc(w) PROVE ChallengeInv'
  BY <1>15 DEF LoadIc, TypeOK, Fresh, LocalInv, SerialInv, Answers, ChallengeInv
<1>16. ASSUME NEW w \in Workers, StoreIc(w) PROVE ChallengeInv'
  BY <1>16 DEF StoreIc, TypeOK, Fresh, LocalInv, SerialInv, Answers, ChallengeInv
<1>17. ASSUME NEW w \in Workers, SetControl(w) PROVE ChallengeInv'
  BY <1>17 DEF SetControl, TypeOK, Fresh, LocalInv, SerialInv, Answers, ChallengeInv
<1>18. ASSUME NEW w \in Workers, Encrypt(w) PROVE ChallengeInv'
  BY <1>18 DEF Encrypt, TypeOK, Fresh, LocalInv, SerialInv, Answers, ChallengeInv
<1>19. ASSUME NEW w \in Workers, Data(w) PROVE ChallengeInv'
  BY <1>19 DEF Data, TypeOK, Fresh, LocalInv, SerialInv, Answers, ChallengeInv
<1>20. ASSUME NEW w \in Workers, DataIgnored(w) PROVE ChallengeInv'
  BY <1>20 DEF DataIgnored, TypeOK, Fresh, LocalInv, SerialInv, Answers, ChallengeInv
<1>21. ASSUME NEW w \in Workers, Format(w) PROVE ChallengeInv'
  <2>1. /\ pc[w] = "format" /\ pc' = [pc EXCEPT ![w] = "protect"]
        /\ req' = req /\ mhs' = mhs /\ state' = state /\ overlapped' = overlapped
        /\ loc' = [loc EXCEPT ![w].reply = [kind |-> "data", form |-> "clear",
                                           invoke |-> InvokeIdOfRequest],
                             ![w].job = "data"]
    BY <1>21 DEF Format, Formatted
  <2>2. loc'[w].ret = loc[w].ret /\ \A v \in Workers : v # w => loc'[v] = loc[v]
    BY <2>1 DEF TypeOK, Locals
  <2>3. \A v \in Workers : Answers(v) => Answers(v)'
    BY <2>1, <2>2 DEF TypeOK, Fresh, LocalInv, Answers
  <2> QED
    BY <2>1, <2>2, <2>3 DEF TypeOK, Fresh, LocalInv, ChallengeInv
<1>22. ASSUME NEW w \in Workers, Protect(w) PROVE ChallengeInv'
  BY <1>22 DEF Protect, TypeOK, Fresh, LocalInv, SerialInv, Answers, ChallengeInv
<1>23. ASSUME NEW w \in Workers, Seal(w) PROVE ChallengeInv'
  <2>1. CASE loc' = loc
    BY <1>23, <2>1 DEF Seal, TypeOK, Fresh, LocalInv, Answers, ChallengeInv
  <2>2. CASE loc' = [loc EXCEPT ![w].reply.form = "doubled"] /\ ~isCipher
    BY <1>23, <2>2 DEF Seal, TypeOK, Fresh, LocalInv, Answers, ChallengeInv
  <2> QED
    BY <1>23, <2>1, <2>2 DEF Seal
<1>25. ASSUME NEW w \in Workers, Unanswered(w) PROVE ChallengeInv'
  BY <1>25 DEF Unanswered, TypeOK, Fresh, LocalInv, SerialInv, Answers, ChallengeInv
<1>26. ASSUME NEW w \in Workers, TooLong(w) PROVE ChallengeInv'
  BY <1>26 DEF TooLong, TypeOK, Fresh, LocalInv, SerialInv, Answers, ChallengeInv
<1>27. ASSUME NEW w \in Workers, IsData(w) PROVE ChallengeInv'
  BY <1>27 DEF IsData, TypeOK, Fresh, LocalInv, SerialInv, Answers, ChallengeInv
<1>28. ASSUME NEW w \in Workers, IsConnect(w) PROVE ChallengeInv'
  BY <1>28 DEF IsConnect, TypeOK, Fresh, LocalInv, SerialInv, Answers, ChallengeInv
<1>29. ASSUME NEW w \in Workers, EncryptOverrun(w) PROVE ChallengeInv'
  BY <1>29 DEF EncryptOverrun, TypeOK, Fresh, LocalInv, SerialInv, Answers, ChallengeInv
<1>30. ASSUME NEW w \in Workers, FormatOverrun(w) PROVE ChallengeInv'
  BY <1>30 DEF FormatOverrun, Formatted, InvokeIdOfRequest, TypeOK, Fresh, LocalInv, SerialInv, Answers, ChallengeInv
<1>24. CASE UNCHANGED vars
  BY <1>24 DEF vars, TypeOK, Fresh, LocalInv, SerialInv, Answers, ChallengeInv
<1> QED
  BY <1>1, <1>2, <1>3, <1>4, <1>5, <1>6, <1>7, <1>8, <1>9, <1>10, <1>11, <1>12, <1>13, <1>14, <1>15, <1>16, <1>17, <1>18, <1>19, <1>20, <1>21, <1>22, <1>23, <1>24,
     <1>25, <1>26, <1>27, <1>28, <1>29, <1>30
     DEF Next, Connect, Cipher, ProcessData

-----------------------------------------------------------------------------

\* The invariants hold in every state, for any number of workers.
THEOREM HandlerInvariant == Spec => []HandlerInv
<1>1. HandlerInv /\ [Next]_vars => HandlerInv'
  BY TypeStep, LocalStep, SettlingStep, AloneStep DEF HandlerInv
<1> QED
  BY InitHandlerInv, <1>1, PTL DEF Spec

\* The initial states satisfy the invariants about requests that do not overlap.
LEMMA InitOrderInv == Init => OrderInv
<1> SUFFICES ASSUME Init PROVE OrderInv
  OBVIOUS
<1> USE DEF Init, Blank, Empty, Ciphering
<1> QED
  BY DEF OrderInv, SerialInv, ChallengeInv, Answers

\* The invariants about requests that do not overlap hold in every state.
THEOREM OrderInvariant == Spec => []OrderInv
<1>1. HandlerInv /\ OrderInv /\ [Next]_vars => OrderInv'
  BY SerialStep, ChallengeStep DEF HandlerInv, OrderInv
<1> QED
  BY InitOrderInv, <1>1, HandlerInvariant, PTL DEF Spec

\* The fields of the handler keep their types under any interleaving of workers.
THEOREM HandlerTypeTheorem == Spec => []TypeOK
<1>1. HandlerInv => TypeOK
  BY DEF HandlerInv
<1> QED
  BY <1>1, HandlerInvariant, PTL

\* However many workers handled requests of the connection at the same time, when
\* all are done no handshake is half done: the worker that set such a state takes it
\* back before it ends (SettlingInv).
THEOREM QuietTheorem == Spec => []QuietState
<1>1. HandlerInv => QuietState
  BY DEF HandlerInv, SettlingInv, Settles, QuietState, Busy, Ciphering
<1> QED
  BY <1>1, HandlerInvariant, PTL

\* A data request that is handled alone gets its own reply, whatever overlapping
\* requests left in the shared fields: each field it reads it has written before, or
\* decrypt or encrypt has reset it (AloneInv).
THEOREM AloneTheorem == Spec => []AloneIsAnsweredRight
<1>1. HandlerInv => AloneIsAnsweredRight
  BY DEF HandlerInv, AloneInv, Alone, Undisturbed, AloneIsAnsweredRight, Sending
<1> QED
  BY <1>1, HandlerInvariant, PTL

\* As long as requests do not overlap, a waiting challenge keeps the handler
\* connecting.
THEOREM ChallengeTheorem == Spec => []ChallengeIsConnecting
<1>1. OrderInv => ChallengeIsConnecting
  BY DEF OrderInv, ChallengeInv, Answers, ChallengeIsConnecting, Busy, Ciphering
<1> QED
  BY <1>1, OrderInvariant, PTL
=============================================================================
