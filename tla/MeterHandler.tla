---------------------------- MODULE MeterHandler ----------------------------
(***************************************************************************)
(* One meter behind one connection: meter_handler and its access_security  *)
(* and data_security (fee/meter_simulator/meter_handler.cpp,               *)
(* access_security.cpp, data_security.cpp).                                *)
(*                                                                         *)
(* A worker of the pool runs handle_response for one request.  No lock     *)
(* protects the object, so the requests of one connection that two workers *)
(* hold at the same time share every field: each access to a field that    *)
(* another worker may write in between is a step here.  With one worker    *)
(* the module is the handler of a client that waits for each reply.        *)
(***************************************************************************)
EXTENDS Integers, Sequences, FiniteSets

CONSTANTS
    Workers,    \* workers of the pool
    Aarqs,      \* the association requests that clients send
    Apdus,      \* the get, action and other requests that clients send
    MaxIc       \* bound: no request is taken once the counter is there

Flags == {"auth", "enc"}
NoSc == {"absent"}  \* the user information of the AARQ is not ciphered
AarqType == [tag : {"AARQ"}, ok : BOOLEAN, mech : {"low", "high", "other"},
             context : {"plain", "ciphered", "absent"},
             sc : (SUBSET Flags) \cup {NoSc}]
ApduType == [tag : {"get", "action", "other"}, glo : BOOLEAN, ok : BOOLEAN, invoke : Nat]
Rlrq == [tag |-> "RLRQ"]
NoRequest == [tag |-> "none"]
Requests == Aarqs \cup Apdus \cup {Rlrq}

ASSUME MeterHandlerAssumption ==
    /\ Aarqs \subseteq AarqType
    /\ Apdus \subseteq ApduType
    /\ MaxIc \in Nat

VARIABLES
    mhs,        \* handler_state_
    state,      \* access_security::state_
    cipherFlag, \* cipher_flag_, from the context name of the last AARQ
    sc,         \* sc_, from the ciphered user information of an AARQ
    control,    \* data_security::security_control_
    ic,         \* client_cur_use_ic_
    isCipher,   \* is_cipher_
    invokeId,   \* invokeid_
    pc,         \* where each worker is
    req,        \* the request it handles
    loc,        \* its local variables
    alone,      \* history: no other request has been handled since it began
    overlapped  \* history: two requests have been handled at the same time

session == <<mhs, state>>
security == <<cipherFlag, sc, control, ic>>
apdu == <<isCipher, invokeId>>
worker == <<req, alone, overlapped>>
vars == <<mhs, state, cipherFlag, sc, control, ic, isCipher, invokeId, pc, req,
          loc, alone, overlapped>>

\* An empty reply: s_packet was never formatted, its length is 0, or the reply did
\* not fit in a message_block.
Empty == [kind |-> "empty", form |-> "clear", invoke |-> 0]
Blank == [ic |-> 0, job |-> "none", ret |-> 1, reply |-> Empty]

Init ==
    /\ mhs = "null"
    /\ state = "INIT"
    /\ cipherFlag = FALSE
    /\ sc = {}
    /\ control = {}
    /\ ic = 0
    /\ isCipher = FALSE
    /\ invokeId = 0
    /\ pc = [w \in Workers |-> "idle"]
    /\ req = [w \in Workers |-> NoRequest]
    /\ loc = [w \in Workers |-> Blank]
    /\ alone = [w \in Workers |-> TRUE]
    /\ overlapped = FALSE

GoTo(w, from, to) == pc[w] = from /\ pc' = [pc EXCEPT ![w] = to]

-----------------------------------------------------------------------------
(* handle_response.                                                        *)

\* Fault: is_cipher_ keeps the value of an earlier request.
CipherFlagKept == isCipher

\* is_cipher_ = false
CipherFlagReset == FALSE

Busy == {w \in Workers : pc[w] # "idle"}

Take(w, r) ==
    /\ ic < MaxIc
    /\ GoTo(w, "idle", "dispatch")
    /\ req' = [req EXCEPT ![w] = r]
    /\ loc' = [loc EXCEPT ![w] = Blank]
    /\ alone' = [v \in Workers |->
                    IF v = w THEN Busy = {} ELSE alone[v] /\ pc[v] = "idle"]
    /\ overlapped' = (overlapped \/ Busy # {})
    /\ isCipher' = CipherFlagReset
    /\ UNCHANGED <<session, security, invokeId>>

\* Where the tag and, for a ciphered request, handler_state_ send a request.
Route(r) ==
    CASE r.tag \in {"AARQ", "RLRQ"} -> "response"
      [] r.tag \in {"get", "action", "other"} /\ r.glo /\ mhs = "data" -> "decrypt"
      [] OTHER -> "isdata"

Dispatch(w) ==
    /\ GoTo(w, "dispatch", Route(req[w]))
    /\ isCipher' = (isCipher \/ Route(req[w]) = "decrypt")
    /\ UNCHANGED <<session, security, invokeId, worker, loc>>

\* handler_state_ is read again for each of the two tests that follow.  process_data
\* ignores a request that is still ciphered.
IsData(w) ==
    /\ GoTo(w, "isdata", CASE mhs # "data" -> "isconnect"
                            [] mhs = "data" /\ req[w].glo -> "idle"
                            [] OTHER -> "data")
    /\ UNCHANGED <<session, security, apdu, worker, loc>>

IsConnect(w) ==
    /\ GoTo(w, "isconnect", IF mhs = "connect" THEN "response" ELSE "idle")
    /\ UNCHANGED <<session, security, apdu, worker, loc>>

\* call_decrypt; data_security::decrypt resets security_control_ at its end.  A
\* request that is too short is refused before, and one that finds is_cipher_ reset by
\* another request stays ciphered, which process_data ignores.
Decrypt(w) ==
    /\ GoTo(w, "decrypt", IF isCipher /\ req[w].ok THEN "data" ELSE "idle")
    /\ \/ isCipher /\ control' = {}
       \/ ~(isCipher /\ req[w].ok) /\ UNCHANGED control
    /\ UNCHANGED <<session, cipherFlag, sc, ic, apdu, worker, loc>>

-----------------------------------------------------------------------------
(* process_cosem_connect, process_cosem_disconnect: proc_response ...      *)

\* parse_aarq keeps what it read of context and user information even when it fails.
ResponseAarq(w) ==
    /\ req[w].tag = "AARQ"
    /\ cipherFlag' = IF req[w].context = "absent" THEN cipherFlag
                     ELSE req[w].context = "ciphered"
    /\ sc' = IF req[w].sc = NoSc THEN sc ELSE req[w].sc
    /\ IF req[w].ok /\ req[w].mech = "high" /\ state = "INIT"
       THEN /\ GoTo(w, "response", "icload")
            /\ loc' = [loc EXCEPT ![w].job = "proof"]
            /\ UNCHANGED state
       ELSE /\ GoTo(w, "response", "request")
            /\ state' = IF req[w].ok /\ req[w].mech = "low" THEN "LLS_AARE" ELSE state
            /\ UNCHANGED loc
    /\ UNCHANGED <<mhs, control, ic, apdu, worker>>

ResponseRlrq(w) ==
    /\ req[w].tag = "RLRQ"
    /\ GoTo(w, "response", "request")
    /\ state' = "RLRE"
    /\ UNCHANGED <<mhs, security, apdu, worker, loc>>

\* Pass 3: the answer to the challenge is decrypted, the result is not looked at.
ResponseAction(w) ==
    /\ req[w].tag = "action"
    /\ GoTo(w, "response", "request")
    /\ control' = {}
    /\ state' = "PASS_4"
    /\ UNCHANGED <<mhs, cipherFlag, sc, ic, apdu, worker, loc>>

ResponseOther(w) ==
    /\ req[w].tag \in {"get", "other"}
    /\ GoTo(w, "response", "request")
    /\ UNCHANGED <<session, security, apdu, worker, loc>>

-----------------------------------------------------------------------------
(* ... and proc_request.                                                   *)

ReplyKind(s) ==
    CASE s = "PASS_2" -> "hls_aare" [] s = "LLS_AARE" -> "lls_aare"
      [] s = "RLRE" -> "rlre" [] s = "PASS_4" -> "pass4" [] OTHER -> "empty"

Request(w) ==
    /\ GoTo(w, "request",
            CASE state = "PASS_4" -> "icload"
              [] state \in {"PASS_2", "LLS_AARE", "RLRE"} -> "init"
              [] OTHER -> "reset")
    /\ loc' = [loc EXCEPT ![w].job = IF state = "PASS_4" THEN "pass4" ELSE "init",
                          ![w].ret = IF state = "PASS_2" THEN 2 ELSE 1,
                          ![w].reply.kind = ReplyKind(state)]
    /\ UNCHANGED <<session, security, apdu, worker>>

\* build_init_response
BuildInit(w) ==
    /\ GoTo(w, "init", IF cipherFlag THEN "icload" ELSE "formed")
    /\ UNCHANGED <<session, security, apdu, worker, loc>>

\* get_lls_aare and get_rlre set the state once the reply is formatted.
Formed(w) ==
    /\ GoTo(w, "formed", "reset")
    /\ state' = CASE loc[w].reply.kind = "lls_aare" -> "RLRE"
                  [] loc[w].reply.kind = "rlre" -> "INIT"
                  [] OTHER -> state
    /\ UNCHANGED <<mhs, security, apdu, worker, loc>>

\* Fault: access_security is not reset after a handshake.
ResetStateNever(w) == FALSE

\* ret == 1; ret <= 1 after a release, which is the same
ResetState(w) == loc[w].ret = 1

Reset(w) ==
    /\ GoTo(w, "reset", IF req[w].tag = "RLRQ" THEN "send" ELSE "settle")
    /\ state' = IF ResetState(w) THEN "INIT" ELSE state
    /\ UNCHANGED <<mhs, security, apdu, worker, loc>>

\* Fault: every answer to an association request opens the data services.
NextStateData(w) == "data"

NextState(w) == IF loc[w].ret = 1 THEN "data" ELSE "connect"

Settle(w) ==
    /\ GoTo(w, "settle", "send")
    /\ mhs' = NextState(w)
    /\ UNCHANGED <<state, security, apdu, worker, loc>>

-----------------------------------------------------------------------------
(* Ciphering: the counter, the security control, the encryption.           *)

\* request_next_client_ic reads the counter ...
LoadIc(w) ==
    /\ GoTo(w, "icload", "icstore")
    /\ loc' = [loc EXCEPT ![w].ic = ic + 1]
    /\ UNCHANGED <<session, security, apdu, worker>>

\* ... and writes it.
StoreIc(w) ==
    /\ GoTo(w, "icstore", "control")
    /\ ic' = loc[w].ic
    /\ UNCHANGED <<session, cipherFlag, sc, control, apdu, worker, loc>>

\* set_security_control
SetControl(w) ==
    /\ GoTo(w, "control", "encrypt")
    /\ control' = CASE loc[w].job = "proof" -> {"auth"}
                    [] loc[w].job = "data" -> Flags
                    [] OTHER -> sc
    /\ UNCHANGED <<session, cipherFlag, sc, ic, apdu, worker, loc>>

\* data_security::encrypt: what it makes of a packet, given its argument and
\* security_control_.
Encrypted(flags) ==
    CASE "auth" \in flags /\ "enc" \in control -> "sealed"
      [] "auth" \in flags /\ "enc" \notin control -> "tag only"
      [] "auth" \notin flags /\ "enc" \in flags -> "encrypted"
      [] OTHER -> "failed"

\* The sc that each caller passes to encrypt.
Argument(w) == IF loc[w].job = "init" THEN sc ELSE Flags

Encrypt(w) ==
    /\ loc[w].reply.form # "overrun"
    /\ GoTo(w, "encrypt", CASE loc[w].job = "proof" -> "passed"
                            [] loc[w].job = "init" -> "formed"
                            [] loc[w].job = "pass4" -> "reset"
                            [] OTHER -> "send")
    /\ control' = {}
    /\ loc' = CASE loc[w].job = "proof" -> loc
                [] loc[w].job = "init" /\ Encrypted(Argument(w)) = "failed"
                   /\ loc[w].reply.kind = "hls_aare" -> [loc EXCEPT ![w].reply = Empty]
                [] OTHER -> [loc EXCEPT ![w].reply.form = Encrypted(Argument(w))]
    /\ UNCHANGED <<session, cipherFlag, sc, ic, apdu, worker>>

\* A reply of more than 995 bytes does not fit, ciphered, in call_encrypt's buffers of
\* 1024; what leaves them is not known.
EncryptOverrun(w) ==
    /\ GoTo(w, "encrypt", "send")
    /\ loc[w].job = "data" /\ req[w].tag = "get"
    /\ control' = {}
    /\ loc' = [loc EXCEPT ![w].reply.form = "overrun"]
    /\ UNCHANGED <<session, cipherFlag, sc, ic, apdu, worker>>

\* The proof for the challenge is stored, and with it the state.
Passed(w) ==
    /\ GoTo(w, "passed", "request")
    /\ state' = "PASS_2"
    /\ UNCHANGED <<mhs, security, apdu, worker, loc>>

-----------------------------------------------------------------------------
(* process_data.                                                           *)

\* A request that cannot be parsed, or is no get or action request, has no reply.
Data(w) ==
    /\ GoTo(w, "data", "format")
    /\ req[w].ok /\ req[w].tag # "other"
    /\ invokeId' = req[w].invoke
    /\ UNCHANGED <<session, security, isCipher, worker, loc>>

DataIgnored(w) ==
    /\ GoTo(w, "data", "idle")
    /\ ~req[w].ok \/ req[w].tag = "other"
    /\ UNCHANGED <<session, security, apdu, worker, loc>>

\* Fault: the invoke id, a byte, is taken as a signed number.
InvokeIdSigned == invokeId - 256

InvokeIdOfRequest == invokeId

\* The reply is formatted in a buffer of 1024 bytes, which a long one overruns.
Formatted(w, form) ==
    /\ GoTo(w, "format", "protect")
    /\ loc' = [loc EXCEPT ![w].reply = [kind |-> "data", form |-> form,
                                        invoke |-> InvokeIdOfRequest],
                          ![w].job = "data"]
    /\ UNCHANGED <<session, security, apdu, worker>>

Format(w) == Formatted(w, "clear")
FormatOverrun(w) == req[w].tag = "get" /\ Formatted(w, "overrun")

\* A get request for a block, or for an empty list, has no reply either.
Unanswered(w) ==
    /\ GoTo(w, "format", "idle")
    /\ req[w].tag = "get"
    /\ UNCHANGED <<session, security, apdu, worker, loc>>

\* A reply of more than 1536 bytes does not fit in a message_block and leaves it empty;
\* call_encrypt refuses an empty one.
TooLong(w) ==
    /\ GoTo(w, "protect", IF isCipher THEN "idle" ELSE "send")
    /\ loc[w].reply.form = "overrun"
    /\ loc' = [loc EXCEPT ![w].reply = Empty]
    /\ UNCHANGED <<session, security, apdu, worker>>

\* if (is_cipher_)
Protect(w) ==
    /\ GoTo(w, "protect", IF isCipher THEN "seal" ELSE "send")
    /\ UNCHANGED <<session, security, apdu, worker, loc>>

\* call_encrypt tests is_cipher_ again, and appends the packet to itself if another
\* request has reset it; a long one does not fit twice and stays as it is.
Seal(w) ==
    /\ GoTo(w, "seal", IF isCipher THEN "icload" ELSE "send")
    /\ \/ (isCipher \/ req[w].tag = "get") /\ UNCHANGED loc
       \/ /\ ~isCipher
          /\ loc[w].reply.form = "clear"
          /\ loc' = [loc EXCEPT ![w].reply.form = "doubled"]
    /\ UNCHANGED <<session, security, apdu, worker>>

\* channel_handler_->put
Send(w) ==
    /\ GoTo(w, "send", "idle")
    /\ req' = [req EXCEPT ![w] = NoRequest]
    /\ loc' = [loc EXCEPT ![w] = Blank]
    /\ UNCHANGED <<session, security, apdu, alone, overlapped>>

-----------------------------------------------------------------------------
Connect(w) ==
    \/ ResponseAarq(w) \/ ResponseRlrq(w) \/ ResponseAction(w) \/ ResponseOther(w)
    \/ Request(w) \/ BuildInit(w) \/ Formed(w) \/ Passed(w) \/ Reset(w) \/ Settle(w)
Cipher(w) ==
    LoadIc(w) \/ StoreIc(w) \/ SetControl(w) \/ Encrypt(w) \/ EncryptOverrun(w)
ProcessData(w) ==
    \/ Data(w) \/ DataIgnored(w) \/ Format(w) \/ FormatOverrun(w)
    \/ Unanswered(w) \/ TooLong(w) \/ Protect(w) \/ Seal(w)

Next ==
    \E w \in Workers :
        \/ \E r \in Requests : Take(w, r)
        \/ Dispatch(w) \/ IsData(w) \/ IsConnect(w) \/ Decrypt(w) \/ Send(w)
        \/ Connect(w) \/ Cipher(w) \/ ProcessData(w)

Spec == Init /\ [][Next]_vars

-----------------------------------------------------------------------------
(* Properties.                                                             *)

Kinds == {"empty", "hls_aare", "lls_aare", "rlre", "pass4", "data"}
Forms == {"clear", "sealed", "tag only", "encrypted", "failed", "doubled",
          "overrun"}
Labels == {"idle", "dispatch", "isdata", "isconnect", "decrypt", "response", "request",
           "init", "formed", "reset", "settle", "icload", "icstore", "control", "encrypt",
           "passed", "data", "format", "protect", "seal", "send"}

Replies == [kind : Kinds, form : Forms, invoke : Nat]
Jobs == {"none", "proof", "init", "pass4", "data"}
Locals == [ic : Nat, job : Jobs, ret : {1, 2}, reply : Replies]

\* Every field has its type, whatever the workers did to it.
TypeOK ==
    /\ mhs \in {"null", "connect", "data"}
    /\ state \in {"INIT", "PASS_2", "PASS_4", "LLS_AARE", "RLRE"}
    /\ cipherFlag \in BOOLEAN
    /\ sc \in SUBSET Flags
    /\ control \in SUBSET Flags
    /\ ic \in Nat
    /\ isCipher \in BOOLEAN
    /\ invokeId \in Nat
    /\ pc \in [Workers -> Labels]
    /\ req \in [Workers -> Requests \cup {NoRequest}]
    /\ loc \in [Workers -> Locals]
    /\ alone \in [Workers -> BOOLEAN]
    /\ overlapped \in BOOLEAN

Sending(w, kind) == pc[w] = "send" /\ loc[w].reply.kind = kind

\* Whatever overlapping requests did to the shared fields before, a data request
\* that is handled alone gets its own reply: with its invoke id, ciphered exactly
\* if the request was (meter_handler.cpp:99-242, 249-300, 422-603).  A reply that is
\* too long for the buffers it is made in is not a reply to rely on.
AloneIsAnsweredRight ==
    \A w \in Workers :
        alone[w] /\ Sending(w, "data") /\ loc[w].reply.form # "overrun" =>
            /\ loc[w].reply.invoke = req[w].invoke
            /\ loc[w].reply.form = IF req[w].glo THEN "sealed" ELSE "clear"

\* Between requests the security state is INIT, or a challenge waits for its
\* answer, even if requests overlapped: no handshake is left half done
\* (access_security.cpp:237-438, meter_handler.cpp:52-97).
QuietState == Busy = {} => state \in {"INIT", "PASS_2"}

\* As long as requests do not overlap, a waiting challenge means that the handler
\* is connecting, so that the next packet goes to access_security and not to the
\* data services (meter_handler.cpp:52-74, 279-295).
ChallengeIsConnecting ==
    ~overlapped /\ Busy = {} /\ state = "PASS_2" => mhs = "connect"

\* "do encrypt and authenticate" of the last handshake message
\* (access_security.cpp:521): for a client that waits for its replies.
Pass4IsSealed ==
    \A w \in Workers :
        ~overlapped /\ Sending(w, "pass4") => loc[w].reply.form = "sealed"
=============================================================================
