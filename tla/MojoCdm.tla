------------------------------- MODULE MojoCdm -------------------------------
(***************************************************************************)
(* MojoCdm (src/mojo/services/mojo_cdm.cc): the renderer-side proxy of a   *)
(* content decryption module living in another process.  Each MediaKeys   *)
(* call is sent over the remote_cdm_ pipe with its promise bound, through  *)
(* a weak pointer, to the reply callback; the remote CDM's session events  *)
(* arrive over binding_ and are forwarded to the callbacks given at        *)
(* construction.                                                           *)
(*                                                                         *)
(* A promise is a model value with a life: "unused", "pending" (its        *)
(* callback is held by the pipe), "resolved", "rejected", or "dropped"     *)
(* (destroyed unsettled).  The remote answers calls in any order; its      *)
(* replies come back in order over the pipe.  A crash of the remote CDM  *)
(* is not modelled: what the pipes do then is Mojo's, not this file's.     *)
(***************************************************************************)
EXTENDS Naturals, Sequences

CONSTANTS
  Promises,          \* promises the app may pass in
  MaxSessionEvents   \* bound on session events from the remote CDM

Methods == {"SetServerCertificate", "CreateSessionAndGenerateRequest", "LoadSession",
            "UpdateSession", "CloseSession", "RemoveSession"}
(* GURL of a session message's legacy_destination_url.                    *)
Urls == {"valid", "invalid", "empty"}
(* The URLs session_message_cb_ may receive: a valid one or the empty GURL. *)
ForwardedUrls == {"valid", "empty"}

VARIABLES
  alive,          \* the MojoCdm exists (its weak pointers are valid)
  promise,        \* promise id -> [state, method]
  remote,         \* calls the remote CDM is processing
  replies,        \* replies in flight on the remote_cdm_ pipe
  session_events, \* session events delivered so far
  message_urls    \* destination URLs handed to session_message_cb_

vars == <<alive, promise, remote, replies, session_events, message_urls>>

Init ==
  /\ alive = TRUE
  /\ promise = [p \in Promises |-> [state |-> "unused", method |-> "none"]]
  /\ remote = {}
  /\ replies = <<>>
  /\ session_events = 0
  /\ message_urls = {}

(* The six MediaKeys methods: send the call with the promise bound to      *)
(* OnPromiseResult through weak_factory_.GetWeakPtr().                     *)
Call(m) ==
  /\ alive
  /\ \E p \in Promises :
       /\ promise[p].state = "unused"
       /\ promise' = [promise EXCEPT ![p] = [state |-> "pending", method |-> m]]
       /\ remote' = remote \cup {p}
  /\ UNCHANGED <<alive, replies, session_events, message_urls>>

SetServerCertificate == Call("SetServerCertificate")
CreateSessionAndGenerateRequest == Call("CreateSessionAndGenerateRequest")
LoadSession == Call("LoadSession")
UpdateSession == Call("UpdateSession")
CloseSession == Call("CloseSession")
RemoveSession == Call("RemoveSession")

(* The remote CDM finishes a call with success or an exception.            *)
RemoteReply ==
  /\ alive
  /\ \E p \in remote, success \in BOOLEAN :
       /\ remote' = remote \ {p}
       /\ replies' = Append(replies, [promise |-> p, success |-> success])
  /\ UNCHANGED <<alive, promise, session_events, message_urls>>

(* RejectPromise: promise->reject(exception, system_code, message).        *)
RejectPromise(st) == [st EXCEPT !.state = "rejected"]

(* OnPromiseResult through the weak pointer: resolve on success, else      *)
(* RejectPromise; the reply of a destroyed MojoCdm is not run.  Its body   *)
(* is in mojo_cdm.h, which is not in the repository: only the weak-pointer *)
(* binding and RejectPromise are in mojo_cdm.cc.                           *)
OnPromiseResult ==
  /\ replies # <<>>
  /\ LET r == Head(replies) IN
       promise' = [promise EXCEPT ![r.promise] =
                     IF ~alive THEN @
                     ELSE IF r.success THEN [@ EXCEPT !.state = "resolved"]
                     ELSE RejectPromise(@)]
  /\ replies' = Tail(replies)
  /\ UNCHANGED <<alive, remote, session_events, message_urls>>

(* OnSessionMessage: an invalid, non-empty destination URL is replaced by  *)
(* the empty GURL before session_message_cb_ runs.                         *)
(* Mutant: the URL forwarded without the validity check.                   *)
VerifiedUrlUnchecked(u) == u

VerifiedUrl(u) == IF u = "invalid" THEN "empty" ELSE u

SessionEvent(forward_url) ==
  /\ alive
  /\ session_events < MaxSessionEvents
  /\ session_events' = session_events + 1
  /\ message_urls' = message_urls \cup forward_url
  /\ UNCHANGED <<alive, promise, remote, replies>>

OnSessionMessage == \E u \in Urls : SessionEvent({VerifiedUrl(u)})
OnSessionClosed == SessionEvent({})
OnLegacySessionError == SessionEvent({})
OnSessionKeysChange == SessionEvent({})
OnSessionExpirationUpdate == SessionEvent({})

(* ~MojoCdm: weak pointers die with the object, and the pipe with          *)
(* remote_cdm_; the callbacks it holds, and their promises, are destroyed. *)
Destroy ==
  /\ alive
  /\ alive' = FALSE
  /\ promise' = [p \in Promises |->
                   IF promise[p].state = "pending" THEN [promise[p] EXCEPT !.state = "dropped"]
                   ELSE promise[p]]
  /\ remote' = {}
  /\ UNCHANGED <<replies, session_events, message_urls>>

Next ==
  \/ SetServerCertificate \/ CreateSessionAndGenerateRequest \/ LoadSession
  \/ UpdateSession \/ CloseSession \/ RemoveSession
  \/ RemoteReply \/ OnPromiseResult
  \/ OnSessionMessage \/ OnSessionClosed \/ OnLegacySessionError
  \/ OnSessionKeysChange \/ OnSessionExpirationUpdate
  \/ Destroy

Spec == Init /\ [][Next]_vars

-----------------------------------------------------------------------------
TypeOK ==
  /\ alive \in BOOLEAN
  /\ promise \in [Promises -> [state : {"unused", "pending", "resolved", "rejected", "dropped"},
                               method : Methods \cup {"none"}]]
  /\ remote \subseteq Promises
  /\ replies \in Seq([promise : Promises, success : BOOLEAN])
  /\ message_urls \subseteq ForwardedUrls

=============================================================================
