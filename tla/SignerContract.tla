--------------------------- MODULE SignerContract ---------------------------
(***************************************************************************)
(* What a destroyable crypto.Signer promises its callers, whether it is a  *)
(* signer.Key or a signer.Pool: Sign and Destroy take effect at one moment *)
(* between call and return; a Sign succeeds only on a live signer; it      *)
(* reports a destroyed signer only once the signer is destroyed as a       *)
(* whole; and every call returns.                                          *)
(***************************************************************************)
CONSTANTS Callers, Signers, NoSigner

VARIABLES status, \* status[s]: has s been created, destroyed?
          doing,  \* doing[c]: the call c is making ...
          on,     \* ... on[c]: on which signer ...
          res     \* ... res[c]: and how it ends, once that is settled

contractVars == <<status, doing, on, res>>

ContractTypeOK ==
  /\ status \in [Signers -> {"absent", "alive", "dead"}]
  /\ doing \in [Callers -> {"none", "sign", "destroy"}]
  /\ on \in [Callers -> Signers \cup {NoSigner}]
  /\ res \in [Callers -> {"pending", "ok", "error", "dead", "done"}]

Init ==
  /\ status = [s \in Signers |-> "absent"]
  /\ doing = [c \in Callers |-> "none"]
  /\ on = [c \in Callers |-> NoSigner]
  /\ res = [c \in Callers |-> "pending"]

Create(s) ==
  /\ status[s] = "absent"
  /\ status' = [status EXCEPT ![s] = "alive"]
  /\ UNCHANGED <<doing, on, res>>

Invoke(c, o, s) ==
  /\ doing[c] = "none"
  /\ status[s] # "absent"
  /\ doing' = [doing EXCEPT ![c] = o]
  /\ on' = [on EXCEPT ![c] = s]
  /\ UNCHANGED <<status, res>>

Settle(c, o, r) ==
  /\ doing[c] = o
  /\ res[c] = "pending"
  /\ res' = [res EXCEPT ![c] = r]
  /\ UNCHANGED <<doing, on>>

\* A signature is made while the signer is alive ...
Succeed(c) == Settle(c, "sign", "ok") /\ status[on[c]] = "alive" /\ UNCHANGED status

\* ... or the token or the options refuse, at any time ...
Fail(c) == Settle(c, "sign", "error") /\ UNCHANGED status

\* ... or the signer is destroyed already.
Refuse(c) == Settle(c, "sign", "dead") /\ status[on[c]] = "dead" /\ UNCHANGED status

\* Destroying twice is allowed and changes nothing the second time.
Kill(c) ==
  /\ Settle(c, "destroy", "done")
  /\ status' = [status EXCEPT ![on[c]] = "dead"]

Return(c) ==
  /\ res[c] # "pending"
  /\ doing' = [doing EXCEPT ![c] = "none"]
  /\ on' = [on EXCEPT ![c] = NoSigner]
  /\ res' = [res EXCEPT ![c] = "pending"]
  /\ UNCHANGED status

Finish(c) == Succeed(c) \/ Fail(c) \/ Refuse(c) \/ Kill(c) \/ Return(c)

Next ==
  \/ \E s \in Signers : Create(s)
  \/ \E c \in Callers, o \in {"sign", "destroy"}, s \in Signers : Invoke(c, o, s)
  \/ \E c \in Callers : Finish(c)

SafeSpec == Init /\ [][Next]_contractVars

\* Every call that was made ends and returns.
Spec == SafeSpec /\ \A c \in Callers : WF_contractVars(Finish(c))
=============================================================================
