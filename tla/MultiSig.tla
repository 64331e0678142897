------------------------------ MODULE MultiSig ------------------------------
(***************************************************************************)
(* The multi-signature contract (contracts/dimension.msig) over the        *)
(* permissions of Authorization.  A proposal holds a transaction and the   *)
(* permission levels whose approval is requested or provided; exec asks    *)
(* the authority checker whether the provided ones suffice, and sends the  *)
(* transaction as a deferred one.  The contract is privileged.             *)
(***************************************************************************)
EXTENDS Authorization

VARIABLE proposals  \* <<proposer, name>> -> transaction, requested, provided

msigVars == <<vars, proposals>>

(* A transaction that calls the contract. *)
Call(name, levels, keys) ==
  /\ left > 0
  /\ CheckAuthorization([name |-> "call", action |-> <<"eonio.msig", name>>], levels, {}, keys, 0)
  /\ left' = left - 1
  /\ last' = [levels |-> levels, keys |-> keys, direct |-> TRUE]
  /\ UNCHANGED <<perms, links, now, plan>>

RequireAuth(levels, account) == \E level \in levels : level[1] = account

(* check_transaction_authorization without keys. *)
CheckTransaction(trx, provided) ==
  CheckAuthorization(trx.act, trx.levels, provided, {}, trx.delay)

Without(id) == [other \in DOMAIN proposals \ {id} |-> proposals[other]]

Propose(levels, id, trx, requested) ==
  /\ RequireAuth(levels, id[1])
  /\ trx.expiration >= now
  /\ id \notin DOMAIN proposals
  /\ CheckTransaction(trx, requested)
  /\ proposals' = (id :> [trx |-> trx, requested |-> requested, provided |-> {}]) @@ proposals
  /\ UNCHANGED delayed

Approve(levels, id, level) ==
  /\ level \in levels
  /\ level \in proposals[id].requested
  /\ proposals' = [proposals EXCEPT ![id].provided = @ \cup {level},
                                    ![id].requested = @ \ {level}]
  /\ UNCHANGED delayed

Unapprove(levels, id, level) ==
  /\ level \in levels
  /\ level \in proposals[id].provided
  /\ proposals' = [proposals EXCEPT ![id].requested = @ \cup {level},
                                    ![id].provided = @ \ {level}]
  /\ UNCHANGED delayed

(* Whoever is not the proposer has to wait for the expiration. *)
Cancel(levels, id, canceler) ==
  /\ RequireAuth(levels, canceler)
  /\ canceler # id[1] => proposals[id].trx.expiration < now
  /\ proposals' = Without(id)
  /\ UNCHANGED delayed

(* The levels whose approval was requested count before it is given. *)
ApprovalsRequested(proposal) == proposal.provided \cup proposal.requested

Approvals(proposal) == proposal.provided

(* A transaction that waits under the same sender id is not replaced, and a *)
(* deferred transaction never runs in the block that sends it.              *)
Exec(levels, id, executer) ==
  LET trx == proposals[id].trx
  IN /\ RequireAuth(levels, executer)
     /\ trx.expiration >= now
     /\ CheckTransaction(trx, Approvals(proposals[id]))
     /\ \A other \in delayed : other.id # id
     /\ delayed' = delayed \cup {[id |-> id, act |-> trx.act, levels |-> trx.levels,
                                  delay |-> trx.delay, due |-> now + Max({1, trx.delay})]}
     /\ proposals' = Without(id)

MsigCall(name, levels, keys) ==
  /\ Call(name, levels, keys)
  /\ \/ /\ name = "propose"
        /\ \E p \in plan.proposed : Propose(levels, p.id, p.trx, p.requested)
     \/ \E id \in DOMAIN proposals :
          \/ name = "approve" /\ \E level \in levels : Approve(levels, id, level)
          \/ name = "unapprove" /\ \E level \in levels : Unapprove(levels, id, level)
          \/ name = "cancel" /\ \E account \in plan.accounts : Cancel(levels, id, account)
          \/ name = "exec" /\ \E account \in plan.accounts : Exec(levels, id, account)

(* Time passes until the proposals have expired. *)
Wait ==
  /\ \E id \in DOMAIN proposals : proposals[id].trx.expiration >= now
  /\ now' = now + 1
  /\ last' = NoTrx
  /\ UNCHANGED <<perms, links, delayed, plan, left, proposals>>

MsigInit == Init /\ proposals = <<>>

MsigNext ==
  \/ Next /\ UNCHANGED proposals
  \/ /\ plan.proposed # {} /\ left > 0
     /\ \E name \in {"propose", "approve", "unapprove", "cancel", "exec"},
           levels \in Declared("msig"), keys \in SUBSET Key : MsigCall(name, levels, keys)
  \/ Wait

MsigSpec == MsigInit /\ [][MsigNext]_msigVars

-----------------------------------------------------------------------------
(* A proposed transaction is sent only while approvals that were given and  *)
(* not withdrawn grant every level it declares in the least model, and an   *)
(* approval is given only by a transaction whose keys grant that level:     *)
(* proposing, approving, withdrawing, executing and changes of the          *)
(* permissions in any order let no transaction through that its signers     *)
(* did not ask for.                                                         *)
RunsAsApproved ==
  [][/\ \A trx \in delayed' \ delayed : trx.id \in DOMAIN proposals =>
          trx.levels \subseteq GrantedBy(Env({}, DelayOf(trx.act, trx.delay)),
                                        proposals[trx.id].provided)
     /\ \A id \in DOMAIN proposals' :
          LET before == IF id \in DOMAIN proposals THEN proposals[id].provided ELSE {}
          IN proposals'[id].provided \ before
               \subseteq last'.levels \cap GrantedBy(Env(last'.keys, 0), {})]_msigVars
=============================================================================
