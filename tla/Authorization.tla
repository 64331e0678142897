---------------------------- MODULE Authorization ----------------------------
(***************************************************************************)
(* Permissions, links and the transactions that change them: the           *)
(* authorization manager (authorization_manager.cpp) and the native actions*)
(* of eosio_contract.cpp that work on its tables.                          *)
(*                                                                         *)
(* A transaction has one action, the levels it declares, the keys that     *)
(* signed it and a delay.  It is checked when it is pushed; without a delay*)
(* it is applied at once, otherwise it waits and is applied later without  *)
(* another check.                                                          *)
(***************************************************************************)
EXTENDS AuthorityChecker

CONSTANTS MaxDelay,     \* max_transaction_delay of the chain configuration
          Action,       \* <<contract, action name>> pairs users may call
          Scenario      \* first permissions, operations, authorities, delays and
                        \* number of the transactions of a run

VARIABLES perms,    \* existing level -> parent name and authority
          links,    \* <<account, action>> -> name of the required permission
          delayed,  \* transactions that wait, with the time they are due
          now,      \* time of the pending block
          plan,     \* the scenario
          left,     \* transactions that may still be pushed
          last      \* who signed the transaction of the last step, for the properties

vars == <<perms, links, delayed, now, plan, left, last>>

Owner == "owner"
Active == "active"
AnyName == "eonio.any"
CodeName == "eonio.code"
NoTrx == [levels |-> {}, keys |-> {}, direct |-> FALSE]

(* The sender in the id of a transaction that was not sent by a contract. *)
NoSender == ""

Exists(level) == level \in DOMAIN perms
Accounts == {level[1] : level \in DOMAIN perms}
Names == {level[2] : level \in Level}
Anything(account, action) == <<account, <<action[1], EmptyName>>>>

-----------------------------------------------------------------------------
(* The tree of an account's permissions.                                    *)

(* permission_object::satisfies: mine is other or one of its ancestors. *)
Covers(mine, other) ==
  LET up[n \in 0..Len(LevelOrder)] ==
        IF n = 0 THEN other
        ELSE IF Exists(up[n - 1]) THEN <<other[1], perms[up[n - 1]].parent>> ELSE up[n - 1]
  IN mine[1] = other[1] /\ \E n \in 0..Len(LevelOrder) : up[n] = mine

(* authority.hpp validate: the weights together reach the threshold. *)
Validate(auth) ==
  /\ auth.threshold > 0
  /\ MapThenSumSet(LAMBDA f : f[2], auth.keys) + MapThenSumSet(LAMBDA f : f[2], auth.waits)
       + MapThenSumSet(LAMBDA f : f[2], auth.accounts) >= auth.threshold

(* validate_authority_precondition *)
AccountsExist(auth) ==
  \A f \in auth.accounts :
    /\ f[1][1] \in Accounts
    /\ f[1][2] \in {Owner, Active, CodeName} \/ Exists(f[1])

-----------------------------------------------------------------------------
(* What an action requires of the declared levels.                          *)

LinkedName(account, action) ==
  LET any == Anything(account, action)
  IN IF <<account, action>> \in DOMAIN links THEN links[<<account, action>>]
     ELSE IF any \in DOMAIN links THEN links[any] ELSE EmptyName

MinimumName(account, action) ==
  IF LinkedName(account, action) = EmptyName THEN Active ELSE LinkedName(account, action)

MeetsMinimum(level, name) ==
  name = AnyName \/ (Exists(<<level[1], name>>) /\ Covers(level, <<level[1], name>>))

(* Creating a permission asks nothing of the parent. *)
UpdateAllowedForNew(act, level) ==
  /\ level[1] = act.account
  /\ Exists(<<act.account, act.permission>>) => Covers(level, <<act.account, act.permission>>)

UpdateAllowed(act, level) ==
  /\ level[1] = act.account
  /\ LET target == <<act.account, act.permission>>
         parent == <<act.account, act.parent>>
     IN IF Exists(target) THEN Covers(level, target)
                          ELSE Exists(parent) /\ Covers(level, parent)

Allowed(act, level) ==
  CASE act.name = "updateauth" -> UpdateAllowed(act, level)
    [] act.name = "deleteauth" ->
         /\ level[1] = act.account
         /\ Exists(<<act.account, act.permission>>)
         /\ Covers(level, <<act.account, act.permission>>)
    [] act.name = "linkauth" ->
         /\ level[1] = act.account
         /\ MeetsMinimum(level, MinimumName(act.account, act.action))
    [] act.name = "unlinkauth" ->
         /\ level[1] = act.account
         /\ LinkedName(act.account, act.action) # EmptyName
         /\ MeetsMinimum(level, LinkedName(act.account, act.action))
    [] act.name = "canceldelay" ->
         /\ Exists(act.level) /\ Covers(level, act.level)
         /\ act.id[1] = NoSender
         /\ \E trx \in delayed : trx.id = act.id /\ act.level \in trx.levels
    [] act.name = "call" -> MeetsMinimum(level, MinimumName(level[1], act.action))

(* check_canceldelay_authorization asks for the delay of the transaction. *)
DelayOf(act, delay) ==
  LET effective == IF delay >= MaxDelay THEN MaxWait ELSE delay
      cancelled == {trx.delay : trx \in {t \in delayed : act.name = "canceldelay" /\ t.id = act.id}}
  IN Max({effective} \cup cancelled)

Env(keys, delay) ==
  [auths |-> [level \in DOMAIN perms |-> perms[level].auth], keys |-> keys, delay |-> delay]

(* All declared levels in ascending order; the used keys add up. *)
CheckAll(levels, provided, keys, delay) ==
  FoldLeft(LAMBDA sofar, level :
             IF ~sofar.ok THEN sofar
             ELSE CheckLevel(Env(keys, delay), provided, sofar.used, level),
           [ok |-> TRUE, used |-> {}],
           SelectSeq(LevelOrder, LAMBDA level : level \in levels))

CheckAuthorization(act, levels, provided, keys, delay) ==
  /\ act.name # "call" => Cardinality(levels) = 1
  /\ \A level \in levels : Exists(level) /\ Allowed(act, level)
  /\ LET result == CheckAll(levels, provided, keys, DelayOf(act, delay))
     IN result.ok /\ result.used = keys

(* get_required_keys: of the candidate keys, those the checker uses. *)
RequiredKeys(levels, keys, delay) == CheckAll(levels, {}, keys, delay).used

-----------------------------------------------------------------------------
(* The native actions.                                                      *)

(* The parent is not looked at again when the action runs. *)
UpdateAuthUnchecked(act) ==
  LET target == <<act.account, act.permission>>
  IN /\ act.permission # act.parent
     /\ Validate(act.auth)
     /\ act.permission = Active => act.parent = Owner
     /\ act.permission = Owner <=> act.parent = EmptyName
     /\ \A f \in act.auth.waits : f[1] <= MaxDelay
     /\ AccountsExist(act.auth)
     /\ Exists(target) => perms[target].parent = act.parent
     /\ perms' = (target :> [parent |-> act.parent, auth |-> act.auth]) @@ perms
     /\ UNCHANGED links

UpdateAuth(act) ==
  LET target == <<act.account, act.permission>>
      parent == <<act.account, act.parent>>
  IN /\ act.permission # act.parent
     /\ Validate(act.auth)
     /\ act.permission = Active => act.parent = Owner
     /\ act.permission = Owner <=> act.parent = EmptyName
     /\ \A f \in act.auth.waits : f[1] <= MaxDelay
     /\ AccountsExist(act.auth)
     /\ act.permission # Owner => Exists(parent)
     /\ Exists(target) => perms[target].parent = act.parent
     /\ perms' = (target :> [parent |-> act.parent, auth |-> act.auth]) @@ perms
     /\ UNCHANGED links

DeleteAuth(act) ==
  LET target == <<act.account, act.permission>>
  IN /\ act.permission \notin {Owner, Active}
     /\ \A link \in DOMAIN links :
          link[1] = act.account => links[link] # act.permission
     /\ Exists(target)
     /\ \A level \in DOMAIN perms :
          level[1] = act.account => perms[level].parent # act.permission
     /\ perms' = [level \in DOMAIN perms \ {target} |-> perms[level]]
     /\ UNCHANGED links

(* The required permission has to exist for some account, not for this one. *)
LinkAuth(act) ==
  LET link == <<act.account, act.action>>
  IN /\ act.permission # EmptyName
     /\ act.permission = AnyName \/ \E level \in DOMAIN perms : level[2] = act.permission
     /\ link \in DOMAIN links => links[link] # act.permission
     /\ links' = (link :> act.permission) @@ links
     /\ UNCHANGED perms

UnlinkAuth(act) ==
  LET link == <<act.account, act.action>>
  IN /\ link \in DOMAIN links
     /\ links' = [l \in DOMAIN links \ {link} |-> links[l]]
     /\ UNCHANGED perms

ApplyNative(act) ==
  \/ act.name = "updateauth" /\ UpdateAuth(act)
  \/ act.name = "deleteauth" /\ DeleteAuth(act)
  \/ act.name = "linkauth" /\ LinkAuth(act)
  \/ act.name = "unlinkauth" /\ UnlinkAuth(act)
  \/ act.name \in {"call", "canceldelay"} /\ UNCHANGED <<perms, links>>
-----------------------------------------------------------------------------
(* Transactions.                                                            *)

Submitted(name) ==
  CASE name = "updateauth" ->
         {act \in [name : {name}, account : plan.accounts, permission : plan.names,
                   parent : plan.names \cup {Owner, EmptyName}, auth : plan.auths] :
            <<act.account, act.permission>> \in Level}
    [] name = "deleteauth" -> [name : {name}, account : plan.accounts, permission : plan.names]
    [] name = "linkauth" ->
         [name : {name}, account : plan.accounts, action : Action,
          permission : plan.names \cup {AnyName}]
    [] name = "unlinkauth" -> [name : {name}, account : plan.accounts, action : Action]
    [] name = "canceldelay" ->
         [name : {name}, id : {trx.id : trx \in delayed}, level : DOMAIN perms]
    [] name = "call" -> [name : {name}, action : Action]

Declared(name) ==
  {levels \in SUBSET DOMAIN perms :
     Cardinality(levels) = 1 \/ (name = "call" /\ Cardinality(levels) = 2)}

(* canceldelay does not reach what a contract has sent. *)
Cancelled(act) ==
  {trx \in delayed : act.name = "canceldelay" /\ trx.id = act.id /\ trx.id[1] = NoSender}

(* push_transaction: without a delay the action is applied at once. *)
Push(act, levels, keys, delay) ==
  LET trx == [id |-> <<NoSender, left>>, act |-> act, levels |-> levels, delay |-> delay,
              due |-> now + delay]
  IN /\ left > 0
     /\ CheckAuthorization(act, levels, {}, keys, delay)
     /\ left' = left - 1
     /\ last' = [levels |-> levels, keys |-> keys, direct |-> delay = 0]
     /\ IF delay = 0
        THEN /\ ApplyNative(act)
             /\ delayed' = delayed \ Cancelled(act)
        ELSE /\ delayed' = delayed \cup {trx}
             /\ UNCHANGED <<perms, links>>
     /\ UNCHANGED <<now, plan>>

(* A delayed transaction is retired when it is due: it is applied, or it    *)
(* fails or has expired and leaves nothing.                                 *)
Retire(trx) ==
  /\ trx.due <= now
  /\ \/ /\ ApplyNative(trx.act)
        /\ delayed' = delayed \ ({trx} \cup Cancelled(trx.act))
     \/ /\ delayed' = delayed \ {trx}
        /\ UNCHANGED <<perms, links>>
  /\ last' = NoTrx
  /\ UNCHANGED <<now, plan, left>>

NextBlock ==
  /\ \E trx \in delayed : trx.due > now
  /\ now' = now + 1
  /\ last' = NoTrx
  /\ UNCHANGED <<perms, links, delayed, plan, left>>

Init ==
  /\ plan \in Scenario
  /\ perms \in plan.first
  /\ links = <<>>
  /\ delayed = {}
  /\ now = 0
  /\ left = plan.pushes
  /\ last = NoTrx

Next ==
  \/ \E name \in {operation \in plan.operations : left > 0} :
       \E act \in Submitted(name), levels \in Declared(name) :
         /\ \A level \in levels : Allowed(act, level)
         /\ \E delay \in plan.delays, keys \in SUBSET Key : Push(act, levels, keys, delay)
  \/ \E trx \in delayed : Retire(trx)
  \/ NextBlock

Spec == Init /\ [][Next]_vars

-----------------------------------------------------------------------------
(* Properties.                                                              *)

(* The tables have their types, and every stored authority can be satisfied *)
(* when all of its keys, levels and waits are there (validate).             *)
TypeOK ==
  /\ \A level \in DOMAIN perms :
       /\ level \in Level
       /\ perms[level].parent \in Names \cup {EmptyName}
       /\ WeightIn(Env(Key, MaxWait), perms[level].auth,
                   Level) >= perms[level].auth.threshold
  /\ \A link \in DOMAIN links : link[1] \in Accounts /\ link[2] \in Action
  /\ now \in Nat /\ left \in 0..plan.pushes
  /\ \A trx \in delayed : trx.due \in Nat

(* The permissions of an account form a tree below owner that always has    *)
(* active as a child of owner: updateauth and deleteauth never leave a      *)
(* permission whose ancestors are gone, also not when a delayed updateauth  *)
(* runs after its parent was deleted.                                       *)
PermissionTree ==
  /\ TypeOK
  /\ \A account \in Accounts :
       /\ Exists(<<account, Active>>) /\ perms[<<account, Active>>].parent = Owner
       /\ \A level \in DOMAIN perms :
            level[1] = account => Covers(<<account, Owner>>, level)

(* What the checker accepts is granted in the least model of the            *)
(* authorities: neither its cache nor a cycle of levels adds weight.  And   *)
(* what the least model grants is accepted, unless a cycle or a chain       *)
(* longer than max_authority_depth is below the level.                      *)
CheckerIsExact ==
  \A keys \in SUBSET Key, delay \in 0..MaxDelay :
    LET env == Env(keys, delay)
        granted == GrantedBy(env, {})
        accepted == {level \in DOMAIN perms : CheckLevel(env, {}, {}, level).ok}
    IN accepted \subseteq granted /\ Shallow(env.auths) \cap granted \subseteq accepted

(* Who may change a level: its holder or one above it, for a new level its  *)
(* parent or above.                                                         *)
MayChange(holder, level, parent) ==
  IF Exists(level) THEN Covers(holder, level) ELSE Covers(holder, <<level[1], parent>>)

(* Who may change a link: the holder of what its action now asks for, or    *)
(* anybody of the account when that is eonio.any.                           *)
MayRelink(holder, link) ==
  LET name == MinimumName(link[1], link[2])
  IN holder[1] = link[1] /\ (name = AnyName \/ Covers(holder, <<link[1], name>>))

Changed(table, after) ==
  {row \in DOMAIN table \cup DOMAIN after :
     ~(row \in DOMAIN table /\ row \in DOMAIN after /\ table[row] = after[row])}

EditsPermission(act) == act.name \in {"updateauth", "deleteauth"}
EditsLink(act) == act.name \in {"linkauth", "unlinkauth"}
EditedLevel(act) == <<act.account, act.permission>>
EditedLink(act) == <<act.account, act.action>>

(* Whoever changes a permission or a link holds the permission, one above   *)
(* it, for a new one its parent or above, for a link what the linked action *)
(* asks for until then: the signing keys and the delay grant that level in  *)
(* the least model.  Where the change is delayed, that was so when its      *)
(* transaction was pushed, and what a delayed transaction changes in the    *)
(* end is the permission or the link that its action names.                 *)
OnlyHoldersChange ==
  [][LET held(delay) == last'.levels \cap GrantedBy(Env(last'.keys, delay), {})
         retired == {trx.act : trx \in delayed \ delayed'}
     IN /\ \A level \in Changed(perms, perms') :
             IF last'.direct
             THEN \E holder \in held(0) : MayChange(holder, level, perms'[level].parent)
             ELSE \E act \in retired : EditsPermission(act) /\ EditedLevel(act) = level
        /\ \A link \in Changed(links, links') :
             IF last'.direct
             THEN \E holder \in held(0) : MayRelink(holder, link)
             ELSE \E act \in retired : EditsLink(act) /\ EditedLink(act) = link
        /\ \A trx \in {t \in delayed' \ delayed : t.id[1] = NoSender} :
             LET act == trx.act
                 able == held(DelayOf(act, trx.delay))
             IN /\ act.name = "updateauth" =>
                     \E holder \in able : MayChange(holder, EditedLevel(act), act.parent)
                /\ act.name = "deleteauth" =>
                     \E holder \in able : Covers(holder, EditedLevel(act))
                /\ EditsLink(act) =>
                     \E holder \in able : MayRelink(holder, EditedLink(act))]_vars

(* Every link names a permission of its account: deleteauth refuses with    *)
(* "Cannot delete a linked authority. Unlink the authority first."          *)
LinksResolve ==
  \A link \in DOMAIN links : links[link] = AnyName \/ Exists(<<link[1], links[link]>>)

(* Signing with the keys that get_required_keys names is enough: the        *)
(* transaction is authorized and bears no irrelevant signature.             *)
RequiredKeysSuffice ==
  \A level \in DOMAIN perms, keys \in SUBSET Key :
    LET all == CheckLevel(Env(keys, 0), {}, {}, level)
        again == CheckLevel(Env(all.used, 0), {}, {}, level)
    IN all.ok => again.ok /\ again.used = all.used
=============================================================================
