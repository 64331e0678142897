--------------------------- MODULE MCAuthorization ---------------------------
(* Small instances of Authorization: two accounts, two or three keys.       *)
EXTENDS MultiSig

MCKeys == <<"k1", "k2">>
MCLevels == <<<<"a", "active">>, <<"a", "owner">>, <<"a", "p">>, <<"a", "q">>,
              <<"b", "active">>, <<"b", "owner">>>>
MCActions == {<<"c", "t">>, <<"c", "">>}

Auth(threshold, keys, accounts, waits) ==
  [threshold |-> threshold, keys |-> keys, accounts |-> accounts, waits |-> waits]

One(key) == Auth(1, {<<key, 1>>}, {}, {})
Either(level) == Auth(1, {<<"k2", 1>>}, {<<level, 1>>}, {})
Both(level) == Auth(2, {<<"k2", 1>>}, {<<level, 1>>}, {})
Only(level) == Auth(1, {}, {<<level, 1>>}, {})
Waiting == Auth(2, {<<"k1", 1>>}, {}, {<<1, 1>>})
Unreachable == Auth(3, {<<"k1", 1>>, <<"k2", 1>>}, {}, {})

Row(parent, auth) == [parent |-> parent, auth |-> auth]

Table(mine, below, theirs, beside) ==
     (<<"a", "owner">> :> Row("", One("k1")))
  @@ (<<"a", "active">> :> Row("owner", mine))
  @@ (<<"a", "p">> :> Row("active", below))
  @@ (<<"b", "owner">> :> Row("", beside))
  @@ (<<"b", "active">> :> Row("owner", theirs))

(* Every way in which two accounts refer to each other and to themselves. *)
Shapes ==
  LET any == {One("k1"), Waiting, Only(<<"a", "p">>), Both(<<"b", "active">>),
              Either(<<"a", "active">>), Both(<<"b", "owner">>)}
  IN [first      |-> {Table(m, b, t, o) : m \in any, b \in any, t \in any, o \in any},
      operations |-> {}, accounts |-> {}, names |-> {}, auths |-> {}, delays |-> {}, pushes |-> 0, proposed |-> {}]

Plain == Table(One("k1"), One("k2"), Both(<<"a", "p">>), One("k2"))

Editing ==
  [first      |-> {Plain},
   operations |-> {"updateauth", "deleteauth"},
   accounts   |-> {"a", "b"}, names |-> Names,
   auths      |-> {One("k2"), Unreachable}, delays |-> {0}, pushes |-> 3, proposed |-> {}]

Linking ==
  [first      |-> {Plain},
   operations |-> {"deleteauth", "linkauth", "unlinkauth"},
   accounts   |-> {"a", "b"}, names |-> Names,
   auths      |-> {}, delays |-> {0}, pushes |-> 3, proposed |-> {}]

Calling ==
  [first      |-> {Table(One("k1"), One("k2"), Both(<<"a", "p">>), One("k2"))},
   operations |-> {"linkauth", "call"},
   accounts   |-> {"a", "b"}, names |-> Names,
   auths      |-> {}, delays |-> {0}, pushes |-> 2, proposed |-> {}]

Delaying ==
  [first      |-> {   (<<"a", "owner">> :> Row("", One("k2")))
                   @@ (<<"a", "active">> :> Row("owner", Waiting))
                   @@ (<<"a", "p">> :> Row("active", One("k2")))},
   operations |-> {"updateauth", "deleteauth", "linkauth", "unlinkauth", "canceldelay"},
   accounts   |-> {"a"}, names |-> {"active", "p", "q"},
   auths      |-> {One("k1")}, delays |-> {0, 1}, pushes |-> 2, proposed |-> {}]

(* a.active needs both levels of b; a proposal by a asks for them. *)
Proposing ==
  LET needed == {<<"b", "active">>, <<"b", "owner">>}
      OfB(auth) == (<<"a", "active">> :> Row("owner", Auth(2, {}, {<<l, 1>> : l \in needed}, {})))
                   @@ Table(One("k1"), One("k1"), auth, One("k2"))
      trx(delay) == [act |-> [name |-> "call", action |-> <<"c", "t">>],
                     levels |-> {<<"a", "active">>}, delay |-> delay, expiration |-> 1]
  IN [first      |-> {OfB(One("k1"))},
      operations |-> {"updateauth"},
      accounts   |-> {"a", "b"}, names |-> {"active"},
      auths      |-> {One("k2")}, delays |-> {0}, pushes |-> 5,
      proposed   |-> {[id |-> <<"a", "x">>, trx |-> trx(delay), requested |-> needed] :
                        delay \in {0, 1}}]

(* b.active accepts b.owner or a.active; a.active needs a.p and k2, b.owner *)
(* needs a.p alone, which k1 grants.                                        *)
Reverted ==
  [Shapes EXCEPT !.first =
     {(<<"b", "active">> :> Row("owner",
          Auth(1, {}, {<<<<"a", "active">>, 1>>, <<<<"b", "owner">>, 1>>}, {})))
      @@ Table(Both(<<"a", "p">>), One("k1"), One("k1"), Only(<<"a", "p">>))}]
OnlyReverted == {Reverted}

MCAuthority ==
  {One("k1"), One("k2"), Waiting, Unreachable, Only(<<"a", "p">>), Both(<<"a", "p">>),
   Both(<<"b", "active">>), Both(<<"b", "owner">>), Either(<<"a", "active">>),
   Auth(2, {}, {<<<<"b", "active">>, 1>>, <<<<"b", "owner">>, 1>>}, {}),
   Auth(1, {}, {<<<<"a", "active">>, 1>>, <<<<"b", "owner">>, 1>>}, {})}

All == {Shapes, Editing, Linking, Calling, Delaying, Proposing}
OnlyEditing == {Editing}
OnlyDelaying == {Delaying}
OnlyCalling == {Calling}
OnlyShapes == {Shapes}
OnlyLinking == {Linking}
OnlyProposing == {Proposing}
=============================================================================
