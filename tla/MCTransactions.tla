--------------------------- MODULE MCTransactions ---------------------------
(* Small instances of Transactions: a user u with a quarter of the network  *)
(* and CPU, a contract c with the rest, and the system account s.           *)
EXTENDS Transactions

MCWindow == [net |-> 3, cpu |-> 3]
MCMaxBlock == [net |-> 4, cpu |-> 8]
MCTarget == [net |-> 2, cpu |-> 3]
MCPeriods == [net |-> 2, cpu |-> 2]
MCContract == <<1, 2>>
MCExpand == <<3, 2>>
MCMaxTrx == [net |-> 4, cpu |-> 4]

Weights(ram, net, cpu) == [ram |-> ram, net |-> net, cpu |-> cpu]
MCLimits ==
  [u |-> Weights(2, 1, 1), c |-> Weights(3, 3, 3), s |-> Weights(-1, -1, -1)]

Runs(auth, cpuLimit, ops) ==
  [auth |-> auth, payer |-> "u", cpuLimit |-> cpuLimit, ops |-> ops]
Send(id, program, payer, delay, replace) ==
  [name |-> "send", id |-> id, program |-> program, payer |-> payer, delay |-> delay,
   replace |-> replace]

MCProgram ==
  [plain    |-> Runs({"u"}, 0, <<>>),
   brief    |-> Runs({"u"}, 2, <<>>),
   both     |-> Runs({"u", "c"}, 0, <<>>),
   failing  |-> Runs({"u"}, 0, <<[name |-> "fail"]>>),
   sends    |-> Runs({"u"}, 0, <<Send(1, "plain", "u", 1, FALSE)>>),
   twice    |-> Runs({"c"}, 0, <<Send(1, "plain", "u", 0, FALSE), Send(2, "both", "c", 0, FALSE)>>),
   resends  |-> Runs({"c"}, 0, <<Send(1, "both", "c", 0, TRUE)>>),
   cancels  |-> Runs({"c"}, 0, <<[name |-> "cancel", id |-> 1]>>),
   deferred |-> Runs({"c"}, 0, <<Send(1, "failing", "u", 0, FALSE)>>),
   hurries  |-> Runs({"c"}, 0, <<Send(1, "brief", "u", 0, FALSE)>>),
   grows    |-> Runs({"u"}, 0, <<[name |-> "limits", account |-> "u", limits |-> Weights(3, 3, 3)]>>),
   shrinks  |-> Runs({"c"}, 0, <<[name |-> "limits", account |-> "u", limits |-> Weights(1, 0, 0)]>>)]

Input(id, program, expiration, delay) ==
  [id |-> <<id, 0, 0>>, program |-> program, expiration |-> expiration, delay |-> delay]

Plain ==
  [limits |-> MCLimits, blocks |-> 3, attempts |-> 4, gaps |-> {1}, times |-> {1, 2, 4},
   deadlines |-> {Unbounded}, leeway |-> 1, greylist |-> {}, onerror |-> <<>>, inputs |-> {}]

Paying ==
  [Plain EXCEPT !.gaps = {1, 2}, !.times = {1, 2, 5}, !.deadlines = {1, Unbounded},
                !.inputs = {Input("t1", "plain", 3, 0), Input("t2", "both", 1, 0),
                            Input("t3", "brief", 2, 0)}]
Greylisted == [Paying EXCEPT !.greylist = {"u"}, !.leeway = 0]
Sending ==
  [Plain EXCEPT !.inputs = {Input("t1", "twice", 3, 0), Input("t2", "cancels", 3, 0),
                            Input("t3", "resends", 3, 0)}, !.times = {1, 3}]
Failing(onerror, program) ==
  [Plain EXCEPT !.inputs = {Input("t1", program, 3, 0)}, !.onerror = onerror,
                !.times = {1, 2, 3, 5}]
Delaying ==
  [Plain EXCEPT !.inputs = {Input("t1", "plain", 2, 1), Input("t2", "sends", 1, 0)},
                !.gaps = {1, 3}, !.times = {1, 3}]
Limiting ==
  [Plain EXCEPT !.inputs = {Input("t1", "grows", 2, 0), Input("t2", "shrinks", 3, 0),
                            Input("t3", "sends", 3, 0)}, !.times = {1, 3}]

Handled == <<>>
Unhandled == <<[name |-> "fail"]>>

OverLimit ==
  [Plain EXCEPT !.inputs = {Input("t1", "hurries", 3, 0), Input("t2", "plain", 3, 0),
                            Input("t3", "shrinks", 3, 0)},
                !.onerror = Unhandled, !.times = {1, 2}]

All == {Paying, Greylisted, Sending, Delaying, Limiting, OverLimit}
       \cup {Failing(o, p) : o \in {Handled, Unhandled}, p \in {"deferred", "hurries"}}
OnlyOverLimit == {OverLimit}
OnlyOverrun == {Failing(Unhandled, "hurries")}
=============================================================================
