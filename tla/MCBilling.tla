----------------------------- MODULE MCBilling -----------------------------
(* Instances of Billing for TLC: one booking, three requests, two services, *)
(* one or two room services.                                               *)
EXTENDS Billing

CONSTANTS spa, tour, meal, bar

E1(item, qty) == <<[item |-> item, qty |-> qty]>>
Req(kind, want) == [kind |-> kind, want |-> want, at |-> 0]

FirstLists == { <<>>, <<[item |-> spa, qty |-> 1, price |-> 1, served |-> FALSE]>> }

Stay == { Req("checkIn", <<>>), Req("checkOut", <<>>),
          [kind |-> "serve", want |-> <<>>, at |-> 1] }
Services == { Req("addServices", E1(spa, 1)), Req("addServices", E1(tour, 1)),
              Req("addServices", E1(spa, 1) \o E1(tour, 1)) }
RoomServices == { Req("setRoomServices", E1(meal, 1)),
                  Req("setRoomServices", E1(bar, 1) \o E1(meal, 2)),
                  Req("updateRoomServices", E1(meal, 3)),
                  Req("removeRoomService", E1(meal, 1)) }
\* Any number is a quantity.
Oddities == { Req("addServices", E1(spa, -2)), Req("setRoomServices", E1(meal, 0)) }
AllOps == Stay \cup Services \cup RoomServices \cup Oddities
\* What can come between the bill and the end of a stay.
\* Requests are alike but for what they ask, which Init draws.
Symmetry == Permutations(Requests)
=============================================================================
