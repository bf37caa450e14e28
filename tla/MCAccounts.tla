----------------------------- MODULE MCAccounts -----------------------------
(* One user has registered with one passkey before the calls and blocks of the
   instance begin; usernames are one name in two casings. *)
EXTENDS Accounts

CONSTANT p1

MCUsernames == {<<"bob", "lower">>, <<"bob", "upper">>}

MCEvents == {event \in Event : event.kind = "deposited" \/ event.who = p1}

MCInit ==
    /\ users = <<[username |-> NoUsername, home_chain |-> Null]>>
    /\ credentials = [p \in Passkeys |-> [user |-> IF p = p1 THEN 1 ELSE Null, active |-> p = p1]]
    /\ NoRequests /\ NothingIndexed

MCSpec == MCInit /\ [][AccountsNext]_vars /\ AccountsFairness
=============================================================================
