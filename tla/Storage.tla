------------------------------- MODULE Storage -------------------------------
(***************************************************************************)
(* The contract's storage: the keys of state.rs, and the records that      *)
(* lib.rs assembles from the slots under them and takes apart again.       *)
(*                                                                         *)
(* The key-value store is external, modelled from how lib.rs uses it: a    *)
(* slot holds what was last written under its key, and read_state returns  *)
(* no bytes for a key never written.  A key is the sequence of its parts,  *)
(* and a slot holds a number or an account.                                *)
(***************************************************************************)
EXTENDS InterestModel, Oracle, Sequences

CONSTANT
    ACCOUNT_BYTES   \* 20 in the source

ASSUME StorageAssumption == ACCOUNT_BYTES \in Nat \ {0}

Byte == 0 .. 255

AccountIDs == [1 .. ACCOUNT_BYTES -> Byte]

ZERO_ACCOUNT == [i \in 1 .. ACCOUNT_BYTES |-> 0]

(***************************************************************************)
(* Keys.                                                                   *)
(***************************************************************************)
market_interest_key(m, field) == <<"mkt", m, "int", field>>

\* Faulty variant: one digit for every byte.
hex_low_digits(account) == [i \in 1 .. ACCOUNT_BYTES |-> account[i] % 16]

\* Two hexadecimal digits for every byte of the account.
hex(account) ==
    [i \in 1 .. 2 * ACCOUNT_BYTES |->
        IF i % 2 = 1 THEN account[(i + 1) \div 2] \div 16
        ELSE account[i \div 2] % 16]

user_position_key(account, m, field) == <<"pos", hex(account), m, field>>

global_key(field) == <<"glb", field>>

vault_key(m) == global_key(<<"vault", m>>)

(***************************************************************************)
(* Slots.                                                                  *)
(***************************************************************************)
Written(slots, key) == key \in DOMAIN slots

read(slots, key, missing) == IF Written(slots, key) THEN slots[key] ELSE missing

\* The slots after those of `writes` have been written.
written(slots, writes) ==
    [key \in DOMAIN slots \cup DOMAIN writes |->
        IF key \in DOMAIN writes THEN writes[key] ELSE slots[key]]

NoSlots == [key \in {} |-> 0]

(***************************************************************************)
(* InterestState.                                                          *)
(***************************************************************************)
InterestFields == {"br", "sr", "bi", "si", "ts", "tb", "tp"}

at_least_one(index) == IF index = 0 THEN WAD ELSE index

load_interest(slots, m) ==
    LET field(f) == read(slots, market_interest_key(m, f), 0)
    IN  [borrow_rate_bps |-> field("br"), supply_rate_bps |-> field("sr"),
         borrow_index |-> at_least_one(field("bi")),
         supply_index |-> at_least_one(field("si")),
         last_update_timestamp |-> field("ts"),
         total_borrows |-> field("tb"), total_supply |-> field("tp")]

interest_field(s, f) ==
    CASE f = "br" -> s.borrow_rate_bps
      [] f = "sr" -> s.supply_rate_bps
      [] f = "bi" -> s.borrow_index
      [] f = "si" -> s.supply_index
      [] f = "ts" -> s.last_update_timestamp
      [] f = "tb" -> s.total_borrows
      [] f = "tp" -> s.total_supply

\* What store_interest writes.
interest_slots(m, s) ==
    [key \in {market_interest_key(m, f) : f \in InterestFields} |->
        interest_field(s, key[4])]

load_all_interest(slots) == [m \in Markets |-> load_interest(slots, m)]

\* What store_all_interest writes.
all_interest_slots(states) ==
    [key \in {market_interest_key(m, f) : m \in Markets, f \in InterestFields} |->
        interest_field(states[key[2]], key[4])]

(***************************************************************************)
(* Position and shares of an account.                                      *)
(***************************************************************************)
PositionFields == {"co", "de", "bi"}

load_position(slots, account) ==
    [m \in Markets |->
        [collateral |-> read(slots, user_position_key(account, m, "co"), 0),
         debt |-> read(slots, user_position_key(account, m, "de"), 0),
         user_borrow_index |-> read(slots, user_position_key(account, m, "bi"), WAD)]]

position_field(p, f) ==
    CASE f = "co" -> p.collateral
      [] f = "de" -> p.debt
      [] f = "bi" -> p.user_borrow_index

\* What store_position writes.
position_slots(account, pos) ==
    [key \in {user_position_key(account, m, f) : m \in Markets, f \in PositionFields} |->
        position_field(pos[key[3]], key[4])]

load_supply_shares(slots, account, m) ==
    read(slots, user_position_key(account, m, "sh"), 0)

\* What store_supply_shares writes.
shares_slot(account, m, shares) ==
    [key \in {user_position_key(account, m, "sh")} |-> shares]

(***************************************************************************)
(* The registered vault of a market, the zero account until there is one.  *)
(***************************************************************************)
load_vault_account(slots, m) == read(slots, vault_key(m), ZERO_ACCOUNT)

vault_slot(m, account) == [key \in {vault_key(m)} |-> account]
=============================================================================
