----------------------------- MODULE EntryProofs -----------------------------
(***************************************************************************)
(* The entry points, for every set of senders, every answer of the host    *)
(* for their accounts, every size of an account and all parameters.        *)
(*                                                                         *)
(* Keys and vaults: the keys of two accounts differ because hex loses      *)
(* nothing; the keys of two records differ in their first part.  OneVault  *)
(* is inductive once a balance is known for every vault and market (VInv), *)
(* and needs of the handlers only that they leave the registered vaults    *)
(* alone.                                                                  *)
(*                                                                         *)
(* Books: every store is loaded again as it was meant (InterestStored,     *)
(* AllInterestStored, PositionStored, SharesStored) when the records in    *)
(* storage are of their types, with indexes of at least 1.0 and no debt at *)
(* an index its market has not reached: EInv, which is inductive.  A load  *)
(* needs it, for an index stored as 0 would be read as 1.0.  With it each  *)
(* entry point is the action of LendingController of that name, provided   *)
(* that the contract takes the sender for the caller (Unambiguous), and    *)
(* the other steps move none of the books.                                 *)
(*                                                                         *)
(* Carried over: a behaviour of the entry points is therefore one of the   *)
(* controller, read through the records in storage.  The instance          *)
(* Controller holds the theorems proved of the controller for that         *)
(* reading; the lemmas of that name show that its operators are those of   *)
(* the books and that its assumptions hold.                                *)
(***************************************************************************)
EXTENDS EntryPoints, ArithmeticLemmas, SequenceTheorems

(***************************************************************************)
(* Keys.                                                                   *)
(***************************************************************************)

\* A byte is its two digits.
LEMMA HexDigits ==
    ASSUME NEW account \in AccountIDs, NEW i \in 1 .. ACCOUNT_BYTES
    PROVE  account[i] = 16 * hex(account)[2 * i - 1] + hex(account)[2 * i]
<1>1. account[i] \in 0 .. 255 /\ ACCOUNT_BYTES \in Nat
  BY StorageAssumption DEF AccountIDs, Byte
<1>2. /\ 2 * i - 1 \in 1 .. 2 * ACCOUNT_BYTES /\ 2 * i \in 1 .. 2 * ACCOUNT_BYTES
      /\ (2 * i - 1) % 2 = 1 /\ (2 * i) % 2 = 0
      /\ ((2 * i - 1) + 1) \div 2 = i /\ (2 * i) \div 2 = i
  BY <1>1
<1>3. hex(account)[2 * i - 1] = account[i] \div 16
  BY <1>2 DEF hex
<1>4. hex(account)[2 * i] = account[i] % 16
  BY <1>2 DEF hex
<1> QED BY <1>1, <1>3, <1>4

\* Two accounts have the same key only when they are the same account.
LEMMA HexInjective ==
    ASSUME NEW a \in AccountIDs, NEW b \in AccountIDs, hex(a) = hex(b)
    PROVE  a = b
<1>1. \A i \in 1 .. ACCOUNT_BYTES : a[i] = b[i]
  BY HexDigits
<1>2. a = [i \in 1 .. ACCOUNT_BYTES |-> a[i]] /\ b = [i \in 1 .. ACCOUNT_BYTES |-> b[i]]
  BY DEF AccountIDs
<1> QED BY <1>1, <1>2

\* What the parts of a key say of it.
LEMMA KeyParts ==
    ASSUME NEW account, NEW m, NEW n, NEW f
    PROVE  /\ market_interest_key(n, f) # vault_key(m)
           /\ user_position_key(account, n, f) # vault_key(m)
           /\ vault_key(n) = vault_key(m) => n = m
<1>1. market_interest_key(n, f)[1] = "mkt"
  BY DEF market_interest_key
<1>2. user_position_key(account, n, f)[1] = "pos"
  BY DEF user_position_key
<1>3. vault_key(m)[1] = "glb" /\ vault_key(m)[2][2] = m /\ vault_key(n)[2][2] = n
  BY DEF vault_key, global_key
<1> QED BY <1>1, <1>2, <1>3

(***************************************************************************)
(* Records: a position that is stored is the position that is loaded, and  *)
(* storing it changes nothing that is loaded of another account, nor the   *)
(* shares of the same one (lib.rs:145-194).  What a test with a few        *)
(* accounts cannot show is that hex keeps every two of them apart.         *)
(***************************************************************************)
LEMMA PositionKeys ==
    ASSUME NEW a \in AccountIDs, NEW b \in AccountIDs, NEW m, NEW n, NEW f, NEW g,
           user_position_key(a, m, f) = user_position_key(b, n, g)
    PROVE  a = b /\ m = n /\ f = g
<1>1. /\ user_position_key(a, m, f)[2] = hex(a) /\ user_position_key(b, n, g)[2] = hex(b)
      /\ user_position_key(a, m, f)[3] = m /\ user_position_key(b, n, g)[3] = n
      /\ user_position_key(a, m, f)[4] = f /\ user_position_key(b, n, g)[4] = g
  BY DEF user_position_key
<1> QED BY <1>1, HexInjective

\* A slot that was just written, and one that was not.
LEMMA ReadWritten ==
    ASSUME NEW old, NEW writes, NEW key, NEW missing
    PROVE  /\ key \in DOMAIN writes => read(written(old, writes), key, missing) = writes[key]
           /\ key \notin DOMAIN writes =>
                 read(written(old, writes), key, missing) = read(old, key, missing)
  BY DEF read, written, Written

\* What store_position writes under a key of its account.
LEMMA PositionSlot ==
    ASSUME NEW a, NEW pos, NEW m \in Markets, NEW f \in PositionFields
    PROVE  /\ user_position_key(a, m, f) \in DOMAIN position_slots(a, pos)
           /\ position_slots(a, pos)[user_position_key(a, m, f)]
                 = position_field(pos[m], f)
<1>1. user_position_key(a, m, f)[3] = m /\ user_position_key(a, m, f)[4] = f
  BY DEF user_position_key
<1> QED BY <1>1 DEF position_slots

\* Where store_position does not write.
LEMMA PositionNoSlot ==
    ASSUME NEW a \in AccountIDs, NEW b \in AccountIDs, NEW pos, NEW m, NEW f,
           a # b \/ f \notin PositionFields
    PROVE  user_position_key(b, m, f) \notin DOMAIN position_slots(a, pos)
  BY PositionKeys DEF position_slots

THEOREM PositionStored ==
    ASSUME NEW old, NEW a \in AccountIDs,
           NEW pos \in [Markets -> [collateral : U128, debt : U128,
                                    user_borrow_index : U128]]
    PROVE  /\ load_position(written(old, position_slots(a, pos)), a) = pos
           /\ \A b \in AccountIDs \ {a} :
                 load_position(written(old, position_slots(a, pos)), b)
                     = load_position(old, b)
           /\ \A b \in AccountIDs, m \in Markets :
                 load_supply_shares(written(old, position_slots(a, pos)), b, m)
                     = load_supply_shares(old, b, m)
<1> DEFINE new == written(old, position_slots(a, pos))
<1>1. ASSUME NEW m \in Markets
      PROVE  load_position(new, a)[m] = pos[m]
  <2>1. /\ "co" \in PositionFields /\ "de" \in PositionFields /\ "bi" \in PositionFields
    BY DEF PositionFields
  <2>2. /\ read(new, user_position_key(a, m, "co"), 0) = pos[m].collateral
        /\ read(new, user_position_key(a, m, "de"), 0) = pos[m].debt
        /\ read(new, user_position_key(a, m, "bi"), WAD) = pos[m].user_borrow_index
    BY <2>1, ReadWritten, PositionSlot DEF position_field
  <2> QED BY <2>2 DEF load_position
<1>2. ASSUME NEW b \in AccountIDs \ {a}
      PROVE  load_position(new, b) = load_position(old, b)
  <2>1. ASSUME NEW m \in Markets, NEW f, NEW missing
        PROVE  read(new, user_position_key(b, m, f), missing)
                   = read(old, user_position_key(b, m, f), missing)
    BY ReadWritten, PositionNoSlot
  <2> QED BY <2>1, Zenon DEF load_position
<1>3. ASSUME NEW b \in AccountIDs, NEW m \in Markets
      PROVE  load_supply_shares(new, b, m) = load_supply_shares(old, b, m)
  <2>1. "sh" \notin PositionFields
    BY DEF PositionFields
  <2> QED BY <2>1, ReadWritten, PositionNoSlot DEF load_supply_shares
<1>4. load_position(new, a) = pos
  <2>1. load_position(new, a) = [m \in Markets |-> load_position(new, a)[m]]
    BY DEF load_position
  <2>2. pos = [m \in Markets |-> pos[m]]
    OBVIOUS
  <2> QED BY <1>1, <2>1, <2>2
<1> QED BY <1>2, <1>3, <1>4

(***************************************************************************)
(* Which calls touch a registered vault.                                   *)
(***************************************************************************)

\* Every market's vault is as it was.
VaultsKept == \A n \in Markets : vault(n)' = vault(n)

LEMMA WrittenKeepsVaults ==
    ASSUME NEW writes, NEW n, vault_key(n) \notin DOMAIN writes
    PROVE  load_vault_account(written(slots, writes), n) = vault(n)
  BY DEF load_vault_account, vault, written, read, Written

LEMMA WrittenTwiceKeepsVaults ==
    ASSUME NEW writes, NEW writes2, NEW n,
           vault_key(n) \notin DOMAIN writes, vault_key(n) \notin DOMAIN writes2
    PROVE  load_vault_account(written(written(slots, writes), writes2), n) = vault(n)
  BY DEF load_vault_account, vault, written, read, Written

\* No record of a handler is under the key of a vault.
LEMMA RecordsApart ==
    ASSUME NEW n
    PROVE  /\ \A m, s : vault_key(n) \notin DOMAIN interest_slots(m, s)
           /\ \A states : vault_key(n) \notin DOMAIN all_interest_slots(states)
           /\ \A u, pos : vault_key(n) \notin DOMAIN position_slots(u, pos)
           /\ \A u, m, sh : vault_key(n) \notin DOMAIN shares_slot(u, m, sh)
<1>1. ASSUME NEW m, NEW s PROVE vault_key(n) \notin DOMAIN interest_slots(m, s)
  BY KeyParts DEF interest_slots
<1>2. ASSUME NEW states PROVE vault_key(n) \notin DOMAIN all_interest_slots(states)
  BY KeyParts DEF all_interest_slots
<1>3. ASSUME NEW u, NEW pos PROVE vault_key(n) \notin DOMAIN position_slots(u, pos)
  BY KeyParts DEF position_slots
<1>4. ASSUME NEW u, NEW m, NEW sh PROVE vault_key(n) \notin DOMAIN shares_slot(u, m, sh)
  BY KeyParts DEF shares_slot
<1> QED BY <1>1, <1>2, <1>3, <1>4

\* A step that writes records of handlers, or none, moves no vault.
LEMMA HandlersKeepVaults ==
    ASSUME \/ slots' = slots
           \/ \E m, s, u, n, sh :
                 slots' = written(written(slots, interest_slots(m, s)),
                                  shares_slot(u, n, sh))
           \/ \E u, pos : slots' = written(slots, position_slots(u, pos))
           \/ \E u, pos, states :
                 slots' = written(written(slots, position_slots(u, pos)),
                                  all_interest_slots(states))
           \/ \E u, pos, m, s :
                 slots' = written(written(slots, position_slots(u, pos)),
                                  interest_slots(m, s))
    PROVE  VaultsKept
<1>1. SUFFICES ASSUME NEW n \in Markets
               PROVE  load_vault_account(slots', n) = vault(n)
  BY DEF VaultsKept, vault
<1>2. CASE slots' = slots
  BY <1>2 DEF vault
<1>3. CASE \E m, s, u, k, sh :
              slots' = written(written(slots, interest_slots(m, s)),
                               shares_slot(u, k, sh))
  BY <1>3, WrittenTwiceKeepsVaults, RecordsApart
<1>4. CASE \E u, pos : slots' = written(slots, position_slots(u, pos))
  BY <1>4, WrittenKeepsVaults, RecordsApart
<1>5. CASE \E u, pos, states :
              slots' = written(written(slots, position_slots(u, pos)),
                               all_interest_slots(states))
  BY <1>5, WrittenTwiceKeepsVaults, RecordsApart
<1>6. CASE \E u, pos, m, s :
              slots' = written(written(slots, position_slots(u, pos)),
                               interest_slots(m, s))
  BY <1>6, WrittenTwiceKeepsVaults, RecordsApart
<1> QED BY <1>2, <1>3, <1>4, <1>5, <1>6

(***************************************************************************)
(* Balances.                                                               *)
(***************************************************************************)

\* There is a balance for every vault and market.
Rows == vault_balance = [v \in Vaults |-> [m \in Markets |-> vault_balance[v][m]]]

VInv == Rows /\ OneVault

\* The balances with one of them changed.
Changed(m, balance) == [vault_balance EXCEPT ![vault(m)][m] = balance]

LEMMA ChangedRows ==
    ASSUME VInv, VaultsKept, NEW m \in Markets, NEW balance,
           vault_balance' = Changed(m, balance)
    PROVE  VInv'
<1>1. Rows'
  BY DEF VInv, Rows, Changed
<1>2. ASSUME NEW v \in Vaults, NEW n \in Markets, vault_balance'[v][n] > 0
      PROVE  v \in {ZERO_ACCOUNT, vault(n)'}
  <2>1. CASE v = vault(m) /\ n = m
    BY <2>1 DEF VaultsKept
  <2>2. CASE ~(v = vault(m) /\ n = m)
    <3>1. vault_balance'[v][n] = vault_balance[v][n]
      BY <2>2 DEF VInv, Rows, Changed
    <3> QED BY <1>2, <3>1 DEF VInv, OneVault, VaultsKept
  <2> QED BY <2>1, <2>2
<1> QED BY <1>1, <1>2 DEF VInv, OneVault

LEMMA SameRows ==
    ASSUME VInv, VaultsKept, vault_balance' = vault_balance
    PROVE  VInv'
  BY DEF VInv, Rows, OneVault, VaultsKept

(***************************************************************************)
(* Steps.                                                                  *)
(***************************************************************************)
LEMMA VaultInit == EntryInit => VInv
  BY DEF EntryInit, VInv, Rows, OneVault

LEMMA VaultSupply ==
    ASSUME VInv, NEW u, NEW m \in Markets, NEW raw, supply(u, m, raw)
    PROVE  VInv'
<1>1. VaultsKept
  BY HandlersKeepVaults DEF supply, SupplyAt
<1>2. PICK balance : vault_balance' = Changed(m, balance)
  BY DEF supply, SupplyAt, vault_deposit, Changed
<1> QED BY <1>1, <1>2, ChangedRows

LEMMA VaultWithdraw ==
    ASSUME VInv, NEW u, NEW m \in Markets, NEW raw, withdraw(u, m, raw)
    PROVE  VInv'
<1>1. VaultsKept
  BY HandlersKeepVaults DEF withdraw, WithdrawAt
<1>2. PICK balance : vault_balance' = Changed(m, balance)
  BY DEF withdraw, WithdrawAt, vault_withdraw, Changed
<1> QED BY <1>1, <1>2, ChangedRows

LEMMA VaultDeposit ==
    ASSUME VInv, NEW u, NEW m \in Markets, NEW raw, deposit_collateral(u, m, raw)
    PROVE  VInv'
<1>1. VaultsKept
  BY HandlersKeepVaults DEF deposit_collateral, DepositAt
<1> QED BY <1>1, SameRows DEF deposit_collateral, DepositAt

LEMMA VaultWithdrawCollateral ==
    ASSUME VInv, NEW u, NEW m \in Markets, NEW raw, withdraw_collateral(u, m, raw)
    PROVE  VInv'
<1>1. VaultsKept
  BY HandlersKeepVaults DEF withdraw_collateral, WithdrawCollateralAt
<1> QED BY <1>1, SameRows DEF withdraw_collateral, WithdrawCollateralAt

LEMMA VaultBorrow ==
    ASSUME VInv, NEW u, NEW m \in Markets, NEW raw, borrow(u, m, raw)
    PROVE  VInv'
<1>1. VaultsKept
  BY HandlersKeepVaults DEF borrow, BorrowAt
<1>2. PICK balance : vault_balance' = Changed(m, balance)
  BY DEF borrow, BorrowAt, vault_withdraw, Changed
<1> QED BY <1>1, <1>2, ChangedRows

LEMMA VaultRepay ==
    ASSUME VInv, NEW u, NEW m \in Markets, NEW raw, repay(u, m, raw)
    PROVE  VInv'
<1>1. VaultsKept
  BY HandlersKeepVaults DEF repay, RepayIn, RepayAt
<1>2. PICK balance : vault_balance' = Changed(m, balance)
  BY DEF repay, RepayIn, RepayAt, vault_deposit, Changed
<1> QED BY <1>1, <1>2, ChangedRows

LEMMA VaultLiquidate ==
    ASSUME VInv, NEW u, NEW borrower, NEW d \in Markets, NEW c \in Markets, NEW raw,
           liquidate(u, borrower, d, c, raw)
    PROVE  VInv'
<1>1. PICK caller, amount, states, repaid, seized, remaining :
          SeizeAt(u, caller, borrower, d, c, amount, states, repaid, seized, remaining)
  BY DEF liquidate, LiquidateOf, LiquidateIn, LiquidateAt
<1>2. VaultsKept
  BY <1>1, HandlersKeepVaults DEF SeizeAt
<1>3. PICK balance : vault_balance' = Changed(d, balance)
  BY <1>1 DEF SeizeAt, vault_deposit, Changed
<1> QED BY <1>2, <1>3, ChangedRows

\* A vault is registered when only what was paid before is there.
LEMMA VaultRegistered ==
    ASSUME VInv, NEW u, NEW m \in Markets, set_vault(u, m)
    PROVE  VInv'
<1>1. ASSUME NEW n \in Markets, n # m PROVE vault(n)' = vault(n)
  <2>1. vault_key(n) \notin DOMAIN vault_slot(m, get_caller(u))
    BY <1>1, KeyParts DEF vault_slot
  <2> QED BY <2>1, WrittenKeepsVaults DEF set_vault, vault
<1>2. ASSUME NEW v \in Vaults, NEW n \in Markets, vault_balance[v][n] > 0
      PROVE  v \in {ZERO_ACCOUNT, vault(n)'}
  BY <1>1, <1>2 DEF set_vault, VInv, OneVault
<1> QED BY <1>2 DEF set_vault, VInv, Rows, OneVault

LEMMA VaultNext == VInv /\ [EntryNext]_entryVars => VInv'
<1> SUFFICES ASSUME VInv, [EntryNext]_entryVars PROVE VInv'
  OBVIOUS
<1>1. CASE UNCHANGED entryVars
  BY <1>1, SameRows, HandlersKeepVaults DEF entryVars
<1>2. CASE Tick
  BY <1>2, SameRows, HandlersKeepVaults DEF Tick
<1>3. CASE \E prices \in PriceVectors : PostPrices(prices)
  BY <1>3, SameRows, HandlersKeepVaults DEF PostPrices
<1>4. ASSUME NEW u \in Senders, NEW m \in Addressed, NEW raw \in RawAmounts,
             \/ supply(u, m, raw) \/ withdraw(u, m, raw)
             \/ deposit_collateral(u, m, raw) \/ withdraw_collateral(u, m, raw)
             \/ borrow(u, m, raw) \/ repay(u, m, raw)
      PROVE  VInv'
  BY <1>4, VaultSupply, VaultWithdraw, VaultDeposit, VaultWithdrawCollateral,
     VaultBorrow, VaultRepay DEF Addressed
<1>5. ASSUME NEW u \in Senders, NEW borrower \in Accounts, NEW d \in Addressed,
             NEW c \in Addressed, NEW raw \in RawAmounts,
             liquidate(u, borrower, d, c, raw)
      PROVE  VInv'
  BY <1>5, VaultLiquidate DEF Addressed
<1>6. ASSUME NEW u \in Senders, NEW m \in Addressed, set_vault(u, m) PROVE VInv'
  BY <1>6, VaultRegistered DEF Addressed
<1>7. CASE probe_supply_state \/ \E u \in Senders : probe_collateral(u)
  BY <1>7, SameRows, HandlersKeepVaults DEF probe_supply_state, probe_collateral, Probed
<1> QED BY <1>1, <1>2, <1>3, <1>4, <1>5, <1>6, <1>7 DEF EntryNext

(***************************************************************************)
(* The assets of a market are in one vault at a time.  set_vault is        *)
(* refused once there is a vault (lib.rs:497-503), and no other entry      *)
(* point writes under the key of a vault.                                  *)
(***************************************************************************)
THEOREM OneVaultCorrect == EntrySpec => []OneVault
<1>1. VInv => OneVault
  BY DEF VInv
<1> QED BY <1>1, VaultInit, VaultNext, PTL DEF EntrySpec

(***************************************************************************)
(* Callers.                                                                *)
(***************************************************************************)

\* No sender whose own account starts like a length prefix is answered bare.
Unambiguous == \A u \in Senders : TX_ACCOUNT[u] = u => u[1] # ACCOUNT_BYTES

LEMMA AccountBytes ==
    ASSUME NEW account \in AccountIDs
    PROVE  account \in Seq(Byte) /\ Len(account) = ACCOUNT_BYTES
<1>1. ACCOUNT_BYTES \in Nat
  BY StorageAssumption
<1> QED BY <1>1 DEF AccountIDs

\* The answer with its length in front.
LEMMA Prefixed ==
    ASSUME NEW account \in AccountIDs
    PROVE  LET answer == <<ACCOUNT_BYTES>> \o account
           IN  /\ Len(answer) = ACCOUNT_BYTES + 1
               /\ \A i \in 1 .. ACCOUNT_BYTES : answer[i + 1] = account[i]
<1>1. ACCOUNT_BYTES \in Nat
  BY StorageAssumption
<1>2. <<ACCOUNT_BYTES>> \in Seq(Nat) /\ Len(<<ACCOUNT_BYTES>>) = 1
  BY <1>1
<1>3. account \in Seq(Nat) /\ Len(account) = ACCOUNT_BYTES
  <2>1. Byte \subseteq Nat
    BY DEF Byte
  <2>2. account \in Seq(Byte) /\ Len(account) = ACCOUNT_BYTES
    BY AccountBytes
  <2> QED BY <2>1, <2>2, SeqMonotonic
<1>4. /\ Len(<<ACCOUNT_BYTES>> \o account) = ACCOUNT_BYTES + 1
      /\ \A i \in 1 .. 1 + ACCOUNT_BYTES :
            (<<ACCOUNT_BYTES>> \o account)[i]
                = IF i <= 1 THEN <<ACCOUNT_BYTES>>[i] ELSE account[i - 1]
  BY <1>1, <1>2, <1>3, ConcatProperties
<1>5. ASSUME NEW i \in 1 .. ACCOUNT_BYTES
      PROVE  (<<ACCOUNT_BYTES>> \o account)[i + 1] = account[i]
  <2>1. i + 1 \in 1 .. 1 + ACCOUNT_BYTES /\ ~(i + 1 <= 1) /\ (i + 1) - 1 = i
    BY <1>1
  <2> QED BY <1>4, <2>1
<1> QED BY <1>4, <1>5

\* The contract always takes some account for the caller, and the right one
\* unless the answer is bare and starts like a length.
LEMMA CallerIs ==
    ASSUME NEW u \in Senders
    PROVE  /\ get_caller(u) \in AccountIDs
           /\ Unambiguous => get_caller(u) = u
<1>1. /\ u \in AccountIDs /\ ACCOUNT_BYTES \in Nat \ {0}
      /\ TX_ACCOUNT[u] = u \/ TX_ACCOUNT[u] = <<ACCOUNT_BYTES>> \o u
  BY EntryAssumption, StorageAssumption
<1>2. u = [i \in 1 .. ACCOUNT_BYTES |-> u[i]] /\ \A i \in 1 .. ACCOUNT_BYTES : u[i] \in Byte
  BY <1>1 DEF AccountIDs
<1>3. CASE TX_ACCOUNT[u] = <<ACCOUNT_BYTES>> \o u
  <2>1. length_prefixed(u) /\ Len(TX_ACCOUNT[u]) = ACCOUNT_BYTES + 1
    BY <1>1, <1>3, Prefixed DEF length_prefixed
  <2>2. ASSUME NEW i \in 1 .. ACCOUNT_BYTES PROVE tx_field_buffer(u)[i + 1] = u[i]
    <3>1. i + 1 \in 1 .. ACCOUNT_BYTES + 1 /\ i + 1 <= ACCOUNT_BYTES + 1
      BY <1>1
    <3>2. tx_field_buffer(u)[i + 1] = TX_ACCOUNT[u][i + 1]
      BY <2>1, <3>1 DEF tx_field_buffer
    <3> QED BY <1>1, <1>3, <3>2, Prefixed
  <2> QED BY <1>1, <1>2, <2>1, <2>2 DEF get_caller
<1>4. CASE TX_ACCOUNT[u] = u
  <2>1. Len(TX_ACCOUNT[u]) = ACCOUNT_BYTES
    BY <1>1, <1>4, AccountBytes
  <2>2. length_prefixed(u) <=> u[1] = ACCOUNT_BYTES
    BY <1>1, <1>4, <2>1 DEF length_prefixed
  <2>3. \A i \in 1 .. ACCOUNT_BYTES + 1 :
            tx_field_buffer(u)[i] = IF i <= ACCOUNT_BYTES THEN u[i] ELSE 0
    BY <1>4, <2>1 DEF tx_field_buffer
  <2>4. CASE u[1] = ACCOUNT_BYTES
    <3>1. ASSUME NEW i \in 1 .. ACCOUNT_BYTES PROVE tx_field_buffer(u)[i + 1] \in Byte
      <4>1. i + 1 \in 1 .. ACCOUNT_BYTES + 1 /\ 0 \in Byte
        BY <1>1 DEF Byte
      <4>2. i + 1 <= ACCOUNT_BYTES => i + 1 \in 1 .. ACCOUNT_BYTES
        BY <1>1
      <4> QED BY <1>2, <2>3, <4>1, <4>2
    <3>2. get_caller(u) = [i \in 1 .. ACCOUNT_BYTES |-> tx_field_buffer(u)[i + 1]]
      BY <2>2, <2>4 DEF get_caller
    <3>3. ~Unambiguous
      BY <1>4, <2>4 DEF Unambiguous
    <3> QED BY <3>1, <3>2, <3>3 DEF AccountIDs
  <2>5. CASE u[1] # ACCOUNT_BYTES
    <3>1. \A i \in 1 .. ACCOUNT_BYTES : tx_field_buffer(u)[i + 0] = u[i]
      BY <1>1, <2>3
    <3>2. get_caller(u) = [i \in 1 .. ACCOUNT_BYTES |-> tx_field_buffer(u)[i + 0]]
      BY <2>2, <2>5 DEF get_caller
    <3> QED BY <1>1, <1>2, <3>1, <3>2
  <2> QED BY <2>4, <2>5
<1> QED BY <1>1, <1>3, <1>4

\* Whose records there are.
LEMMA AccountsType ==
    /\ Accounts \subseteq AccountIDs /\ Senders \subseteq Accounts
    /\ \A u \in Senders : get_caller(u) \in Accounts /\ get_caller(u) \in Vaults
    /\ Unambiguous => \A u \in Senders : get_caller(u) # ZERO_ACCOUNT
<1>1. Senders \subseteq AccountIDs \ {ZERO_ACCOUNT}
  BY EntryAssumption
<1> QED BY <1>1, CallerIs DEF Accounts, Callers, Vaults

(***************************************************************************)
(* Records: what is stored is loaded, and nothing else has changed.        *)
(***************************************************************************)

\* The same is loaded from both.
SamePositions(old, new) ==
    \A v \in AccountIDs : load_position(new, v) = load_position(old, v)

SameShares(old, new) ==
    \A v \in AccountIDs, n \in Markets :
        load_supply_shares(new, v, n) = load_supply_shares(old, v, n)

SameInterest(old, new) ==
    \A n \in Markets : load_interest(new, n) = load_interest(old, n)

LEMMA KeysApart ==
    ASSUME NEW a, NEW m, NEW n, NEW f, NEW g
    PROVE  market_interest_key(m, f) # user_position_key(a, n, g)
<1>1. market_interest_key(m, f)[1] = "mkt" /\ user_position_key(a, n, g)[1] = "pos"
  BY DEF market_interest_key, user_position_key
<1> QED BY <1>1

LEMMA InterestKeys ==
    ASSUME NEW m, NEW n, NEW f, NEW g,
           market_interest_key(m, f) = market_interest_key(n, g)
    PROVE  m = n /\ f = g
  BY DEF market_interest_key

\* Writes that are none of a record's.
LEMMA InterestUntouched ==
    ASSUME NEW old, NEW writes, NEW n,
           \A f : market_interest_key(n, f) \notin DOMAIN writes
    PROVE  load_interest(written(old, writes), n) = load_interest(old, n)
<1>1. \A f : read(written(old, writes), market_interest_key(n, f), 0)
                 = read(old, market_interest_key(n, f), 0)
  BY ReadWritten
<1> QED BY <1>1 DEF load_interest

LEMMA PositionUntouched ==
    ASSUME NEW old, NEW writes, NEW v,
           \A n, f : user_position_key(v, n, f) \notin DOMAIN writes
    PROVE  /\ load_position(written(old, writes), v) = load_position(old, v)
           /\ \A n : load_supply_shares(written(old, writes), v, n)
                         = load_supply_shares(old, v, n)
<1>1. \A n, f, missing : read(written(old, writes), user_position_key(v, n, f), missing)
                             = read(old, user_position_key(v, n, f), missing)
  BY ReadWritten
<1> QED BY <1>1, Zenon DEF load_position, load_supply_shares

GoodInterest ==
    {s \in InterestStates : s.borrow_index # 0 /\ s.supply_index # 0}

\* A state read back from slots that hold its fields.
LEMMA InterestRead ==
    ASSUME NEW slots0, NEW n, NEW s \in GoodInterest,
           \A f \in InterestFields :
              read(slots0, market_interest_key(n, f), 0) = interest_field(s, f)
    PROVE  load_interest(slots0, n) = s
<1>1. /\ read(slots0, market_interest_key(n, "br"), 0) = s.borrow_rate_bps
      /\ read(slots0, market_interest_key(n, "sr"), 0) = s.supply_rate_bps
      /\ read(slots0, market_interest_key(n, "bi"), 0) = s.borrow_index
      /\ read(slots0, market_interest_key(n, "si"), 0) = s.supply_index
      /\ read(slots0, market_interest_key(n, "ts"), 0) = s.last_update_timestamp
      /\ read(slots0, market_interest_key(n, "tb"), 0) = s.total_borrows
      /\ read(slots0, market_interest_key(n, "tp"), 0) = s.total_supply
  BY DEF InterestFields, interest_field
<1>2. load_interest(slots0, n) =
        [borrow_rate_bps |-> s.borrow_rate_bps, supply_rate_bps |-> s.supply_rate_bps,
         borrow_index |-> s.borrow_index, supply_index |-> s.supply_index,
         last_update_timestamp |-> s.last_update_timestamp,
         total_borrows |-> s.total_borrows, total_supply |-> s.total_supply]
  BY <1>1 DEF load_interest, at_least_one, GoodInterest
<1> QED BY <1>2 DEF GoodInterest, InterestStates

LEMMA InterestStored ==
    ASSUME NEW old, NEW m \in Markets, NEW s \in GoodInterest
    PROVE  LET new == written(old, interest_slots(m, s))
           IN  /\ load_all_interest(new) = [load_all_interest(old) EXCEPT ![m] = s]
               /\ SamePositions(old, new) /\ SameShares(old, new)
<1> DEFINE writes == interest_slots(m, s)
           new == written(old, writes)
<1>1. ASSUME NEW f \in InterestFields
      PROVE  /\ market_interest_key(m, f) \in DOMAIN writes
             /\ writes[market_interest_key(m, f)] = interest_field(s, f)
  <2>1. market_interest_key(m, f)[4] = f
    BY DEF market_interest_key
  <2> QED BY <2>1 DEF interest_slots
<1>2. load_interest(new, m) = s
  <2>1. \A f \in InterestFields :
            read(new, market_interest_key(m, f), 0) = interest_field(s, f)
    BY <1>1, ReadWritten
  <2> HIDE DEF new
  <2> QED BY <2>1, InterestRead
<1>3. ASSUME NEW n \in Markets, n # m PROVE load_interest(new, n) = load_interest(old, n)
  <2>1. \A f : market_interest_key(n, f) \notin DOMAIN writes
    BY <1>3, InterestKeys DEF interest_slots
  <2> HIDE DEF writes
  <2> QED BY <2>1, InterestUntouched
<1>4. SamePositions(old, new) /\ SameShares(old, new)
  <2>1. \A v, n, f : user_position_key(v, n, f) \notin DOMAIN writes
    BY KeysApart DEF interest_slots
  <2> HIDE DEF writes
  <2> QED BY <2>1, PositionUntouched DEF SamePositions, SameShares
<1> HIDE DEF new
<1>5. load_all_interest(new) = [load_all_interest(old) EXCEPT ![m] = s]
  BY <1>2, <1>3 DEF load_all_interest
<1> QED BY <1>4, <1>5 DEF new

LEMMA AllInterestStored ==
    ASSUME NEW old, NEW states \in [Markets -> GoodInterest]
    PROVE  LET new == written(old, all_interest_slots(states))
           IN  /\ load_all_interest(new) = states
               /\ SamePositions(old, new) /\ SameShares(old, new)
<1> DEFINE writes == all_interest_slots(states)
           new == written(old, writes)
<1>1. ASSUME NEW m \in Markets, NEW f \in InterestFields
      PROVE  /\ market_interest_key(m, f) \in DOMAIN writes
             /\ writes[market_interest_key(m, f)] = interest_field(states[m], f)
  <2>1. market_interest_key(m, f)[4] = f /\ market_interest_key(m, f)[2] = m
    BY DEF market_interest_key
  <2> QED BY <2>1 DEF all_interest_slots
<1>2. ASSUME NEW m \in Markets PROVE load_interest(new, m) = states[m]
  <2>1. \A f \in InterestFields :
            read(new, market_interest_key(m, f), 0) = interest_field(states[m], f)
    BY <1>1, ReadWritten
  <2> HIDE DEF new
  <2> QED BY <2>1, InterestRead
<1>3. SamePositions(old, new) /\ SameShares(old, new)
  <2>1. \A v, n, f : user_position_key(v, n, f) \notin DOMAIN writes
    BY KeysApart DEF all_interest_slots
  <2> HIDE DEF writes
  <2> QED BY <2>1, PositionUntouched DEF SamePositions, SameShares
<1> HIDE DEF new
<1>4. load_all_interest(new) = states
  BY <1>2 DEF load_all_interest
<1> QED BY <1>3, <1>4 DEF new

\* What PositionStored says, and that the markets are as before.
LEMMA PositionAlone ==
    ASSUME NEW old, NEW a \in AccountIDs, NEW pos
    PROVE  SameInterest(old, written(old, position_slots(a, pos)))
<1>1. \A n, f : market_interest_key(n, f) \notin DOMAIN position_slots(a, pos)
  BY KeysApart DEF position_slots
<1> QED BY <1>1, InterestUntouched DEF SameInterest

LEMMA SharesStored ==
    ASSUME NEW old, NEW a \in AccountIDs, NEW m \in Markets, NEW x
    PROVE  LET new == written(old, shares_slot(a, m, x))
           IN  /\ \A v \in AccountIDs, n \in Markets :
                     load_supply_shares(new, v, n)
                         = IF v = a /\ n = m THEN x ELSE load_supply_shares(old, v, n)
               /\ SameInterest(old, new) /\ SamePositions(old, new)
<1> DEFINE writes == shares_slot(a, m, x)
           new == written(old, writes)
           key == user_position_key(a, m, "sh")
<1>1. DOMAIN writes = {key} /\ writes[key] = x
  BY DEF shares_slot
<1>2. ASSUME NEW v \in AccountIDs, NEW n \in Markets
      PROVE  load_supply_shares(new, v, n)
                 = IF v = a /\ n = m THEN x ELSE load_supply_shares(old, v, n)
  <2>1. user_position_key(v, n, "sh") = key => v = a /\ n = m
    BY PositionKeys
  <2> HIDE DEF writes, key
  <2>2. CASE v = a /\ n = m
    <3>1. user_position_key(v, n, "sh") = key
      BY <2>2 DEF key
    <3> QED BY <1>1, <2>2, <3>1, ReadWritten DEF load_supply_shares
  <2>3. CASE ~(v = a /\ n = m)
    BY <1>1, <2>1, <2>3, ReadWritten DEF load_supply_shares
  <2> QED BY <2>2, <2>3
<1>3. SameInterest(old, new)
  <2>1. \A n, f : market_interest_key(n, f) \notin DOMAIN writes
    BY <1>1, KeysApart
  <2> HIDE DEF writes
  <2> QED BY <2>1, InterestUntouched DEF SameInterest
<1>4. SamePositions(old, new)
  <2>1. ASSUME NEW v \in AccountIDs, NEW n, NEW f \in PositionFields
        PROVE  user_position_key(v, n, f) \notin DOMAIN writes
    <3>1. f # "sh"
      BY DEF PositionFields
    <3> QED BY <1>1, <3>1, PositionKeys
  <2> HIDE DEF writes
  <2>2. ASSUME NEW v \in AccountIDs, NEW n, NEW f \in PositionFields, NEW missing
        PROVE  read(new, user_position_key(v, n, f), missing)
                   = read(old, user_position_key(v, n, f), missing)
    BY <2>1, ReadWritten
  <2>3. "co" \in PositionFields /\ "de" \in PositionFields /\ "bi" \in PositionFields
    BY DEF PositionFields
  <2> HIDE DEF new
  <2>4. ASSUME NEW v \in AccountIDs
        PROVE  load_position(new, v) = load_position(old, v)
    <3>1. \A n, missing :
             /\ read(new, user_position_key(v, n, "co"), missing)
                    = read(old, user_position_key(v, n, "co"), missing)
             /\ read(new, user_position_key(v, n, "de"), missing)
                    = read(old, user_position_key(v, n, "de"), missing)
             /\ read(new, user_position_key(v, n, "bi"), missing)
                    = read(old, user_position_key(v, n, "bi"), missing)
      BY <2>2, <2>3
    <3> QED BY <3>1, Zenon DEF load_position
  <2> QED BY <2>4 DEF SamePositions
<1> QED BY <1>2, <1>3, <1>4

(***************************************************************************)
(* The operators of LendingController on the books read out of storage are *)
(* those the entry points and the queries use on storage itself.           *)
(***************************************************************************)
LEMMA SameWad ==
    /\ Books!U128 = U128 /\ Books!HALF_WAD = HALF_WAD
    /\ \A n : Books!Fits(n) = Fits(n) /\ Books!saturate(n) = saturate(n)
    /\ \A a, b : /\ Books!Min2(a, b) = Min2(a, b)
                 /\ Books!saturating_sub(a, b) = saturating_sub(a, b)
                 /\ Books!wad_mul_ok(a, b) = wad_mul_ok(a, b)
                 /\ Books!wad_mul(a, b) = wad_mul(a, b)
                 /\ Books!wad_div_ok(a, b) = wad_div_ok(a, b)
                 /\ Books!wad_div(a, b) = wad_div(a, b)
  BY DEF Books!U128, U128, Books!HALF_WAD, HALF_WAD, Books!Fits, Fits, Books!saturate, saturate,
         Books!Min2, Min2, Books!saturating_sub, saturating_sub,
         Books!wad_mul_ok, wad_mul_ok, Books!wad_mul, wad_mul,
         Books!wad_div_ok, wad_div_ok, Books!wad_div, wad_div

LEMMA SameRates ==
    /\ \A bps : Books!annual_bps_to_per_second_wad(bps) = annual_bps_to_per_second_wad(bps)
    /\ \A b, t : Books!calculate_utilization(b, t) = calculate_utilization(b, t)
    /\ \A n, config : Books!borrow_rate_annual_bps(n, config) = borrow_rate_annual_bps(n, config)
    /\ \A r, n, f : /\ Books!calculate_supply_rate(r, n, f) = calculate_supply_rate(r, n, f)
                    /\ Books!supply_rate_annual_bps(r, n, f) = supply_rate_annual_bps(r, n, f)
    /\ \A r, dt : /\ Books!calculate_compound_interest(r, dt) = calculate_compound_interest(r, dt)
                  /\ Books!compound_interest_ok(r, dt) = compound_interest_ok(r, dt)
<1> USE SameWad
<1>1. \A bps : Books!annual_bps_to_per_second_wad(bps) = annual_bps_to_per_second_wad(bps)
  BY DEF annual_bps_to_per_second_wad, Books!annual_bps_to_per_second_wad
<1>2. \A b, t : Books!calculate_utilization(b, t) = calculate_utilization(b, t)
  BY DEF calculate_utilization, Books!calculate_utilization
<1>3. \A n, config : Books!borrow_rate_annual_bps(n, config) = borrow_rate_annual_bps(n, config)
  BY DEF borrow_rate_annual_bps, Books!borrow_rate_annual_bps
<1>4. \A r, n, f : Books!calculate_supply_rate(r, n, f) = calculate_supply_rate(r, n, f)
  BY DEF calculate_supply_rate, Books!calculate_supply_rate
<1>5. \A r, n, f : Books!supply_rate_annual_bps(r, n, f) = supply_rate_annual_bps(r, n, f)
  BY <1>4 DEF supply_rate_annual_bps, Books!supply_rate_annual_bps
<1>6. \A r, dt : Books!calculate_compound_interest(r, dt) = calculate_compound_interest(r, dt)
  BY DEF calculate_compound_interest, Books!calculate_compound_interest
<1>7. \A r, dt : Books!compound_interest_ok(r, dt) = compound_interest_ok(r, dt)
  BY DEF compound_interest_ok, Books!compound_interest_ok
<1> QED BY <1>1, <1>2, <1>3, <1>4, <1>5, <1>6, <1>7

LEMMA SameAccrual ==
    /\ \A s, t : Books!accrual_ok(s, t) <=> accrual_ok(s, t)
    /\ \A s, config, t : Books!update_interest_indexes(s, config, t)
                             = update_interest_indexes(s, config, t)
<1>1. /\ \A s, t : Books!elapsed(s, t) = elapsed(s, t)
      /\ \A s : Books!stored_rate(s) = stored_rate(s)
  BY SameWad, SameRates DEF elapsed, Books!elapsed, stored_rate, Books!stored_rate
<1>2. \A s, compound : Books!accrued_borrows(s, compound) = accrued_borrows(s, compound)
  BY SameWad DEF accrued_borrows, Books!accrued_borrows
<1>3. \A s, b : Books!period_supply_rate(s, b) = period_supply_rate(s, b)
  BY <1>1, SameRates DEF period_supply_rate, Books!period_supply_rate
<1>4. \A s, dt, compound, r : Books!growth_ok(s, dt, compound, r) <=> growth_ok(s, dt, compound, r)
  BY <1>1, SameWad, SameRates DEF growth_ok, Books!growth_ok
<1>5. \A s, t : Books!accrual_ok(s, t) <=> accrual_ok(s, t)
  BY <1>1, <1>2, <1>3, <1>4, SameRates DEF accrual_ok, Books!accrual_ok
<1>6. \A s, config, t : Books!accrued_state(s, config, t) = accrued_state(s, config, t)
  BY <1>1, <1>2, <1>3, SameWad, SameRates DEF accrued_state, Books!accrued_state
<1> QED BY <1>1, <1>5, <1>6 DEF update_interest_indexes, Books!update_interest_indexes

LEMMA SameHealth ==
    /\ Books!Markets = Markets
    /\ \A f : Books!get_all_prices(f) = get_all_prices(f)
    /\ \A r, p, d, c, b :
          Books!collateral_to_seize(r, p, d, c, b) = collateral_to_seize(r, p, d, c, b)
    /\ \A a, p, c : Books!health_factor_ok(a, p, c) = health_factor_ok(a, p, c)
    /\ \A a, p, c : Books!calculate_health_factor(a, p, c) = calculate_health_factor(a, p, c)
  BY DEF Books!Markets, Markets, Books!ASSET_XRP, ASSET_XRP, Books!ASSET_RLUSD,
     ASSET_RLUSD, Books!ASSET_WBTC, ASSET_WBTC, Books!get_all_prices, get_all_prices,
     Books!get_asset_price, get_asset_price, Books!RLUSD_FIXED_PRICE,
     RLUSD_FIXED_PRICE, Books!collateral_to_seize, collateral_to_seize, seize_usd,
     Books!seize_usd, asset_usd_value, Books!asset_usd_value, price_per_native,
     Books!price_per_native, health_factor_ok, Books!health_factor_ok, usd_totals_ok,
     Books!usd_totals_ok, Fits, Books!Fits, weighted_collateral,
     Books!weighted_collateral, total_debt_usd, Books!total_debt_usd, OverMarkets,
     Books!OverMarkets, thresholds, Books!thresholds, wad_ratio_ok,
     Books!wad_ratio_ok, ratio_drops_fraction, Books!ratio_drops_fraction,
     ratio_scale, Books!ratio_scale, ratio_fraction, Books!ratio_fraction,
     calculate_health_factor, Books!calculate_health_factor, wad_ratio,
     Books!wad_ratio

(***************************************************************************)
(* The records in storage, and the tokens outside it.                      *)
(***************************************************************************)
Stored(s, m) ==
    /\ s \in InterestStates
    /\ load_interest(slots, m).borrow_index <= s.borrow_index
    /\ load_interest(slots, m).supply_index <= s.supply_index
    /\ s.last_update_timestamp <= now

MarketRecords ==
    \A m \in Markets :
        /\ Stored(load_interest(slots, m), m)
        /\ WAD <= load_interest(slots, m).borrow_index
        /\ WAD <= load_interest(slots, m).supply_index

AccountRecords ==
    \A u \in Accounts, m \in Markets :
        /\ position_of(u)[m] \in Books!Positions
        /\ WAD <= position_of(u)[m].user_borrow_index
        /\ position_of(u)[m].user_borrow_index <= load_interest(slots, m).borrow_index
        /\ load_supply_shares(slots, u, m) \in Nat

Balances ==
    /\ wallet \in [Accounts -> [Markets -> Nat]]
    /\ vault_balance \in [Vaults -> [Markets -> Nat]]
    /\ \A m \in Markets : vault(m) \in Vaults

Ledger == now \in Nat /\ feed \in Feeds

EInv == MarketRecords /\ AccountRecords /\ Balances /\ Ledger

\* The books that LendingController keeps, as they are read out of storage.
BookPositions == [u \in Accounts |-> load_position(slots, u)]

BookShares == [u \in Accounts |-> [m \in Markets |-> load_supply_shares(slots, u, m)]]

BookCash == [m \in Markets |-> cash_of(m)]

LEMMA ParameterTypes ==
    ASSUME NEW raw \in RawAmounts
    PROVE  /\ read_param(raw) \in Nat /\ read_param(raw) \in Amounts
           /\ or_default(raw, DEFAULT_AMOUNT) \in Nat \ {0}
           /\ or_default(raw, DEFAULT_AMOUNT) \in Amounts
           /\ or_default(raw, DEFAULT_DEBT_AMOUNT) \in Nat \ {0}
           /\ or_default(raw, DEFAULT_DEBT_AMOUNT) \in Amounts
  BY EntryAssumption DEF read_param, or_default, Amounts

LEMMA MarketType ==
    ASSUME EInv, NEW m \in Markets
    PROVE  /\ load_interest(slots, m) \in InterestStates
           /\ load_interest(slots, m).borrow_index \in Nat
           /\ load_interest(slots, m).supply_index \in Nat
           /\ WAD <= load_interest(slots, m).borrow_index
           /\ WAD <= load_interest(slots, m).supply_index
           /\ load_all_interest(slots)[m] = load_interest(slots, m)
           /\ Stored(load_interest(slots, m), m)
  BY DEF EInv, MarketRecords, Stored, InterestStates, U128, load_all_interest

\* A state that was stored, or accrued from one, can be stored.
LEMMA StoredIsGood ==
    ASSUME EInv, NEW m \in Markets, NEW s, Stored(s, m)
    PROVE  /\ s \in GoodInterest
           /\ s.borrow_index \in Nat /\ WAD <= s.borrow_index /\ s.borrow_index \in U128
           /\ s.supply_index \in Nat /\ WAD <= s.supply_index
           /\ s.total_borrows \in Nat /\ s.total_supply \in Nat
<1>1. /\ s \in InterestStates /\ s.borrow_index \in Nat /\ s.supply_index \in Nat
      /\ load_interest(slots, m).borrow_index <= s.borrow_index
      /\ load_interest(slots, m).supply_index <= s.supply_index
      /\ s.total_borrows \in Nat /\ s.total_supply \in Nat
      /\ s.borrow_index \in U128
  BY DEF Stored, InterestStates, U128
<1>2. /\ load_interest(slots, m).borrow_index \in Nat
      /\ load_interest(slots, m).supply_index \in Nat
      /\ WAD <= load_interest(slots, m).borrow_index
      /\ WAD <= load_interest(slots, m).supply_index
  BY MarketType
<1>3. /\ WAD <= s.borrow_index /\ WAD <= s.supply_index
      /\ s.borrow_index # 0 /\ s.supply_index # 0
  BY <1>1, <1>2, Scales
<1> QED BY <1>1, <1>3 DEF GoodInterest

LEMMA AccruedStored ==
    ASSUME EInv, NEW m \in Markets, Books!can_accrue(m)
    PROVE  Stored(Books!accrued(m), m)
<1> DEFINE s == load_interest(slots, m)
           after == update_interest_indexes(s, V1_MARKETS[m], now)
<1>1. /\ s \in InterestStates /\ V1_MARKETS[m] \in MarketConfigs /\ now \in Nat
      /\ s.last_update_timestamp <= now /\ s.last_update_timestamp \in Nat
      /\ s.borrow_index \in Nat /\ s.supply_index \in Nat
  BY MarketType, BooksAssumption DEF EInv, Ledger, Stored, InterestStates
<1>2. accrual_ok(s, now) /\ Books!accrued(m) = after
  BY MarketType, SameAccrual DEF Books!can_accrue, Books!accrued
<1> HIDE DEF s
<1>3. /\ after \in InterestStates
      /\ after.borrow_index >= s.borrow_index
      /\ after.supply_index >= s.supply_index
      /\ after.last_update_timestamp <= now \/ after = s
  BY <1>1, <1>2, AccrualCorrect
<1>4. after.borrow_index \in Nat /\ after.supply_index \in Nat
  BY <1>3 DEF InterestStates, U128
<1> HIDE DEF after
<1>5. /\ after.last_update_timestamp <= now
      /\ s.borrow_index <= after.borrow_index /\ s.supply_index <= after.supply_index
  BY <1>1, <1>3, <1>4
<1> QED BY <1>2, <1>3, <1>5 DEF Stored, s

LEMMA AccountType ==
    ASSUME EInv, NEW u \in Accounts
    PROVE  /\ position_of(u) = load_position(slots, u)
           /\ position_of(u) = BookPositions[u]
           /\ position_of(u) \in [Markets -> Books!Positions]
           /\ \A m \in Markets :
                 /\ position_of(u)[m].collateral \in Nat /\ position_of(u)[m].debt \in Nat
                 /\ position_of(u)[m].user_borrow_index \in Nat \ {0}
                 /\ load_supply_shares(slots, u, m) \in Nat
                 /\ BookShares[u][m] = load_supply_shares(slots, u, m)
                 /\ wallet[u][m] \in Nat
<1>1. /\ position_of(u) = load_position(slots, u) /\ position_of(u) = BookPositions[u]
      /\ \A m \in Markets : BookShares[u][m] = load_supply_shares(slots, u, m)
  BY DEF position_of, BookPositions, BookShares
<1>2. position_of(u) = [m \in Markets |-> position_of(u)[m]]
  BY DEF position_of, load_position
<1>3. \A m \in Markets : position_of(u)[m] \in Books!Positions
  BY DEF EInv, AccountRecords
<1>4. \A m \in Markets : WAD <= position_of(u)[m].user_borrow_index
  BY DEF EInv, AccountRecords
<1>5. \A m \in Markets : /\ load_supply_shares(slots, u, m) \in Nat
                         /\ wallet[u][m] \in Nat
  BY DEF EInv, AccountRecords, Balances
<1>6. ASSUME NEW m \in Markets
      PROVE  /\ position_of(u)[m].collateral \in Nat /\ position_of(u)[m].debt \in Nat
             /\ position_of(u)[m].user_borrow_index \in Nat \ {0}
  BY <1>3, <1>4, Scales, SameWad DEF Books!Positions, U128
<1> QED BY <1>1, <1>2, <1>3, <1>5, <1>6

(***************************************************************************)
(* What a call has to leave behind.                                        *)
(***************************************************************************)
LEMMA RecordsKept ==
    ASSUME EInv, now' = now, feed' = feed, VaultsKept,
           wallet' \in [Accounts -> [Markets -> Nat]],
           vault_balance' \in [Vaults -> [Markets -> Nat]],
           \A m \in Markets : Stored(load_interest(slots', m), m),
           \A u \in Accounts, m \in Markets :
              /\ load_position(slots', u)[m] \in Books!Positions
              /\ \/ load_position(slots', u)[m].user_borrow_index
                       = load_position(slots, u)[m].user_borrow_index
                 \/ load_position(slots', u)[m].user_borrow_index
                       = load_interest(slots', m).borrow_index
              /\ load_supply_shares(slots', u, m) \in Nat
    PROVE  EInv'
<1>1. ASSUME NEW m \in Markets
      PROVE  /\ load_interest(slots', m) \in InterestStates
             /\ load_interest(slots', m).borrow_index \in Nat
             /\ WAD <= load_interest(slots', m).borrow_index
             /\ WAD <= load_interest(slots', m).supply_index
             /\ load_interest(slots, m).borrow_index <= load_interest(slots', m).borrow_index
             /\ Stored(load_interest(slots, m), m)'
  <2>1. Stored(load_interest(slots', m), m)
    OBVIOUS
  <2>2. /\ load_interest(slots', m).borrow_index \in Nat
        /\ load_interest(slots', m).supply_index \in Nat
        /\ WAD <= load_interest(slots', m).borrow_index
        /\ WAD <= load_interest(slots', m).supply_index
    BY <2>1, StoredIsGood
  <2> QED BY <2>1, <2>2 DEF Stored
<1>2. MarketRecords'
  BY <1>1 DEF MarketRecords
<1>3. ASSUME NEW u \in Accounts, NEW m \in Markets
      PROVE  /\ WAD <= load_position(slots', u)[m].user_borrow_index
             /\ load_position(slots', u)[m].user_borrow_index
                    <= load_interest(slots', m).borrow_index
  <2>1. /\ load_position(slots, u)[m].user_borrow_index \in Nat
        /\ WAD <= load_position(slots, u)[m].user_borrow_index
        /\ load_position(slots, u)[m].user_borrow_index
               <= load_interest(slots, m).borrow_index
    BY AccountType DEF EInv, AccountRecords, position_of
  <2>2. load_interest(slots, m).borrow_index \in Nat
    BY MarketType
  <2> QED BY <1>1, <2>1, <2>2, Scales
<1>4. AccountRecords'
  BY <1>3 DEF AccountRecords, position_of
<1>5. Balances' /\ Ledger'
  BY DEF EInv, Balances, Ledger, VaultsKept
<1> QED BY <1>2, <1>4, <1>5 DEF EInv

(***************************************************************************)
(* Cash moves in and out of the vault of a market.                         *)
(***************************************************************************)
LEMMA CashType == ASSUME EInv, NEW m \in Markets PROVE cash_of(m) \in Nat
  BY DEF EInv, Balances, cash_of, Vaults

LEMMA CashMoves ==
    ASSUME EInv, VaultsKept, NEW m \in Markets, NEW after \in Nat,
           vault_balance' = [vault_balance EXCEPT ![vault(m)][m] = after]
    PROVE  /\ vault_balance' \in [Vaults -> [Markets -> Nat]]
           /\ BookCash' = [BookCash EXCEPT ![m] = @ + (after - vault_balance[vault(m)][m])]
<1>1. /\ vault_balance \in [Vaults -> [Markets -> Nat]]
      /\ ZERO_ACCOUNT \in Vaults /\ \A n \in Markets : vault(n) \in Vaults
      /\ \A n \in Markets : vault(n)' = vault(n)
  BY DEF EInv, Balances, Vaults, VaultsKept
<1>2. /\ vault_balance' \in [Vaults -> [Markets -> Nat]]
      /\ vault_balance'[vault(m)][m] = after
      /\ \A v \in Vaults, n \in Markets :
            ~(v = vault(m) /\ n = m) => vault_balance'[v][n] = vault_balance[v][n]
  BY <1>1
<1>3. \A n \in Markets \ {m} : cash_of(n)' = cash_of(n)
  BY <1>1, <1>2 DEF cash_of
<1>4. cash_of(m)' = cash_of(m) + (after - vault_balance[vault(m)][m])
  <2>1. CASE vault(m) = ZERO_ACCOUNT
    BY <1>1, <1>2, <2>1 DEF cash_of
  <2>2. CASE vault(m) # ZERO_ACCOUNT
    <3>1. vault_balance'[ZERO_ACCOUNT][m] = vault_balance[ZERO_ACCOUNT][m]
      BY <1>1, <1>2, <2>2
    <3>2. vault_balance[ZERO_ACCOUNT][m] \in Nat /\ vault_balance[vault(m)][m] \in Nat
      BY <1>1
    <3> QED BY <1>1, <1>2, <2>2, <3>1, <3>2 DEF cash_of
  <2> QED BY <2>1, <2>2
<1> QED BY <1>2, <1>3, <1>4 DEF BookCash

LEMMA CashIn ==
    ASSUME EInv, VaultsKept, NEW m \in Markets, NEW amount \in Nat, vault_deposit(m, amount)
    PROVE  /\ vault_balance' \in [Vaults -> [Markets -> Nat]]
           /\ BookCash' = [BookCash EXCEPT ![m] = @ + amount]
<1>1. vault_balance[vault(m)][m] \in Nat
  BY DEF EInv, Balances
<1>2. vault_balance' = [vault_balance EXCEPT ![vault(m)][m] = vault_balance[vault(m)][m] + amount]
  BY DEF vault_deposit
<1>3. vault_balance[vault(m)][m] + amount \in Nat
      /\ (vault_balance[vault(m)][m] + amount) - vault_balance[vault(m)][m] = amount
  BY <1>1
<1> QED BY <1>2, <1>3, CashMoves

LEMMA CashOut ==
    ASSUME EInv, VaultsKept, NEW m \in Markets, NEW amount \in Nat, vault_withdraw(m, amount)
    PROVE  /\ vault_balance' \in [Vaults -> [Markets -> Nat]]
           /\ BookCash' = [BookCash EXCEPT ![m] = @ - amount]
           /\ amount <= cash_of(m)
<1>1. vault_balance[vault(m)][m] \in Nat /\ vault_balance[ZERO_ACCOUNT][m] \in Nat
  BY DEF EInv, Balances, Vaults
<1>2. /\ vault_balance' = [vault_balance EXCEPT
                                ![vault(m)][m] = vault_balance[vault(m)][m] - amount]
      /\ amount <= vault_balance[vault(m)][m]
  BY DEF vault_withdraw
<1>3. vault_balance[vault(m)][m] - amount \in Nat
      /\ (vault_balance[vault(m)][m] - amount) - vault_balance[vault(m)][m] = - amount
  BY <1>1, <1>2
<1>4. cash_of(m) \in Nat /\ cash_of(m) + (- amount) = cash_of(m) - amount
  BY CashType
<1>5. /\ vault_balance' \in [Vaults -> [Markets -> Nat]]
      /\ BookCash' = [BookCash EXCEPT ![m] = @ + (- amount)]
  BY <1>2, <1>3, CashMoves
<1>6. amount <= cash_of(m)
  BY <1>1, <1>2 DEF cash_of
<1> QED BY <1>4, <1>5, <1>6 DEF BookCash

\* A call that touches no vault.
LEMMA CashStays ==
    ASSUME EInv, VaultsKept, UNCHANGED vault_balance
    PROVE  /\ vault_balance' \in [Vaults -> [Markets -> Nat]]
           /\ BookCash' = BookCash
  BY DEF EInv, Balances, VaultsKept, BookCash, cash_of

(***************************************************************************)
(* RecordsKept, on the books.                                              *)
(***************************************************************************)
LEMMA LoadedKept ==
    ASSUME EInv, UNCHANGED <<now, feed>>, VaultsKept,
           wallet' \in [Accounts -> [Markets -> Nat]],
           vault_balance' \in [Vaults -> [Markets -> Nat]],
           NEW states, load_all_interest(slots') = states,
           \A m \in Markets : Stored(states[m], m),
           \A u \in Accounts, m \in Markets :
              /\ BookPositions'[u][m] \in Books!Positions
              /\ \/ BookPositions'[u][m].user_borrow_index
                       = BookPositions[u][m].user_borrow_index
                 \/ BookPositions'[u][m].user_borrow_index = states[m].borrow_index
              /\ BookShares'[u][m] \in Nat
    PROVE  EInv'
<1>1. \A m \in Markets : load_interest(slots', m) = states[m]
  BY DEF load_all_interest
<1>2. \A u \in Accounts : /\ BookPositions'[u] = load_position(slots', u)
                          /\ BookPositions[u] = load_position(slots, u)
  BY DEF BookPositions
<1>3. \A u \in Accounts, m \in Markets : BookShares'[u][m] = load_supply_shares(slots', u, m)
  BY DEF BookShares
<1> QED BY <1>1, <1>2, <1>3, RecordsKept

\* The states a call stores when it accrued and booked one market.
LEMMA OneMarketStored ==
    ASSUME EInv, NEW m \in Markets, NEW s, Stored(s, m)
    PROVE  LET states == [load_all_interest(slots) EXCEPT ![m] = s]
           IN  /\ \A n \in Markets : Stored(states[n], n)
               /\ states[m] = s
               /\ states \in [Markets -> GoodInterest]
<1> DEFINE states == [load_all_interest(slots) EXCEPT ![m] = s]
<1>1. /\ DOMAIN states = Markets /\ states[m] = s
      /\ \A n \in Markets \ {m} : states[n] = load_interest(slots, n)
      /\ states = [n \in Markets |-> states[n]]
  BY DEF load_all_interest
<1>2. \A n \in Markets : Stored(states[n], n)
  BY <1>1, MarketType
<1> HIDE DEF states
<1>3. \A n \in Markets : states[n] \in GoodInterest
  BY <1>2, StoredIsGood
<1> QED BY <1>1, <1>2, <1>3 DEF states

\* The shares of one account in one market are rewritten.
LEMMA SharesChange ==
    ASSUME NEW caller \in Accounts, NEW m \in Markets, NEW sum,
           \A v \in Accounts, n \in Markets :
              load_supply_shares(slots', v, n)
                  = IF v = caller /\ n = m THEN sum ELSE load_supply_shares(slots, v, n)
    PROVE  BookShares' = [BookShares EXCEPT ![caller][m] = sum]
<1>1. ASSUME NEW v \in Accounts
      PROVE  [n \in Markets |-> load_supply_shares(slots', v, n)]
                 = IF v = caller THEN [BookShares[caller] EXCEPT ![m] = sum] ELSE BookShares[v]
  BY DEF BookShares
<1>2. BookShares' = [v \in Accounts |-> [n \in Markets |-> load_supply_shares(slots', v, n)]]
      /\ BookShares = [v \in Accounts |-> BookShares[v]]
  BY DEF BookShares
<1> QED BY <1>1, <1>2

LEMMA SharesChanged ==
    ASSUME EInv, NEW caller \in Accounts, NEW m \in Markets, NEW sum \in Nat
    PROVE  [BookShares EXCEPT ![caller][m] = sum] \in [Accounts -> [Markets -> Nat]]
<1>1. BookShares \in [Accounts -> [Markets -> Nat]]
  BY AccountType DEF BookShares
<1> QED BY <1>1

LEMMA WalletPays ==
    ASSUME EInv, NEW u \in Accounts, NEW m \in Markets, NEW amount \in Nat,
           amount <= wallet[u][m]
    PROVE  [wallet EXCEPT ![u][m] = @ - amount] \in [Accounts -> [Markets -> Nat]]
<1>1. wallet \in [Accounts -> [Markets -> Nat]] /\ wallet[u][m] - amount \in Nat
  BY DEF EInv, Balances
<1> QED BY <1>1

LEMMA WalletGets ==
    ASSUME NEW balances \in [Accounts -> [Markets -> Nat]], NEW u \in Accounts,
           NEW m \in Markets, NEW amount \in Nat
    PROVE  transfer_to(balances, u, m, amount) \in [Accounts -> [Markets -> Nat]]
  BY DEF transfer_to

(***************************************************************************)
(* What is loaded after the writes of a handler.                           *)
(***************************************************************************)
LEMMA SharesCall ==
    ASSUME EInv, NEW caller \in Accounts, NEW m \in Markets, NEW s, Stored(s, m), NEW sum,
           slots' = written(written(slots, interest_slots(m, s)), shares_slot(caller, m, sum))
    PROVE  /\ VaultsKept
           /\ load_all_interest(slots') = [load_all_interest(slots) EXCEPT ![m] = s]
           /\ BookPositions' = BookPositions
           /\ BookShares' = [BookShares EXCEPT ![caller][m] = sum]
<1> DEFINE mid == written(slots, interest_slots(m, s))
           new == written(mid, shares_slot(caller, m, sum))
<1>1. s \in GoodInterest /\ caller \in AccountIDs
  BY StoredIsGood, AccountsType
<1>2. VaultsKept
  BY HandlersKeepVaults
<1>3. /\ load_all_interest(mid) = [load_all_interest(slots) EXCEPT ![m] = s]
      /\ SamePositions(slots, mid) /\ SameShares(slots, mid)
  BY <1>1, InterestStored
<1>4. slots' = new
  OBVIOUS
<1> HIDE DEF mid
<1>5. /\ \A v \in AccountIDs, n \in Markets :
            load_supply_shares(new, v, n)
                = IF v = caller /\ n = m THEN sum ELSE load_supply_shares(mid, v, n)
      /\ SameInterest(mid, new) /\ SamePositions(mid, new)
  BY <1>1, SharesStored
<1> HIDE DEF new
<1>6. load_all_interest(slots') = load_all_interest(mid)
  BY <1>4, <1>5 DEF SameInterest, load_all_interest
<1>7. \A v \in Accounts : load_position(slots', v) = load_position(slots, v)
  BY <1>3, <1>4, <1>5, AccountsType DEF SamePositions
<1>8. \A v \in Accounts, n \in Markets :
          load_supply_shares(slots', v, n)
              = IF v = caller /\ n = m THEN sum ELSE load_supply_shares(slots, v, n)
  BY <1>3, <1>4, <1>5, AccountsType DEF SameShares
<1>9. BookPositions' = BookPositions
  BY <1>7 DEF BookPositions
<1>10. BookShares' = [BookShares EXCEPT ![caller][m] = sum]
  BY <1>8, SharesChange
<1> QED BY <1>2, <1>3, <1>6, <1>9, <1>10

\* store_position, alone and with the states of the markets.
LEMMA PositionSaved ==
    ASSUME NEW caller \in Accounts, NEW pos \in [Markets -> Books!Positions]
    PROVE  LET new == written(slots, position_slots(caller, pos))
           IN  /\ load_all_interest(new) = load_all_interest(slots)
               /\ \A v \in Accounts :
                     load_position(new, v) = IF v = caller THEN pos ELSE load_position(slots, v)
               /\ SameShares(slots, new)
<1> DEFINE new == written(slots, position_slots(caller, pos))
<1>1. /\ caller \in AccountIDs
      /\ pos \in [Markets -> [collateral : U128, debt : U128, user_borrow_index : U128]]
  BY AccountsType, SameWad DEF Books!Positions
<1>2. /\ load_position(new, caller) = pos
      /\ \A b \in AccountIDs \ {caller} : load_position(new, b) = load_position(slots, b)
      /\ \A b \in AccountIDs, n \in Markets :
            load_supply_shares(new, b, n) = load_supply_shares(slots, b, n)
  BY <1>1, PositionStored
<1>3. SameInterest(slots, new)
  BY <1>1, PositionAlone
<1> HIDE DEF new
<1>4. load_all_interest(new) = load_all_interest(slots)
  BY <1>3 DEF SameInterest, load_all_interest
<1>5. \A v \in Accounts :
          load_position(new, v) = IF v = caller THEN pos ELSE load_position(slots, v)
  BY <1>2, AccountsType
<1> QED BY <1>2, <1>4, <1>5 DEF SameShares, new

LEMMA BooksOf ==
    ASSUME NEW caller \in Accounts, NEW pos,
           \A v \in Accounts :
              load_position(slots', v) = IF v = caller THEN pos ELSE load_position(slots, v),
           \A v \in Accounts, n \in Markets :
              load_supply_shares(slots', v, n) = load_supply_shares(slots, v, n)
    PROVE  /\ BookPositions' = [BookPositions EXCEPT ![caller] = pos]
           /\ BookShares' = BookShares
  BY DEF BookPositions, BookShares

LEMMA PositionCall ==
    ASSUME NEW caller \in Accounts, NEW pos \in [Markets -> Books!Positions],
           slots' = written(slots, position_slots(caller, pos))
    PROVE  /\ VaultsKept
           /\ load_all_interest(slots') = load_all_interest(slots)
           /\ BookPositions' = [BookPositions EXCEPT ![caller] = pos]
           /\ BookShares' = BookShares
<1> DEFINE new == written(slots, position_slots(caller, pos))
<1>1. VaultsKept
  BY HandlersKeepVaults
<1>2. slots' = new
  OBVIOUS
<1>3. /\ load_all_interest(new) = load_all_interest(slots)
      /\ \A v \in Accounts :
            load_position(new, v) = IF v = caller THEN pos ELSE load_position(slots, v)
      /\ SameShares(slots, new)
  BY PositionSaved
<1> HIDE DEF new
<1>4. \A v \in Accounts, n \in Markets :
            load_supply_shares(slots', v, n) = load_supply_shares(slots, v, n)
  BY <1>2, <1>3, AccountsType DEF SameShares
<1> QED BY <1>1, <1>2, <1>3, <1>4, BooksOf

\* What was stored first is still there after states are.
LEMMA ThenInterest ==
    ASSUME NEW caller \in Accounts, NEW pos \in [Markets -> Books!Positions], NEW mid, NEW states,
           mid = written(slots, position_slots(caller, pos)),
           load_all_interest(slots') = states,
           SamePositions(mid, slots'), SameShares(mid, slots')
    PROVE  /\ BookPositions' = [BookPositions EXCEPT ![caller] = pos]
           /\ BookShares' = BookShares
<1>1. /\ \A v \in Accounts :
            load_position(mid, v) = IF v = caller THEN pos ELSE load_position(slots, v)
      /\ SameShares(slots, mid)
  BY PositionSaved
<1>2. \A v \in Accounts :
            load_position(slots', v) = IF v = caller THEN pos ELSE load_position(slots, v)
  BY <1>1, AccountsType DEF SamePositions
<1>3. \A v \in Accounts, n \in Markets :
            load_supply_shares(slots', v, n) = load_supply_shares(slots, v, n)
  BY <1>1, AccountsType DEF SameShares
<1> QED BY <1>2, <1>3, BooksOf

LEMMA DebtCall ==
    ASSUME NEW caller \in Accounts, NEW pos \in [Markets -> Books!Positions],
           NEW states \in [Markets -> GoodInterest],
           slots' = written(written(slots, position_slots(caller, pos)),
                            all_interest_slots(states))
    PROVE  /\ VaultsKept
           /\ load_all_interest(slots') = states
           /\ BookPositions' = [BookPositions EXCEPT ![caller] = pos]
           /\ BookShares' = BookShares
<1> DEFINE mid == written(slots, position_slots(caller, pos))
           new == written(mid, all_interest_slots(states))
<1>1. VaultsKept
  BY HandlersKeepVaults
<1>2. slots' = new
  OBVIOUS
<1>3. mid = written(slots, position_slots(caller, pos))
  OBVIOUS
<1> HIDE DEF mid
<1>4. load_all_interest(new) = states /\ SamePositions(mid, new) /\ SameShares(mid, new)
  BY AllInterestStored
<1> HIDE DEF new
<1> QED BY <1>1, <1>2, <1>3, <1>4, ThenInterest

LEMMA RepayCall ==
    ASSUME NEW caller \in Accounts, NEW pos \in [Markets -> Books!Positions],
           NEW m \in Markets, NEW s \in GoodInterest,
           slots' = written(written(slots, position_slots(caller, pos)), interest_slots(m, s))
    PROVE  /\ VaultsKept
           /\ load_all_interest(slots') = [load_all_interest(slots) EXCEPT ![m] = s]
           /\ BookPositions' = [BookPositions EXCEPT ![caller] = pos]
           /\ BookShares' = BookShares
<1> DEFINE mid == written(slots, position_slots(caller, pos))
           new == written(mid, interest_slots(m, s))
<1>1. VaultsKept
  BY HandlersKeepVaults
<1>2. slots' = new
  OBVIOUS
<1>3. /\ mid = written(slots, position_slots(caller, pos))
      /\ load_all_interest(mid) = load_all_interest(slots)
  BY PositionSaved
<1> HIDE DEF mid
<1>4. /\ load_all_interest(new) = [load_all_interest(mid) EXCEPT ![m] = s]
      /\ SamePositions(mid, new) /\ SameShares(mid, new)
  BY InterestStored
<1> HIDE DEF new
<1> QED BY <1>1, <1>2, <1>3, <1>4, ThenInterest

(***************************************************************************)
(* What the calls leave behind can be stored.                              *)
(***************************************************************************)
LEMMA SharesKept ==
    ASSUME EInv, NEW caller \in Accounts, NEW m \in Markets, NEW s, Stored(s, m),
           NEW sum \in Nat, UNCHANGED <<now, feed>>, VaultsKept,
           load_all_interest(slots') = [load_all_interest(slots) EXCEPT ![m] = s],
           BookPositions' = BookPositions,
           BookShares' = [BookShares EXCEPT ![caller][m] = sum],
           wallet' \in [Accounts -> [Markets -> Nat]],
           vault_balance' \in [Vaults -> [Markets -> Nat]]
    PROVE  EInv'
<1>1. \A n \in Markets : Stored([load_all_interest(slots) EXCEPT ![m] = s][n], n)
  BY OneMarketStored
<1>2. \A v \in Accounts, n \in Markets :
          /\ BookPositions'[v][n] \in Books!Positions
          /\ BookPositions'[v][n].user_borrow_index = BookPositions[v][n].user_borrow_index
  BY AccountType
<1>3. \A v \in Accounts, n \in Markets : BookShares'[v][n] \in Nat
  BY SharesChanged
<1> QED BY <1>1, <1>2, <1>3, LoadedKept

LEMMA PositionsKept ==
    ASSUME EInv, NEW caller \in Accounts, NEW pos \in [Markets -> Books!Positions],
           NEW states, \A n \in Markets : Stored(states[n], n),
           now' = now, feed' = feed, VaultsKept,
           load_all_interest(slots') = states,
           BookPositions' = [BookPositions EXCEPT ![caller] = pos],
           BookShares' = BookShares,
           \A n \in Markets :
              \/ pos[n].user_borrow_index = position_of(caller)[n].user_borrow_index
              \/ pos[n].user_borrow_index = states[n].borrow_index,
           wallet' \in [Accounts -> [Markets -> Nat]],
           vault_balance' \in [Vaults -> [Markets -> Nat]]
    PROVE  EInv'
<1>1. ASSUME NEW v \in Accounts, NEW n \in Markets
      PROVE  /\ BookPositions'[v][n] \in Books!Positions
             /\ \/ BookPositions'[v][n].user_borrow_index
                      = BookPositions[v][n].user_borrow_index
                \/ BookPositions'[v][n].user_borrow_index = states[n].borrow_index
  <2>1. BookPositions'[v] = IF v = caller THEN pos ELSE BookPositions[v]
    BY DEF BookPositions
  <2> QED BY <2>1, AccountType
<1>2. \A v \in Accounts, n \in Markets : BookShares'[v][n] \in Nat
  BY AccountType
<1> QED BY <1>1, <1>2, LoadedKept

(***************************************************************************)
(* supply and withdraw.                                                    *)
(***************************************************************************)
LEMMA SupplyKept ==
    ASSUME EInv, NEW u \in Senders, NEW caller \in Accounts, NEW m \in Markets,
           NEW amount \in Amounts, amount \in Nat,
           SupplyAt(u, caller, m, amount, Books!accrued(m))
    PROVE  EInv' /\ (caller = u => Books!Supply(u, m, amount))
<1> DEFINE state == Books!accrued(m)
           booked == Books!book_supply(state, amount)
           sum == load_supply_shares(slots, caller, m) + Books!minted(amount, state)
           mid == written(slots, interest_slots(m, booked))
<1>1. /\ amount <= wallet[u][m]
      /\ Books!supply_ok(caller, m, amount, state)
      /\ slots' = written(mid, shares_slot(caller, m, sum))
      /\ wallet' = [wallet EXCEPT ![u][m] = @ - amount]
      /\ vault_deposit(m, amount)
      /\ UNCHANGED <<now, feed, held, data>>
  BY DEF SupplyAt
<1>2. Books!can_accrue(m) /\ Fits(state.total_supply + amount)
      /\ wad_div_ok(amount, state.supply_index)
  BY <1>1, SameWad DEF Books!supply_ok
<1>3. Stored(state, m)
  BY <1>2, AccruedStored
<1> HIDE DEF state
<1>4. /\ state.total_supply \in Nat /\ state.supply_index \in Nat
      /\ booked.total_supply = state.total_supply + amount
      /\ booked.borrow_index = state.borrow_index
  BY <1>3, StoredIsGood DEF Books!book_supply, Stored, InterestStates
<1>5. Stored(booked, m)
  BY <1>2, <1>3, <1>4 DEF Stored, InterestStates, U128, Fits, Books!book_supply
<1>6. Books!minted(amount, state) \in Nat /\ sum \in Nat
  <2>1. wad_div(amount, state.supply_index) \in Nat
    BY <1>2, <1>4, WadDivType DEF U128
  <2>2. load_supply_shares(slots, caller, m) \in Nat
    BY AccountType
  <2> QED BY <2>1, <2>2, SameWad DEF Books!minted
<1> HIDE DEF booked, sum
<1>7. /\ VaultsKept
      /\ load_all_interest(slots') = [load_all_interest(slots) EXCEPT ![m] = booked]
      /\ BookPositions' = BookPositions
      /\ BookShares' = [BookShares EXCEPT ![caller][m] = sum]
  BY <1>1, <1>5, SharesCall DEF mid
<1>8. /\ vault_balance' \in [Vaults -> [Markets -> Nat]]
      /\ BookCash' = [BookCash EXCEPT ![m] = @ + amount]
  BY <1>1, <1>7, CashIn
<1>9. EInv'
  BY <1>1, <1>5, <1>6, <1>7, <1>8, SharesKept, WalletPays, AccountsType
<1>10. ASSUME caller = u PROVE Books!Supply(u, m, amount)
  <2>1. /\ BookShares[u][m] + Books!minted(amount, state) = sum
    BY <1>10, AccountType DEF sum
  <2> QED BY <1>1, <1>7, <1>8, <1>10, <2>1
       DEF Books!Supply, Books!SupplyAt, Books!attached, BookPositions, BookShares, BookCash,
           state, booked
<1> QED BY <1>9, <1>10

LEMMA WithdrawKept ==
    ASSUME EInv, NEW caller \in Accounts, NEW m \in Markets,
           NEW burned \in Amounts, burned \in Nat,
           WithdrawAt(caller, m, burned, Books!accrued(m))
    PROVE  EInv' /\ Books!Withdraw(caller, m, burned)
<1> DEFINE state == Books!accrued(m)
           amount == Books!redeemed(burned, state)
           booked == Books!book_withdraw(state, amount)
           rest == load_supply_shares(slots, caller, m) - burned
           mid == written(slots, interest_slots(m, booked))
<1>1. /\ Books!withdraw_ok(caller, m, burned, state)
      /\ vault_withdraw(m, amount)
      /\ slots' = written(mid, shares_slot(caller, m, rest))
      /\ wallet' = transfer_to(wallet, caller, m, amount)
      /\ UNCHANGED <<now, feed, held, data>>
  BY DEF WithdrawAt
<1>2. /\ Books!can_accrue(m) /\ amount <= state.total_supply
      /\ burned <= BookShares[caller][m]
  BY <1>1 DEF Books!withdraw_ok, BookShares
<1>3. Stored(state, m)
  BY <1>2, AccruedStored
<1> HIDE DEF state
<1>4. state.total_supply \in Nat /\ amount \in Nat
  BY <1>3, StoredIsGood, SameWad, WadMulType DEF Books!redeemed
<1> HIDE DEF amount
<1>5. /\ booked.total_supply = state.total_supply - amount
      /\ booked.borrow_index = state.borrow_index
      /\ state.total_supply \in U128 /\ state.total_supply - amount \in U128
  BY <1>2, <1>3, <1>4, Scales DEF Books!book_withdraw, Stored, InterestStates, U128
<1>6. Stored(booked, m)
  BY <1>3, <1>5 DEF Stored, InterestStates, Books!book_withdraw
<1>7. rest \in Nat /\ rest = BookShares[caller][m] - burned
  BY <1>2, AccountType
<1> HIDE DEF booked, rest
<1>8. /\ VaultsKept
      /\ load_all_interest(slots') = [load_all_interest(slots) EXCEPT ![m] = booked]
      /\ BookPositions' = BookPositions
      /\ BookShares' = [BookShares EXCEPT ![caller][m] = rest]
  BY <1>1, <1>6, SharesCall DEF mid
<1>9. /\ vault_balance' \in [Vaults -> [Markets -> Nat]]
      /\ BookCash' = [BookCash EXCEPT ![m] = @ - amount]
  BY <1>1, <1>4, <1>8, CashOut
<1>10. EInv'
  <2>1. wallet' \in [Accounts -> [Markets -> Nat]]
    BY <1>1, <1>4, WalletGets DEF EInv, Balances
  <2> QED BY <1>1, <1>6, <1>7, <1>8, <1>9, <2>1, SharesKept
<1>11. Books!Withdraw(caller, m, burned)
  BY <1>1, <1>7, <1>8, <1>9
     DEF Books!Withdraw, Books!WithdrawAt, transfer_to, BookPositions, BookShares, BookCash,
         state, booked, amount
<1> QED BY <1>10, <1>11

(***************************************************************************)
(* deposit_collateral and withdraw_collateral.                             *)
(***************************************************************************)
LEMMA DepositKept ==
    ASSUME EInv, NEW u \in Senders, NEW caller \in Accounts, NEW m \in Markets,
           NEW amount \in Amounts, amount \in Nat,
           DepositAt(u, caller, m, amount, position_of(caller))
    PROVE  EInv' /\ (caller = u => Books!DepositCollateral(u, m, amount))
<1> DEFINE pos == [position_of(caller) EXCEPT ![m].collateral = @ + amount]
<1>1. /\ amount <= wallet[u][m]
      /\ Books!deposit_ok(caller, m, amount)
      /\ slots' = written(slots, position_slots(caller, pos))
      /\ wallet' = [wallet EXCEPT ![u][m] = @ - amount]
      /\ held' = [held EXCEPT ![m] = @ + amount]
      /\ UNCHANGED <<now, feed, vault_balance, data>>
  BY DEF DepositAt
<1>2. /\ position_of(caller) \in [Markets -> Books!Positions]
      /\ position_of(caller)[m].collateral \in Nat
      /\ Fits(position_of(caller)[m].collateral + amount)
  BY <1>1, AccountType, SameWad DEF Books!deposit_ok, BookPositions
<1>3. position_of(caller)[m].collateral + amount \in U128
  BY <1>2 DEF Fits, U128
<1>4. /\ pos \in [Markets -> Books!Positions]
      /\ \A n \in Markets :
            pos[n].user_borrow_index = position_of(caller)[n].user_borrow_index
  BY <1>2, <1>3, SameWad DEF Books!Positions
<1>5. pos = [BookPositions[caller] EXCEPT ![m].collateral = @ + amount]
  BY AccountType
<1> HIDE DEF pos
<1>6. /\ VaultsKept
      /\ load_all_interest(slots') = load_all_interest(slots)
      /\ BookPositions' = [BookPositions EXCEPT ![caller] = pos]
      /\ BookShares' = BookShares
  BY <1>1, <1>4, PositionCall
<1>7. vault_balance' \in [Vaults -> [Markets -> Nat]] /\ BookCash' = BookCash
  BY <1>1, <1>6, CashStays
<1>8. EInv'
  <2>1. wallet' \in [Accounts -> [Markets -> Nat]]
    BY <1>1, WalletPays, AccountsType
  <2>2. now' = now /\ feed' = feed /\ \A n \in Markets : Stored(load_all_interest(slots)[n], n)
    BY <1>1, MarketType
  <2> QED BY <1>4, <1>6, <1>7, <2>1, <2>2, PositionsKept
<1>9. ASSUME caller = u PROVE Books!DepositCollateral(u, m, amount)
  BY <1>1, <1>5, <1>6, <1>7, <1>9
     DEF Books!DepositCollateral, Books!attached, BookPositions, BookShares, BookCash
<1> QED BY <1>8, <1>9

LEMMA WithdrawCollateralKept ==
    ASSUME EInv, NEW caller \in Accounts, NEW m \in Markets,
           NEW amount \in Amounts, amount \in Nat,
           WithdrawCollateralAt(caller, m, amount)
    PROVE  EInv' /\ Books!WithdrawCollateral(caller, m, amount)
<1> DEFINE pos == Books!without_collateral(position_of(caller), m, amount)
<1>1. /\ Books!withdraw_collateral_ok(caller, m, amount)
      /\ slots' = written(slots, position_slots(caller, pos))
      /\ wallet' = transfer_to(wallet, caller, m, amount)
      /\ held' = [held EXCEPT ![m] = @ - amount]
      /\ UNCHANGED <<now, feed, vault_balance, data>>
  BY DEF WithdrawCollateralAt
<1>2. /\ position_of(caller) \in [Markets -> Books!Positions]
      /\ position_of(caller)[m].collateral \in U128
      /\ amount <= position_of(caller)[m].collateral
  BY <1>1, AccountType, SameWad DEF Books!withdraw_collateral_ok, BookPositions, Books!Positions
<1>3. position_of(caller)[m].collateral - amount \in U128
  BY <1>2, Scales DEF U128
<1>4. /\ pos \in [Markets -> Books!Positions]
      /\ \A n \in Markets :
            pos[n].user_borrow_index = position_of(caller)[n].user_borrow_index
  BY <1>2, <1>3, SameWad DEF Books!Positions, Books!without_collateral
<1>5. pos = Books!without_collateral(BookPositions[caller], m, amount)
  BY AccountType
<1> HIDE DEF pos
<1>6. /\ VaultsKept
      /\ load_all_interest(slots') = load_all_interest(slots)
      /\ BookPositions' = [BookPositions EXCEPT ![caller] = pos]
      /\ BookShares' = BookShares
  BY <1>1, <1>4, PositionCall
<1>7. vault_balance' \in [Vaults -> [Markets -> Nat]] /\ BookCash' = BookCash
  BY <1>1, <1>6, CashStays
<1>8. EInv'
  <2>1. wallet' \in [Accounts -> [Markets -> Nat]]
    BY <1>1, WalletGets DEF EInv, Balances
  <2>2. now' = now /\ feed' = feed /\ \A n \in Markets : Stored(load_all_interest(slots)[n], n)
    BY <1>1, MarketType
  <2> QED BY <1>4, <1>6, <1>7, <2>1, <2>2, PositionsKept
<1>9. Books!WithdrawCollateral(caller, m, amount)
  BY <1>1, <1>5, <1>6, <1>7
     DEF Books!WithdrawCollateral, transfer_to, BookPositions, BookShares, BookCash
<1> QED BY <1>8, <1>9

(***************************************************************************)
(* borrow, repay and liquidate.                                            *)
(***************************************************************************)

\* What is owed at the index of a state that can be stored.
LEMMA OwedType ==
    ASSUME EInv, NEW u \in Accounts, NEW m \in Markets, NEW s, Stored(s, m)
    PROVE  Books!debt_at(position_of(u)[m], s.borrow_index) \in Nat
<1>1. s.borrow_index \in Nat
  BY StoredIsGood
<1> DEFINE debt == position_of(u)[m].debt
           at == position_of(u)[m].user_borrow_index
<1>2. debt \in Nat /\ at \in Nat \ {0}
  BY AccountType
<1>3. Books!debt_at(position_of(u)[m], s.borrow_index) = get_actual_debt(debt, at, s.borrow_index)
  BY DEF Books!debt_at, Books!get_actual_debt, get_actual_debt
<1> HIDE DEF debt, at
<1> QED BY <1>1, <1>2, <1>3, DebtType

LEMMA ScaledType ==
    ASSUME NEW amount \in Nat, NEW index \in Nat, Books!scaled_debt_ok(amount, index)
    PROVE  Books!to_scaled_debt(amount, index) \in U128
<1>1. /\ scaled_debt_ok(amount, index)
      /\ Books!to_scaled_debt(amount, index) = to_scaled_debt(amount, index)
  BY SameWad DEF Books!scaled_debt_ok, scaled_debt_ok, Books!to_scaled_debt, to_scaled_debt
<1> QED BY <1>1, ScaledDebtType

LEMMA ActualDebt ==
    ASSUME NEW pos \in [Markets -> Books!Positions], NEW states, NEW m \in Markets
    PROVE  Books!actual_position(pos, states)[m].debt
               = Books!debt_at(pos[m], states[m].borrow_index)
  BY DEF Books!Positions, Books!actual_position, Books!debt_owed, Markets,
     ASSET_XRP, ASSET_RLUSD, ASSET_WBTC,
     Books!ASSET_XRP, Books!ASSET_RLUSD, Books!ASSET_WBTC

LEMMA BorrowKept ==
    ASSUME EInv, NEW caller \in Accounts, NEW m \in Markets,
           NEW amount \in Amounts, amount \in Nat,
           BorrowAt(caller, m, amount, [load_all_interest(slots) EXCEPT ![m] = Books!accrued(m)])
    PROVE  EInv' /\ Books!Borrow(caller, m, amount)
<1> DEFINE state == Books!accrued(m)
           states == [load_all_interest(slots) EXCEPT ![m] = state]
           booked == Books!book_borrow(state, amount)
           kept == [states EXCEPT ![m] = Books!book_borrow(@, amount)]
           pos == [position_of(caller) EXCEPT
                      ![m] = Books!borrowed(@, amount, states[m].borrow_index)]
           mid == written(slots, position_slots(caller, pos))
<1>1. /\ Books!borrow_ok(caller, m, amount, states)
      /\ vault_withdraw(m, amount)
      /\ slots' = written(mid, all_interest_slots(kept))
      /\ wallet' = transfer_to(wallet, caller, m, amount)
      /\ UNCHANGED <<now, feed, held, data>>
  BY DEF BorrowAt
<1>2. states[m] = state
  BY DEF load_all_interest
<1>3. /\ Books!can_accrue(m) /\ amount <= state.total_supply
      /\ Fits(state.total_borrows + amount)
      /\ Books!scaled_debt_ok(Books!actual_position(BookPositions[caller], states)[m].debt
                                  + amount, state.borrow_index)
  BY <1>1, <1>2, SameWad DEF Books!borrow_ok, BookPositions
<1>4. Stored(state, m)
  BY <1>3, AccruedStored
<1> HIDE DEF state
<1>5. kept = [load_all_interest(slots) EXCEPT ![m] = booked]
  BY <1>2 DEF load_all_interest
<1>6. Stored(booked, m) /\ booked.borrow_index = state.borrow_index
  <2>1. /\ state.total_borrows + amount \in U128
        /\ state.total_supply - amount \in U128
    BY <1>3, <1>4, StoredIsGood, Scales DEF Fits, U128, Stored, InterestStates
  <2> QED BY <1>4, <2>1 DEF Stored, InterestStates, Books!book_borrow
<1>7. Books!debt_at(position_of(caller)[m], state.borrow_index) \in Nat
      /\ state.borrow_index \in U128 /\ state.borrow_index \in Nat
  BY <1>4, OwedType, StoredIsGood
<1>8. Books!borrowed(position_of(caller)[m], amount, state.borrow_index) \in Books!Positions
      /\ Books!borrowed(position_of(caller)[m], amount, state.borrow_index).user_borrow_index
            = state.borrow_index
  <2>1. Books!actual_position(BookPositions[caller], states)[m].debt
            = Books!debt_at(position_of(caller)[m], state.borrow_index)
    <3>1. /\ position_of(caller) \in [Markets -> Books!Positions]
          /\ position_of(caller) = BookPositions[caller]
      BY AccountType
    <3> HIDE DEF states
    <3>2. Books!actual_position(position_of(caller), states)[m].debt
              = Books!debt_at(position_of(caller)[m], states[m].borrow_index)
      BY <3>1, ActualDebt
    <3> QED BY <1>2, <3>1, <3>2
  <2>2. Books!to_scaled_debt(Books!debt_at(position_of(caller)[m], state.borrow_index) + amount,
                             state.borrow_index) \in U128
    BY <1>3, <1>7, <2>1, ScaledType
  <2>3. position_of(caller)[m] \in Books!Positions
    BY AccountType
  <2> QED BY <1>7, <2>2, <2>3, SameWad
          DEF Books!borrowed, Books!with_debt, Books!Positions
<1>9. /\ pos \in [Markets -> Books!Positions]
      /\ \A n \in Markets :
            \/ pos[n].user_borrow_index = position_of(caller)[n].user_borrow_index
            \/ pos[n].user_borrow_index = kept[n].borrow_index
  BY <1>2, <1>5, <1>6, <1>8, AccountType DEF load_all_interest
<1>10. pos = [BookPositions[caller] EXCEPT
                 ![m] = Books!borrowed(@, amount, states[m].borrow_index)]
  BY AccountType
<1>11. kept \in [Markets -> GoodInterest] /\ \A n \in Markets : Stored(kept[n], n)
  BY <1>5, <1>6, OneMarketStored
<1> HIDE DEF kept, pos
<1>12. /\ VaultsKept
       /\ load_all_interest(slots') = kept
       /\ BookPositions' = [BookPositions EXCEPT ![caller] = pos]
       /\ BookShares' = BookShares
  BY <1>1, <1>9, <1>11, DebtCall DEF mid
<1>13. /\ vault_balance' \in [Vaults -> [Markets -> Nat]]
       /\ BookCash' = [BookCash EXCEPT ![m] = @ - amount]
  BY <1>1, <1>12, CashOut
<1>14. EInv'
  <2>1. wallet' \in [Accounts -> [Markets -> Nat]]
    BY <1>1, WalletGets DEF EInv, Balances
  <2>2. now' = now /\ feed' = feed
    BY <1>1
  <2> QED BY <1>9, <1>11, <1>12, <1>13, <2>1, <2>2, PositionsKept
<1>15. Books!Borrow(caller, m, amount)
  <2>1. BookPositions' = [BookPositions EXCEPT
                ![caller][m] = Books!borrowed(@, amount, states[m].borrow_index)]
    BY <1>10, <1>12 DEF BookPositions
  <2> QED BY <1>1, <1>12, <1>13, <2>1
       DEF Books!Borrow, Books!BorrowAt, transfer_to, BookPositions, BookShares, BookCash,
           state, kept
<1> QED BY <1>14, <1>15

\* The market a repayment of `repaid` leaves behind.
LEMMA BookedRepay ==
    ASSUME EInv, NEW m \in Markets, NEW s, Stored(s, m), NEW repaid \in Nat,
           Fits(s.total_supply + repaid)
    PROVE  /\ Stored(Books!book_repay(s, repaid), m)
           /\ Books!book_repay(s, repaid).borrow_index = s.borrow_index
<1>1. s.total_supply \in Nat /\ s.total_borrows \in Nat /\ s.total_borrows \in U128
      /\ s \in InterestStates
  BY StoredIsGood DEF Stored, InterestStates
<1>2. s.total_supply + repaid \in U128
  BY <1>1 DEF Fits, U128
<1>3. Books!saturating_sub(s.total_borrows, repaid) \in U128
  <2>1. Books!saturating_sub(s.total_borrows, repaid) = saturating_sub(s.total_borrows, repaid)
    BY SameWad
  <2>2. /\ saturating_sub(s.total_borrows, repaid) \in Nat
        /\ saturating_sub(s.total_borrows, repaid) <= s.total_borrows
    BY <1>1, SaturatingSubType
  <2> QED BY <1>1, <2>1, <2>2, Scales DEF U128
<1> QED BY <1>1, <1>2, <1>3 DEF Stored, InterestStates, Books!book_repay

LEMMA RemainingType ==
    ASSUME NEW remaining \in Nat, NEW index \in Nat, Books!remaining_debt_ok(remaining, index)
    PROVE  Books!remaining_debt(remaining, index) \in U128
  BY ScaledType, Scales DEF Books!remaining_debt_ok, Books!remaining_debt

LEMMA RepayKept ==
    ASSUME EInv, NEW u \in Senders, NEW caller \in Accounts, NEW m \in Markets,
           NEW amount \in Amounts, amount \in Nat,
           RepayIn(u, caller, m, amount, Books!accrued(m))
    PROVE  EInv' /\ (caller = u => Books!Repay(u, m, amount))
<1> DEFINE state == Books!accrued(m)
           actual == Books!debt_at(position_of(caller)[m], state.borrow_index)
           repaid == Books!repayment(amount, actual)
           booked == Books!book_repay(state, repaid)
           pos == [position_of(caller) EXCEPT
                      ![m] = Books!repaid_down(@, actual - repaid, state.borrow_index)]
           mid == written(slots, position_slots(caller, pos))
<1>1. /\ amount <= wallet[u][m]
      /\ Books!repay_ok(caller, m, amount, state)
      /\ slots' = written(mid, interest_slots(m, booked))
      /\ wallet' = transfer_to([wallet EXCEPT ![u][m] = @ - amount],
                               caller, m, amount - repaid)
      /\ vault_deposit(m, repaid)
      /\ UNCHANGED <<now, feed, held, data>>
  BY DEF RepayIn, RepayAt
<1>2. /\ Books!can_accrue(m)
      /\ Books!remaining_debt_ok(actual - repaid, state.borrow_index)
      /\ Fits(state.total_supply + repaid)
  BY <1>1, SameWad, AccountType DEF Books!repay_ok, BookPositions
<1>3. Stored(state, m)
  BY <1>2, AccruedStored
<1> HIDE DEF state
<1>4. /\ actual \in Nat /\ state.borrow_index \in U128 /\ state.borrow_index \in Nat
  BY <1>3, OwedType, StoredIsGood
<1>5. actual = Books!debt_at(BookPositions[caller][m], state.borrow_index)
  BY AccountType
<1> HIDE DEF actual
<1>6. /\ repaid \in Nat /\ amount - repaid \in Nat /\ actual - repaid \in Nat
  BY <1>4, SameWad DEF Books!repayment, Min2
<1>7. repaid = Books!repayment(amount, actual)
  OBVIOUS
<1> HIDE DEF repaid
<1>8. Stored(booked, m) /\ booked \in GoodInterest
      /\ booked.borrow_index = state.borrow_index
  BY <1>2, <1>3, <1>6, BookedRepay, StoredIsGood
<1>9. /\ Books!repaid_down(position_of(caller)[m], actual - repaid, state.borrow_index)
            \in Books!Positions
      /\ Books!repaid_down(position_of(caller)[m], actual - repaid, state.borrow_index)
            .user_borrow_index = state.borrow_index
  <2>1. position_of(caller)[m] \in Books!Positions
    BY AccountType
  <2>2. Books!remaining_debt(actual - repaid, state.borrow_index) \in U128
    BY <1>2, <1>4, <1>6, RemainingType
  <2> QED BY <1>4, <2>1, <2>2, SameWad
          DEF Books!repaid_down, Books!with_debt, Books!Positions
<1> DEFINE states == [load_all_interest(slots) EXCEPT ![m] = booked]
<1>10. states[m] = booked /\ \A n \in Markets : Stored(states[n], n)
  BY <1>8, OneMarketStored
<1> HIDE DEF booked
<1>11. /\ pos \in [Markets -> Books!Positions]
       /\ \A n \in Markets :
             \/ pos[n].user_borrow_index = position_of(caller)[n].user_borrow_index
             \/ pos[n].user_borrow_index = states[n].borrow_index
  <2>1. position_of(caller) \in [Markets -> Books!Positions]
    BY AccountType
  <2> HIDE DEF states
  <2>2. pos[m].user_borrow_index = states[m].borrow_index
    BY <1>8, <1>9, <1>10, <2>1
  <2> QED BY <1>9, <2>1, <2>2
<1>12. pos = [BookPositions[caller] EXCEPT
                 ![m] = Books!repaid_down(@, actual - repaid, state.borrow_index)]
  BY AccountType
<1> HIDE DEF pos
<1>13. /\ VaultsKept
       /\ load_all_interest(slots') = states
       /\ BookPositions' = [BookPositions EXCEPT ![caller] = pos]
       /\ BookShares' = BookShares
  BY <1>1, <1>8, <1>11, RepayCall DEF mid
<1>14. /\ vault_balance' \in [Vaults -> [Markets -> Nat]]
       /\ BookCash' = [BookCash EXCEPT ![m] = @ + repaid]
  BY <1>1, <1>6, <1>13, CashIn
<1>15. EInv'
  <2>1. [wallet EXCEPT ![u][m] = @ - amount] \in [Accounts -> [Markets -> Nat]]
    BY <1>1, WalletPays, AccountsType
  <2>2. wallet' \in [Accounts -> [Markets -> Nat]]
    BY <1>1, <1>6, <2>1, WalletGets
  <2>3. now' = now /\ feed' = feed
    BY <1>1
  <2> HIDE DEF states
  <2> QED BY <1>10, <1>11, <1>13, <1>14, <2>2, <2>3, PositionsKept
<1>16. ASSUME caller = u PROVE Books!Repay(u, m, amount)
  <2>1. BookPositions' = [BookPositions EXCEPT
                ![u][m] = Books!repaid_down(@, actual - repaid, state.borrow_index)]
    BY <1>12, <1>13, <1>16 DEF BookPositions
  <2>2. wallet' = [wallet EXCEPT ![u][m] = @ - repaid]
    <3>1. wallet[u][m] \in Nat /\ u \in Accounts
          /\ wallet \in [Accounts -> [Markets -> Nat]]
      BY AccountsType DEF EInv, Balances
    <3>2. (wallet[u][m] - amount) + (amount - repaid) = wallet[u][m] - repaid
      BY <1>6, <3>1
    <3> QED BY <1>1, <1>16, <3>1, <3>2 DEF transfer_to
  <2>3. /\ Books!attached(u, m, amount)
        /\ Books!repay_ok(u, m, amount, state)
    BY <1>1, <1>16 DEF Books!attached
  <2>4. /\ load_all_interest(slots)' = [load_all_interest(slots) EXCEPT
                                            ![m] = Books!book_repay(state, repaid)]
        /\ actual = Books!debt_at(BookPositions[u][m], state.borrow_index)
        /\ repaid = Books!repayment(amount, actual)
    BY <1>5, <1>7, <1>13, <1>16 DEF booked
  <2> QED BY <1>1, <1>13, <1>14, <2>1, <2>2, <2>3, <2>4
       DEF Books!Repay, Books!RepayAt, BookPositions, BookShares, BookCash, state
<1> QED BY <1>15, <1>16

\* What liquidate takes and gives, in the terms of Health.
LEMMA SameLiquidation ==
    \A actual, p, d, amount :
        Books!liquidation_repaid(actual, p, d, amount)
            = Min2(Min2(asset_usd_value(amount, p, d),
                        calculate_max_liquidation(total_debt_usd(actual, p))),
                   asset_usd_value(actual[d].debt, p, d))
                 \div price_per_native(p, d)
<1>1. \A p, m : Books!price_per_native(p, m) = price_per_native(p, m)
  BY DEF Books!price_per_native, price_per_native
<1>2. \A n, p, m : Books!asset_usd_value(n, p, m) = asset_usd_value(n, p, m)
  BY <1>1 DEF Books!asset_usd_value, asset_usd_value
<1>3. \A n : Books!calculate_max_liquidation(n) = calculate_max_liquidation(n)
  BY DEF Books!calculate_max_liquidation, calculate_max_liquidation,
         Books!CLOSE_FACTOR_BPS, CLOSE_FACTOR_BPS
<1>4. \A actual, p : Books!total_debt_usd(actual, p) = total_debt_usd(actual, p)
  BY <1>2, SameHealth DEF Books!total_debt_usd, total_debt_usd, Books!OverMarkets, OverMarkets,
     Books!ASSET_XRP, Books!ASSET_RLUSD, Books!ASSET_WBTC, ASSET_XRP, ASSET_RLUSD, ASSET_WBTC
<1> QED BY <1>1, <1>2, <1>3, <1>4, SameWad DEF Books!liquidation_repaid

LEMMA LiquidateKept ==
    ASSUME EInv, NEW u \in Senders, NEW caller \in Accounts, caller = get_caller(u),
           NEW borrower \in Accounts, NEW d \in Markets, NEW c \in Markets,
           NEW raw \in RawAmounts, liquidate(u, borrower, d, c, raw)
    PROVE  EInv' /\ (caller = u => Books!Liquidate(u, borrower, d, c, read_param(raw)))
<1> DEFINE amount == read_param(raw)
           states == [load_all_interest(slots) EXCEPT ![d] = Books!accrued(d),
                                                      ![c] = Books!accrued(c)]
           actual == Books!actual_position(position_of(borrower), states)
           prices == get_all_prices(feed)
           repaid == Books!liquidation_repaid(actual, prices, d, amount)
           seized == collateral_to_seize(repaid, prices, d, c, V1_MARKETS[c].liquidation_bonus)
           remaining == saturating_sub(actual[d].debt, repaid)
           kept == [states EXCEPT ![d] = Books!book_repay(@, repaid)]
           pos == Books!seized_position(borrower, d, c, states, seized, remaining)
           mid == written(slots, position_slots(borrower, pos))
<1>1. /\ amount <= wallet[u][d]
      /\ Books!liquidate_ok(borrower, d, c, amount, states, actual, prices, repaid)
      /\ Books!seize_ok(borrower, d, c, states, repaid, seized, remaining)
      /\ slots' = written(mid, all_interest_slots(kept))
      /\ wallet' = transfer_to([wallet EXCEPT ![u][d] = @ - amount], caller, c, seized)
      /\ held' = [held EXCEPT ![d] = @ + (amount - repaid), ![c] = @ - seized]
      /\ vault_deposit(d, repaid)
      /\ UNCHANGED <<now, feed, data>>
  BY DEF liquidate, LiquidateOf, LiquidateIn, LiquidateAt, SeizeAt
<1>2. /\ d # c /\ Books!can_accrue(d) /\ Books!can_accrue(c)
      /\ price_per_native(prices, d) # 0 /\ price_per_native(prices, c) # 0
  BY <1>1 DEF Books!liquidate_ok, Books!liquidation_amounts_ok,
              Books!price_per_native, price_per_native
<1>3. /\ Books!remaining_debt_ok(remaining, states[d].borrow_index)
      /\ Fits(states[d].total_supply + repaid)
  BY <1>1, SameWad DEF Books!seize_ok
<1>4. amount \in Nat /\ amount \in Amounts
  BY ParameterTypes
<1> HIDE DEF amount
<1>5. Stored(Books!accrued(d), d) /\ Stored(Books!accrued(c), c)
  BY <1>2, AccruedStored
<1>6. \A n \in Markets : Stored(states[n], n)
  <2>1. ASSUME NEW n \in Markets
        PROVE  states[n] = IF n = c THEN Books!accrued(c)
                           ELSE IF n = d THEN Books!accrued(d) ELSE load_interest(slots, n)
    BY DEF load_all_interest
  <2> HIDE DEF states
  <2> QED BY <1>5, <2>1, MarketType
<1>7. states = [n \in Markets |-> states[n]]
  BY DEF load_all_interest
<1>8. states = [load_all_interest(slots) EXCEPT ![d] = Books!accrued(d),
                                                ![c] = Books!accrued(c)]
  OBVIOUS
<1> HIDE DEF states
<1>9. \A n \in Markets : /\ states[n].borrow_index \in Nat /\ states[n].borrow_index \in U128
  BY <1>6, StoredIsGood
<1>10. \A n \in Markets : actual[n].debt \in Nat
  <2>1. ASSUME NEW n \in Markets PROVE actual[n].debt \in Nat
    <3>1. position_of(borrower) \in [Markets -> Books!Positions]
      BY AccountType
    <3>2. actual[n].debt = Books!debt_at(position_of(borrower)[n], states[n].borrow_index)
      BY <3>1, ActualDebt
    <3> QED BY <1>6, <3>2, OwedType
  <2> QED BY <2>1
<1>11. prices \in [Markets -> Nat]
  BY PricesOfFeed DEF EInv, Ledger
<1>12. /\ actual = Books!actual_position(position_of(borrower), states)
       /\ prices = get_all_prices(feed)
  OBVIOUS
<1> HIDE DEF actual, prices
<1>13. repaid \in Nat /\ repaid <= amount
  BY <1>2, <1>4, <1>10, <1>11, RepaymentBound, SameLiquidation
<1>14. repaid = Books!liquidation_repaid(actual, prices, d, amount)
  OBVIOUS
<1> HIDE DEF repaid
<1>15. seized \in Nat
  <2>1. V1_MARKETS[c].liquidation_bonus \in Nat
    BY BooksAssumption DEF MarketConfigs
  <2> QED BY <1>2, <1>11, <1>13, <2>1, SeizedType
<1>16. remaining \in Nat
  BY <1>10, <1>13, SaturatingSubType
<1>17. /\ seized = collateral_to_seize(repaid, prices, d, c, V1_MARKETS[c].liquidation_bonus)
       /\ remaining = saturating_sub(actual[d].debt, repaid)
  OBVIOUS
<1> HIDE DEF seized, remaining
<1> DEFINE booked == Books!book_repay(states[d], repaid)
<1>18. /\ Stored(booked, d) /\ booked.borrow_index = states[d].borrow_index
  BY <1>3, <1>6, <1>13, BookedRepay
<1>19. kept \in [Markets -> GoodInterest] /\ (\A n \in Markets : Stored(kept[n], n))
       /\ kept[d].borrow_index = states[d].borrow_index
  <2>1. \A n \in Markets : kept[n] = IF n = d THEN booked ELSE states[n]
    BY <1>7
  <2>2. kept = [n \in Markets |-> kept[n]]
    BY <1>7
  <2> HIDE DEF kept, booked
  <2>3. \A n \in Markets : Stored(kept[n], n)
    BY <1>6, <1>18, <2>1
  <2>4. \A n \in Markets : kept[n] \in GoodInterest
    BY <2>3, StoredIsGood
  <2> QED BY <1>18, <2>1, <2>2, <2>3, <2>4
<1>20. kept = [states EXCEPT ![d] = Books!book_repay(@, repaid)]
  OBVIOUS
<1> HIDE DEF kept, booked
<1>21. /\ pos \in [Markets -> Books!Positions]
       /\ \A n \in Markets :
             \/ pos[n].user_borrow_index = position_of(borrower)[n].user_borrow_index
             \/ pos[n].user_borrow_index = kept[n].borrow_index
  <2> DEFINE index == states[d].borrow_index
             debt == Books!remaining_debt(remaining, index)
             old == position_of(borrower)
             less == Books!saturating_sub(old[c].collateral, seized)
  <2>1. old \in [Markets -> Books!Positions] /\ old = BookPositions[borrower]
    BY AccountType
  <2>2. debt \in U128 /\ index \in U128
    BY <1>3, <1>9, <1>16, RemainingType
  <2>3. less \in U128
    <3>1. old[c].collateral \in Nat /\ old[c].collateral <= U128_MAX
      BY <2>1, SameWad, Scales DEF Books!Positions, U128
    <3>2. less = saturating_sub(old[c].collateral, seized)
      BY SameWad
    <3> HIDE DEF less, old
    <3>3. saturating_sub(old[c].collateral, seized) \in Nat
          /\ saturating_sub(old[c].collateral, seized) <= old[c].collateral
      BY <1>15, <3>1, SaturatingSubType
    <3> QED BY <3>1, <3>2, <3>3, Scales DEF U128
  <2>4. pos = [old EXCEPT ![d] = [@ EXCEPT !.debt = debt, !.user_borrow_index = index],
                          ![c].collateral = less]
    BY <1>2, <2>1 DEF Books!seized_position, Books!liquidated, Books!with_debt, BookPositions
  <2> HIDE DEF pos, old, debt, index, less
  <2>5. pos \in [Markets -> Books!Positions]
    <3>1. /\ pos = [n \in Markets |-> pos[n]]
          /\ pos[d] = [old[d] EXCEPT !.debt = debt, !.user_borrow_index = index]
          /\ pos[c] = [old[c] EXCEPT !.collateral = less]
          /\ \A n \in Markets \ {c, d} : pos[n] = old[n]
      BY <1>2, <2>1, <2>4
    <3>2. pos[d] \in Books!Positions
      BY <2>1, <2>2, <3>1, SameWad DEF Books!Positions
    <3>3. pos[c] \in Books!Positions
      BY <2>1, <2>3, <3>1, SameWad DEF Books!Positions
    <3> QED BY <2>1, <3>1, <3>2, <3>3
  <2>6. \A n \in Markets : pos[n].user_borrow_index
            = IF n = d THEN index ELSE old[n].user_borrow_index
    BY <1>2, <2>1, <2>4 DEF Books!Positions
  <2> QED BY <1>19, <2>5, <2>6 DEF old, index
<1> HIDE DEF pos
<1>22. /\ VaultsKept
       /\ load_all_interest(slots') = kept
       /\ BookPositions' = [BookPositions EXCEPT ![borrower] = pos]
       /\ BookShares' = BookShares
  BY <1>1, <1>19, <1>21, DebtCall DEF mid
<1>23. /\ vault_balance' \in [Vaults -> [Markets -> Nat]]
       /\ BookCash' = [BookCash EXCEPT ![d] = @ + repaid]
  BY <1>1, <1>13, <1>22, CashIn
<1>24. EInv'
  <2>1. [wallet EXCEPT ![u][d] = @ - amount] \in [Accounts -> [Markets -> Nat]]
    BY <1>1, <1>4, WalletPays, AccountsType
  <2>2. wallet' \in [Accounts -> [Markets -> Nat]]
    BY <1>1, <1>15, <2>1, WalletGets
  <2>3. now' = now /\ feed' = feed
    BY <1>1
  <2>4. \A n \in Markets : Stored(kept[n], n)
    BY <1>19
  <2>5. /\ pos \in [Markets -> Books!Positions]
        /\ vault_balance' \in [Vaults -> [Markets -> Nat]]
        /\ BookPositions' = [BookPositions EXCEPT ![borrower] = pos]
        /\ BookShares' = BookShares
        /\ load_all_interest(slots') = kept
        /\ VaultsKept
    BY <1>21, <1>22, <1>23
  <2>6. \A n \in Markets :
           \/ pos[n].user_borrow_index = position_of(borrower)[n].user_borrow_index
           \/ pos[n].user_borrow_index = kept[n].borrow_index
    BY <1>21
  <2> HIDE DEF mid
  <2>7. \A v \in Accounts : BookPositions'[v] = IF v = borrower THEN pos ELSE BookPositions[v]
    BY <2>5 DEF BookPositions
  <2>8. \A v \in Accounts, n \in Markets :
           /\ BookPositions'[v][n] \in Books!Positions
           /\ \/ BookPositions'[v][n].user_borrow_index
                    = BookPositions[v][n].user_borrow_index
              \/ BookPositions'[v][n].user_borrow_index = kept[n].borrow_index
           /\ BookShares'[v][n] \in Nat
    BY <2>5, <2>6, <2>7, AccountType
  <2> QED BY <2>2, <2>3, <2>4, <2>5, <2>8, LoadedKept
<1>25. ASSUME caller = u PROVE Books!Liquidate(u, borrower, d, c, amount)
  <2>1. /\ actual = Books!actual_position(BookPositions[borrower], states)
        /\ prices = Books!get_all_prices(feed)
        /\ seized = Books!collateral_to_seize(repaid, prices, d, c,
                                              V1_MARKETS[c].liquidation_bonus)
        /\ remaining = Books!saturating_sub(actual[d].debt, repaid)
    BY <1>12, <1>17, AccountType, SameHealth, SameWad
  <2>2. wallet' = [wallet EXCEPT ![u][d] = @ - amount, ![u][c] = @ + seized]
    <3>1. wallet \in [Accounts -> [Markets -> Nat]] /\ u \in Accounts
      BY AccountsType DEF EInv, Balances
    <3>2. wallet' = [[wallet EXCEPT ![u][d] = @ - amount] EXCEPT ![u][c] = @ + seized]
      BY <1>1, <1>25 DEF transfer_to
    <3>3. [wallet EXCEPT ![u][d] = @ - amount][u][c] = wallet[u][c]
      BY <1>2, <3>1
    <3> QED BY <1>2, <3>1, <3>2, <3>3
  <2>3. Books!Seize(u, borrower, d, c, amount, states, repaid, seized, remaining)
    BY <1>1, <1>20, <1>22, <1>23, <2>2
       DEF Books!Seize, BookPositions, BookShares, BookCash, pos
  <2>4. Books!LiquidateAt(u, borrower, d, c, amount, states, actual, prices, repaid)
    BY <1>1, <2>1, <2>3 DEF Books!LiquidateAt, Books!attached
  <2> QED BY <1>8, <1>14, <2>1, <2>4 DEF Books!Liquidate, BookPositions
<1> QED BY <1>24, <1>25 DEF amount

(***************************************************************************)
(* The other steps, and every step.                                        *)
(***************************************************************************)

\* A slot that was never written reads as the initial record.
LEMMA NothingLoaded ==
    /\ \A m \in Markets : load_interest(NoSlots, m) = FreshInterest
    /\ \A u : load_position(NoSlots, u) = [m \in Markets |-> Books!EmptyPosition]
    /\ \A u, m : load_supply_shares(NoSlots, u, m) = 0
    /\ \A m : load_vault_account(NoSlots, m) = ZERO_ACCOUNT
<1>1. \A key, missing : read(NoSlots, key, missing) = missing
  BY DEF read, Written, NoSlots
<1>2. \A u : load_position(NoSlots, u) = [m \in Markets |-> Books!EmptyPosition]
  BY <1>1 DEF load_position, Books!EmptyPosition
<1>3. \A m \in Markets : load_interest(NoSlots, m) = FreshInterest
  BY <1>1 DEF load_interest, at_least_one, FreshInterest
<1> QED BY <1>1, <1>2, <1>3 DEF load_supply_shares, load_vault_account

LEMMA EntryInitBooks == EntryInit => EInv /\ Books!Init
<1> SUFFICES ASSUME EntryInit PROVE EInv /\ Books!Init
  OBVIOUS
<1>1. /\ now = 1 /\ slots = NoSlots /\ wallet = INITIAL_WALLETS
      /\ feed = [prices |-> [m \in Markets |-> 0], last_update_time |-> 0]
      /\ held = [m \in Markets |-> 0]
      /\ vault_balance = [v \in Vaults |-> [m \in Markets |-> 0]]
      /\ ZERO_ACCOUNT \in Vaults
  BY DEF EntryInit, Vaults
<1>2. FreshInterest \in InterestStates /\ FreshInterest.last_update_timestamp <= now
      /\ FreshInterest.borrow_index = WAD /\ FreshInterest.supply_index = WAD
  BY <1>1, Scales DEF FreshInterest, InterestStates
<1>3. MarketRecords
  BY <1>1, <1>2, NothingLoaded, Scales DEF MarketRecords, Stored
<1>4. AccountRecords
  <2>1. Books!EmptyPosition \in Books!Positions /\ Books!EmptyPosition.user_borrow_index = WAD
    BY SameWad, Scales DEF Books!EmptyPosition, Books!Positions
  <2>2. ASSUME NEW u \in Accounts, NEW m \in Markets
        PROVE  /\ position_of(u)[m] = Books!EmptyPosition
               /\ load_interest(slots, m).borrow_index = WAD
               /\ load_supply_shares(slots, u, m) = 0
    BY <1>1, <1>2, NothingLoaded DEF position_of
  <2> QED BY <2>1, <2>2, Scales DEF AccountRecords
<1>5. \A m \in Markets : vault(m) = ZERO_ACCOUNT /\ cash_of(m) = 0
  BY <1>1, NothingLoaded DEF vault, cash_of
<1>6. Balances
  BY <1>1, <1>5, BooksAssumption DEF Balances
<1>7. Ledger
  <2>1. [m \in Markets |-> 0] \in [Markets -> U128]
    BY Scales
  <2> QED BY <1>1, <2>1 DEF Ledger, Feeds
<1>8. Books!Init
  <2>1. load_all_interest(slots) = [m \in Markets |-> FreshInterest]
        /\ FreshInterest = Books!FreshInterest
    BY <1>1, NothingLoaded DEF load_all_interest, FreshInterest, Books!FreshInterest
  <2>2. [u \in Accounts |-> load_position(slots, u)]
            = [u \in Accounts |-> [m \in Markets |-> Books!EmptyPosition]]
    BY <1>1, NothingLoaded
  <2>3. [u \in Accounts |-> [m \in Markets |-> load_supply_shares(slots, u, m)]]
            = [u \in Accounts |-> [m \in Markets |-> 0]]
    BY <1>1, NothingLoaded
  <2>4. [m \in Markets |-> cash_of(m)] = [m \in Markets |-> 0]
    BY <1>5
  <2>5. feed = Books!NoPrices
    BY <1>1, SameHealth DEF Books!NoPrices
  <2> QED BY <1>1, <2>1, <2>2, <2>3, <2>4, <2>5, SameHealth DEF Books!Init
<1> QED BY <1>3, <1>4, <1>6, <1>7, <1>8 DEF EInv

\* The market's cash is within reach whoever registers as its vault.
LEMMA VaultSet ==
    ASSUME EInv, VInv, NEW u \in Senders, NEW m \in Markets, set_vault(u, m)
    PROVE  EInv' /\ UNCHANGED Books!vars
<1>1. /\ vault(m) = ZERO_ACCOUNT
      /\ slots' = written(slots, vault_slot(m, get_caller(u)))
      /\ UNCHANGED <<now, feed, wallet, held, vault_balance, data>>
  BY DEF set_vault
<1> DEFINE writes == vault_slot(m, get_caller(u))
<1>2. DOMAIN writes = {vault_key(m)} /\ writes[vault_key(m)] = get_caller(u)
  BY DEF vault_slot
<1> HIDE DEF writes
<1>3. /\ \A n, f : market_interest_key(n, f) \notin DOMAIN writes
      /\ \A v, n, f : user_position_key(v, n, f) \notin DOMAIN writes
  BY <1>2, KeyParts
<1>4. slots' = written(slots, writes)
  BY <1>1 DEF writes
<1>5. \A n : load_interest(slots', n) = load_interest(slots, n)
  BY <1>3, <1>4, InterestUntouched
<1>6. \A v : /\ load_position(slots', v) = load_position(slots, v)
             /\ \A n : load_supply_shares(slots', v, n) = load_supply_shares(slots, v, n)
  BY <1>3, <1>4, PositionUntouched
<1>7. vault(m)' = get_caller(u) /\ \A n \in Markets \ {m} : vault(n)' = vault(n)
  <2>1. read(slots', vault_key(m), ZERO_ACCOUNT) = get_caller(u)
    BY <1>2, <1>4, ReadWritten
  <2>2. ASSUME NEW n \in Markets \ {m} PROVE vault(n)' = vault(n)
    <3>1. vault_key(n) \notin DOMAIN writes
      BY <1>2, KeyParts
    <3> QED BY <1>4, <3>1, WrittenKeepsVaults DEF vault
  <2> QED BY <2>1, <2>2 DEF vault, load_vault_account
<1>8. get_caller(u) \in Vaults
  BY AccountsType
<1>9. EInv'
  <2>1. MarketRecords' /\ AccountRecords' /\ Ledger'
    BY <1>1, <1>5, <1>6
       DEF EInv, MarketRecords, Stored, AccountRecords, position_of, Ledger
  <2>2. Balances'
    BY <1>1, <1>7, <1>8 DEF EInv, Balances
  <2> QED BY <2>1, <2>2 DEF EInv
<1>10. \A n \in Markets : cash_of(n)' = cash_of(n)
  <2>1. ASSUME NEW n \in Markets \ {m} PROVE cash_of(n)' = cash_of(n)
    BY <1>1, <1>7 DEF cash_of
  <2>2. cash_of(m)' = cash_of(m)
    <3>1. CASE get_caller(u) = ZERO_ACCOUNT
      BY <1>1, <1>7, <3>1 DEF cash_of
    <3>2. CASE get_caller(u) # ZERO_ACCOUNT
      <4>1. vault_balance[get_caller(u)][m] = 0
        <5>1. vault_balance[get_caller(u)][m] \in Nat
          BY <1>8 DEF EInv, Balances
        <5> QED BY <1>1, <1>8, <3>2, <5>1 DEF VInv, OneVault
      <4>2. vault_balance[ZERO_ACCOUNT][m] \in Nat
        BY DEF EInv, Balances, Vaults
      <4> QED BY <1>1, <1>7, <3>2, <4>1, <4>2 DEF cash_of
    <3> QED BY <3>1, <3>2
  <2> QED BY <2>1, <2>2
<1>11. UNCHANGED Books!vars
  BY <1>1, <1>5, <1>6, <1>10 DEF Books!vars, load_all_interest
<1> QED BY <1>9, <1>11

\* The calls are those of LendingController when the caller is the sender.
LEMMA CallKept ==
    ASSUME EInv, NEW u \in Senders, NEW m \in Markets, NEW raw \in RawAmounts,
           \/ supply(u, m, raw) \/ withdraw(u, m, raw)
           \/ deposit_collateral(u, m, raw) \/ withdraw_collateral(u, m, raw)
           \/ borrow(u, m, raw) \/ repay(u, m, raw)
    PROVE  EInv' /\ (Unambiguous => Books!Next)
<1> DEFINE caller == get_caller(u)
           loan == or_default(raw, DEFAULT_AMOUNT)
           debt == or_default(raw, DEFAULT_DEBT_AMOUNT)
<1>1. /\ caller \in Accounts /\ u \in Accounts
      /\ Unambiguous => caller = u
      /\ loan \in Nat /\ loan \in Amounts /\ debt \in Nat /\ debt \in Amounts
      /\ m \in Books!Markets
  BY AccountsType, CallerIs, ParameterTypes, SameHealth
<1>2. CASE supply(u, m, raw)
  <2>1. SupplyAt(u, caller, m, loan, Books!accrued(m))
    BY <1>2 DEF supply
  <2> HIDE DEF caller, loan
  <2>2. EInv' /\ (caller = u => Books!Supply(u, m, loan))
    BY <1>1, <2>1, SupplyKept
  <2> QED BY <1>1, <2>2 DEF Books!Next
<1>3. CASE withdraw(u, m, raw)
  <2>1. WithdrawAt(caller, m, loan, Books!accrued(m))
    BY <1>3 DEF withdraw
  <2> HIDE DEF caller, loan
  <2>2. EInv' /\ Books!Withdraw(caller, m, loan)
    BY <1>1, <2>1, WithdrawKept
  <2> QED BY <1>1, <2>2 DEF Books!Next
<1>4. CASE deposit_collateral(u, m, raw)
  <2>1. DepositAt(u, caller, m, loan, position_of(caller))
    BY <1>4 DEF deposit_collateral
  <2> HIDE DEF caller, loan
  <2>2. EInv' /\ (caller = u => Books!DepositCollateral(u, m, loan))
    BY <1>1, <2>1, DepositKept
  <2> QED BY <1>1, <2>2 DEF Books!Next
<1>5. CASE withdraw_collateral(u, m, raw)
  <2>1. WithdrawCollateralAt(caller, m, loan)
    BY <1>5 DEF withdraw_collateral
  <2> HIDE DEF caller, loan
  <2>2. EInv' /\ Books!WithdrawCollateral(caller, m, loan)
    BY <1>1, <2>1, WithdrawCollateralKept
  <2> QED BY <1>1, <2>2 DEF Books!Next
<1>6. CASE borrow(u, m, raw)
  <2>1. BorrowAt(caller, m, debt,
                 [load_all_interest(slots) EXCEPT ![m] = Books!accrued(m)])
    BY <1>6 DEF borrow
  <2> HIDE DEF caller, debt
  <2>2. EInv' /\ Books!Borrow(caller, m, debt)
    BY <1>1, <2>1, BorrowKept
  <2> QED BY <1>1, <2>2 DEF Books!Next
<1>7. CASE repay(u, m, raw)
  <2>1. RepayIn(u, caller, m, debt, Books!accrued(m))
    BY <1>7 DEF repay
  <2> HIDE DEF caller, debt
  <2>2. EInv' /\ (caller = u => Books!Repay(u, m, debt))
    BY <1>1, <2>1, RepayKept
  <2> QED BY <1>1, <2>2 DEF Books!Next
<1> QED BY <1>2, <1>3, <1>4, <1>5, <1>6, <1>7

LEMMA LedgerKept ==
    ASSUME EInv, Tick \/ \E prices \in PriceVectors : PostPrices(prices)
    PROVE  EInv' /\ Books!Next
<1>1. VaultsKept /\ UNCHANGED slots /\ UNCHANGED <<wallet, vault_balance>>
      /\ load_all_interest(slots') = load_all_interest(slots)
      /\ now' \in Nat /\ now' >= now /\ feed' \in Feeds
  BY BooksAssumption DEF Tick, PostPrices, VaultsKept, vault, EInv, Ledger, Feeds
<1>2. EInv'
  <2>1. MarketRecords'
    BY <1>1 DEF EInv, Ledger, MarketRecords, Stored, InterestStates
  <2>2. AccountRecords' /\ Balances' /\ Ledger'
    BY <1>1 DEF EInv, AccountRecords, position_of, Balances, VaultsKept, Ledger
  <2> QED BY <2>1, <2>2 DEF EInv
<1>3. Books!Next
  <2>1. Tick => Books!Tick
    BY DEF Tick, Books!Tick, cash_of, vault
  <2>2. \A prices : PostPrices(prices) => Books!PostPrices(prices)
    BY DEF PostPrices, Books!PostPrices, cash_of, vault
  <2> QED BY <2>1, <2>2 DEF Books!Next
<1> QED BY <1>2, <1>3

LEMMA EntryNextBooks ==
    ASSUME EInv, VInv, [EntryNext]_entryVars
    PROVE  EInv' /\ (Unambiguous => [Books!Next]_Books!vars)
<1>1. CASE UNCHANGED <<now, feed, slots, wallet, held, vault_balance>>
  <2>1. UNCHANGED Books!vars
    BY <1>1 DEF Books!vars, cash_of, vault
  <2>2. EInv'
    BY <1>1 DEF EInv, MarketRecords, Stored, AccountRecords, position_of, Balances, Ledger, vault
  <2> QED BY <2>1, <2>2
<1>2. CASE UNCHANGED entryVars
  BY <1>1, <1>2 DEF entryVars
<1>3. CASE Tick \/ \E prices \in PriceVectors : PostPrices(prices)
  BY <1>3, LedgerKept
<1>4. CASE probe_supply_state \/ \E u \in Senders : probe_collateral(u)
  BY <1>1, <1>4 DEF probe_supply_state, probe_collateral, Probed
<1>5. ASSUME NEW u \in Senders, NEW m \in Addressed, NEW raw \in RawAmounts,
             \/ supply(u, m, raw) \/ withdraw(u, m, raw)
             \/ deposit_collateral(u, m, raw) \/ withdraw_collateral(u, m, raw)
             \/ borrow(u, m, raw) \/ repay(u, m, raw)
      PROVE  EInv' /\ (Unambiguous => Books!Next)
  BY <1>5, CallKept DEF Addressed
<1>6. ASSUME NEW u \in Senders, NEW borrower \in Accounts, NEW d \in Addressed,
             NEW c \in Addressed, NEW raw \in RawAmounts,
             liquidate(u, borrower, d, c, raw)
      PROVE  EInv' /\ (Unambiguous => Books!Next)
  <2>1. /\ d \in Markets /\ c \in Markets
        /\ d \in Books!Markets /\ c \in Books!Markets
    BY SameHealth DEF Addressed
  <2>2. /\ u \in Accounts /\ get_caller(u) \in Accounts
        /\ Unambiguous => get_caller(u) = u
        /\ read_param(raw) \in Amounts
    BY AccountsType, CallerIs, ParameterTypes
  <2>3. EInv' /\ (get_caller(u) = u => Books!Liquidate(u, borrower, d, c, read_param(raw)))
    BY <1>6, <2>1, <2>2, LiquidateKept
  <2> QED BY <2>1, <2>2, <2>3 DEF Books!Next
<1>7. ASSUME NEW u \in Senders, NEW m \in Addressed, set_vault(u, m)
      PROVE  EInv' /\ UNCHANGED Books!vars
  BY <1>7, VaultSet DEF Addressed
<1> QED BY <1>2, <1>3, <1>4, <1>5, <1>6, <1>7 DEF EntryNext

(***************************************************************************)
(* What is in storage is always a record of its type: balances, shares and *)
(* debts of 128 bits, indexes that never fall below 1.0, a debt at an      *)
(* index its market has reached (lib.rs:92-194).                           *)
(***************************************************************************)
THEOREM RecordsCorrect == EntrySpec => []EInv
<1>1. EInv /\ VInv /\ [EntryNext]_entryVars => EInv'
  BY EntryNextBooks
<1> QED BY <1>1, EntryInitBooks, VaultInit, VaultNext, PTL DEF EntrySpec

(***************************************************************************)
(* The entry points implement LendingController on the books as they are   *)
(* read out of storage (lib.rs:207-525): what a handler changed is stored, *)
(* under the keys of its account and market, nothing else is, and what was *)
(* never written reads as the initial record.  Whose host answers make the *)
(* contract take another account for the caller is left out: there the     *)
(* books kept are those of the wrong account (MCMisread).                  *)
(***************************************************************************)
THEOREM BooksKeptCorrect == ASSUME Unambiguous PROVE EntrySpec => BooksKept
<1>1. EntryInit => EInv /\ VInv /\ Books!Init
  BY EntryInitBooks, VaultInit
<1>2. EInv /\ VInv /\ [EntryNext]_entryVars => EInv' /\ VInv' /\ [Books!Next]_Books!vars
  BY EntryNextBooks, VaultNext
<1> QED BY <1>1, <1>2, PTL DEF EntrySpec, BooksKept, Books!Spec

(***************************************************************************)
(* The queries.                                                            *)
(***************************************************************************)

\* Stored indexes, and the stored debt where the product does not fit, report no
\* more than is owed at any later index.
LEMMA ReportedAtMost ==
    ASSUME EInv, NEW u \in Accounts, NEW m \in Markets, NEW s, Stored(s, m)
    PROVE  LET reported == reported_debt(position_of(u)[m], load_interest(slots, m))
           IN  /\ reported \in Nat
               /\ reported <= Books!debt_at(position_of(u)[m], s.borrow_index)
<1> DEFINE debt == position_of(u)[m].debt
           at == position_of(u)[m].user_borrow_index
           index == load_interest(slots, m).borrow_index
<1>1. debt \in Nat /\ at \in Nat \ {0} /\ index \in Nat /\ at <= index
  BY AccountType, MarketType DEF EInv, AccountRecords
<1>2. s.borrow_index \in Nat /\ index <= s.borrow_index
  BY StoredIsGood DEF Stored
<1>3. Books!debt_at(position_of(u)[m], s.borrow_index) = get_actual_debt(debt, at, s.borrow_index)
  BY DEF Books!debt_at, Books!get_actual_debt, get_actual_debt
<1>4. \/ reported_debt(position_of(u)[m], load_interest(slots, m))
            = get_actual_debt(debt, at, index)
      \/ reported_debt(position_of(u)[m], load_interest(slots, m)) = debt
  BY DEF reported_debt
<1> HIDE DEF debt, at, index
<1>5. /\ get_actual_debt(debt, at, index) \in Nat
      /\ get_actual_debt(debt, at, s.borrow_index) \in Nat
      /\ get_actual_debt(debt, at, index) <= get_actual_debt(debt, at, s.borrow_index)
  BY <1>1, <1>2, DebtType, DebtMono
<1>6. debt <= get_actual_debt(debt, at, s.borrow_index)
  <2>1. CASE debt = 0
    BY <1>5, <2>1
  <2>2. CASE debt # 0
    <3>1. at <= s.borrow_index
      BY <1>1, <1>2
    <3>2. debt * at <= debt * s.borrow_index /\ debt * s.borrow_index \in Nat
      BY <1>1, <1>2, <3>1, MulMono, MulNat
    <3>3. (debt * s.borrow_index) \div at >= debt
      BY <1>1, <3>2, DivAtLeast
    <3> QED BY <2>2, <3>3 DEF get_actual_debt
  <2> QED BY <2>1, <2>2
<1> QED BY <1>1, <1>3, <1>4, <1>5, <1>6

LEMMA ReportedDebtTrue ==
    ASSUME EInv, NEW u \in Accounts, NEW m \in Addressed, Books!can_accrue(m)
    PROVE  get_user_position(u)[m].debt
               <= Books!debt_at(position_of(u)[m], Books!accrued(m).borrow_index)
<1>1. m \in Markets /\ Stored(Books!accrued(m), m)
  BY AccruedStored DEF Addressed
<1>2. get_user_position(u)[m].debt = reported_debt(position_of(u)[m], load_interest(slots, m))
  BY <1>1 DEF get_user_position, reported_position, load_all_interest
<1> QED BY <1>1, <1>2, ReportedAtMost

LEMMA ActualCollateral ==
    ASSUME NEW pos \in [Markets -> Books!Positions], NEW states, NEW m \in Markets
    PROVE  Books!actual_position(pos, states)[m].collateral = pos[m].collateral
  BY DEF Books!Positions, Books!actual_position, Markets, ASSET_XRP, ASSET_RLUSD, ASSET_WBTC,
     Books!ASSET_XRP, Books!ASSET_RLUSD, Books!ASSET_WBTC

\* A health factor reported below 1.0 is below 1.0 for liquidate.
LEMMA ReportedHealthTrue ==
    ASSUME EInv, NEW u \in Accounts, get_health_factor(u) < WAD,
           NEW d \in Markets, NEW c \in Markets
    PROVE  Liquidatable(u, d, c)
<1> DEFINE states == [load_all_interest(slots) EXCEPT ![d] = Books!accrued(d),
                                                      ![c] = Books!accrued(c)]
           actual == Books!actual_position(position_of(u), states)
           reported == get_user_position(u)
           prices == get_all_prices(feed)
           weight == thresholds(V1_MARKETS)
<1>1. SUFFICES ASSUME Books!can_accrue(d), Books!can_accrue(c)
               PROVE  calculate_health_factor(actual, prices, V1_MARKETS) < WAD
  BY DEF Liquidatable, is_liquidatable
<1>2. /\ prices \in [Markets -> Nat]
      /\ weight \in [Markets -> Nat]
  <2>1. prices \in [Markets -> Nat]
    BY PricesOfFeed DEF EInv, Ledger
  <2>2. \A m \in Markets : V1_MARKETS[m].liquidation_threshold \in Nat
    BY BooksAssumption DEF MarketConfigs
  <2> QED BY <2>1, <2>2 DEF thresholds
<1>3. ASSUME NEW m \in Markets PROVE Stored(states[m], m)
  <2>1. states[m] = IF m = c THEN Books!accrued(c)
                    ELSE IF m = d THEN Books!accrued(d) ELSE load_interest(slots, m)
    BY DEF load_all_interest
  <2> HIDE DEF states
  <2> QED BY <1>1, <2>1, AccruedStored, MarketType
<1> HIDE DEF states
<1>4. position_of(u) \in [Markets -> Books!Positions]
  BY AccountType
<1>5. ASSUME NEW m \in Markets
      PROVE  /\ reported[m].debt \in Nat /\ actual[m].debt \in Nat
             /\ reported[m].debt <= actual[m].debt
             /\ actual[m].collateral = reported[m].collateral
             /\ reported[m].collateral \in Nat
  <2>1. actual[m].debt = Books!debt_at(position_of(u)[m], states[m].borrow_index)
    BY <1>4, ActualDebt
  <2>2. reported[m].debt = reported_debt(position_of(u)[m], load_interest(slots, m))
        /\ reported[m].collateral = position_of(u)[m].collateral
    BY DEF get_user_position, reported_position, load_all_interest
  <2>3. actual[m].collateral = position_of(u)[m].collateral
    BY <1>4, ActualCollateral
  <2> QED BY <1>3, <2>1, <2>2, <2>3, ReportedAtMost, OwedType, AccountType
<1> HIDE DEF actual, reported, prices, weight
<1> DEFINE n == weighted_collateral(reported, prices, weight)
           owed == total_debt_usd(actual, prices)
           told == total_debt_usd(reported, prices)
<1>6. n \in Nat /\ owed \in Nat /\ told \in Nat /\ told <= owed
  BY <1>2, <1>5, WeightedType, TotalDebtType, TotalMono
<1>7. weighted_collateral(actual, prices, weight) = n
  BY <1>5 DEF weighted_collateral, OverMarkets, asset_usd_value,
     Markets, ASSET_XRP, ASSET_RLUSD, ASSET_WBTC
<1>8. calculate_health_factor(reported, prices, V1_MARKETS) < WAD
  <2>1. get_health_factor(u)
            = Min2(calculate_health_factor(reported, prices, V1_MARKETS), U64_MAX)
    BY DEF get_health_factor, reported_health, reported, prices
  <2> QED BY <2>1, EntryAssumption, Scales DEF Min2
<1>9. told # 0 /\ wad_ratio(n, told) < WAD
  BY <1>8, Scales DEF calculate_health_factor, weight
<1> HIDE DEF n, owed, told
<1>10. wad_ratio(n, owed) < WAD /\ owed # 0
  BY <1>6, <1>9, RatioAntitone
<1> QED BY <1>7, <1>10 DEF calculate_health_factor, owed, weight

(***************************************************************************)
(* A query never reports more debt than repay would take nor a position    *)
(* below 1.0 that liquidate would call healthy, for all prices, indexes    *)
(* and amounts (lib.rs: get_user_position, get_health_factor): accrual     *)
(* only adds debt, and wad_ratio never grows with what it divides by, in   *)
(* either of its branches (RatioAntitone).                                 *)
(***************************************************************************)
THEOREM QueriesTrueCorrect == EntrySpec => []QueriesTrue
<1>1. EInv => QueriesTrue
  <2> SUFFICES ASSUME EInv, NEW u \in Accounts
               PROVE  /\ get_health_factor_ok(u) /\ get_health_factor(u) < WAD =>
                            \A d, c \in Addressed : d # c => Liquidatable(u, d, c)
                      /\ \A m \in Addressed : Books!can_accrue(m) =>
                            get_user_position(u)[m].debt
                                <= Books!debt_at(position_of(u)[m], Books!accrued(m).borrow_index)
    BY DEF QueriesTrue
  <2>1. Addressed \subseteq Markets
    BY DEF Addressed
  <2>2. get_health_factor(u) < WAD => \A d, c \in Addressed : Liquidatable(u, d, c)
    BY <2>1, ReportedHealthTrue
  <2> QED BY <2>2, ReportedDebtTrue
<1> QED BY <1>1, RecordsCorrect, PTL

(***************************************************************************)
(* Who pays is credited.                                                   *)
(***************************************************************************)

\* What a call can name buys at least one share.
MintsShares ==
    \A m \in Markets, amount \in Amounts \ {0} :
        Books!can_accrue(m) => Books!minted(amount, Books!accrued(m)) # 0

CreditedPayers ==
    \A v \in Accounts, n \in Markets : wallet'[v][n] < wallet[v][n] => Credited(v, n)

\* The records before and after a step, in the terms of Credited.
LEMMA LoadedAfter ==
    ASSUME NEW u \in Accounts, NEW m \in Markets
    PROVE  /\ load_supply_shares(slots', u, m) = BookShares'[u][m]
           /\ load_supply_shares(slots, u, m) = BookShares[u][m]
           /\ load_position(slots', u) = BookPositions'[u]
           /\ load_position(slots, u) = BookPositions[u]
           /\ load_interest(slots', m) = load_all_interest(slots')[m]
  BY DEF BookShares, BookPositions, load_all_interest

\* Nobody pays when one account gets more in one market.
LEMMA NobodyPays ==
    ASSUME EInv, NEW u \in Accounts, NEW m \in Markets, NEW amount \in Nat,
           wallet' = [wallet EXCEPT ![u][m] = @ + amount]
    PROVE  CreditedPayers
<1>1. wallet \in [Accounts -> [Markets -> Nat]]
  BY DEF EInv, Balances
<1>2. \A v \in Accounts, n \in Markets : wallet'[v][n] >= wallet[v][n]
  BY <1>1
<1> QED BY <1>1, <1>2 DEF CreditedPayers

\* One account pays in one market.
LEMMA OnePays ==
    ASSUME EInv, NEW u \in Accounts, NEW m \in Markets, NEW amount \in Nat,
           wallet' = [wallet EXCEPT ![u][m] = @ - amount],
           amount # 0 => Credited(u, m)
    PROVE  CreditedPayers
<1>1. wallet \in [Accounts -> [Markets -> Nat]]
  BY DEF EInv, Balances
<1>2. \A v \in Accounts, n \in Markets :
          wallet'[v][n] < wallet[v][n] => v = u /\ n = m /\ amount # 0
  BY <1>1
<1> QED BY <1>2 DEF CreditedPayers

LEMMA SupplyCredits ==
    ASSUME EInv, MintsShares, NEW u \in Accounts, NEW m \in Markets, NEW amount \in Amounts,
           amount \in Nat, Books!Supply(u, m, amount)
    PROVE  CreditedPayers
<1> DEFINE state == Books!accrued(m)
           bought == Books!minted(amount, state)
<1>1. /\ Books!supply_ok(u, m, amount, state)
      /\ BookShares' = [BookShares EXCEPT ![u][m] = @ + bought]
      /\ wallet' = [wallet EXCEPT ![u][m] = @ - amount]
  BY DEF Books!Supply, Books!SupplyAt, BookShares
<1>2. /\ amount # 0 /\ Books!can_accrue(m)
      /\ wad_div_ok(amount, state.supply_index)
  BY <1>1, SameWad DEF Books!supply_ok
<1>3. bought # 0
  BY <1>2 DEF MintsShares
<1>4. Stored(state, m)
  BY <1>2, AccruedStored
<1> HIDE DEF state
<1>5. bought \in Nat
  <2>1. wad_div(amount, state.supply_index) \in Nat
    BY <1>2, <1>4, StoredIsGood, WadDivType DEF U128
  <2> QED BY <2>1, SameWad DEF Books!minted
<1> HIDE DEF bought
<1>6. BookShares'[u][m] > BookShares[u][m]
  <2>1. BookShares[u][m] \in Nat
    BY AccountType
  <2>2. BookShares'[u][m] = BookShares[u][m] + bought
    BY <1>1 DEF BookShares
  <2> QED BY <1>3, <1>5, <2>1, <2>2
<1>7. Credited(u, m)
  BY <1>6, LoadedAfter DEF Credited
<1> QED BY <1>1, <1>7, OnePays

LEMMA DepositCredits ==
    ASSUME EInv, NEW u \in Accounts, NEW m \in Markets, NEW amount \in Nat,
           Books!DepositCollateral(u, m, amount)
    PROVE  CreditedPayers
<1>1. /\ amount # 0
      /\ BookPositions' = [BookPositions EXCEPT ![u][m].collateral = @ + amount]
      /\ wallet' = [wallet EXCEPT ![u][m] = @ - amount]
  BY DEF Books!DepositCollateral, Books!deposit_ok, BookPositions
<1>2. BookPositions'[u][m].collateral > BookPositions[u][m].collateral
  <2>1. BookPositions[u] \in [Markets -> Books!Positions] /\ BookPositions[u][m].collateral \in Nat
    BY AccountType
  <2>2. BookPositions'[u] = [BookPositions[u] EXCEPT ![m].collateral = @ + amount]
    BY <1>1 DEF BookPositions
  <2>3. BookPositions'[u][m].collateral = BookPositions[u][m].collateral + amount
    BY <2>1, <2>2 DEF Books!Positions
  <2> QED BY <1>1, <2>1, <2>3
<1>3. Credited(u, m)
  BY <1>2, LoadedAfter DEF Credited
<1> QED BY <1>1, <1>3, OnePays

\* A debt that is rewritten to what remains of it has gone down: what it is
\* divided by on the way, an index of at least 1.0, only makes it smaller.
LEMMA DebtPaidDown ==
    ASSUME NEW owed \in Nat, NEW remaining \in Nat, remaining < owed,
           NEW index \in Nat, WAD <= index, NEW pos,
           pos.debt = Books!remaining_debt(remaining, index), pos.user_borrow_index = index
    PROVE  Books!debt_at(pos, index) < owed
<1> DEFINE rest == Books!remaining_debt(remaining, index)
<1>1. rest \in Nat /\ rest <= remaining
  <2>1. index \in Nat \ {0} /\ remaining * WAD \in Nat
        /\ remaining * WAD <= remaining * index
    BY Scales, MulMono, MulNat
  <2>2. (remaining * WAD) \div index \in Nat /\ (remaining * WAD) \div index <= remaining
    BY <2>1, DivBounds, DivAtMost
  <2> QED BY <2>2 DEF Books!remaining_debt, Books!to_scaled_debt
<1>2. Books!debt_at(pos, index) = IF rest = 0 THEN 0 ELSE (rest * index) \div index
  BY DEF Books!debt_at, Books!get_actual_debt
<1> HIDE DEF rest
<1>3. (rest * index) \div index = rest
  <2>1. index \in Nat \ {0}
    BY Scales
  <2> QED BY <1>1, <2>1, DivAtLeast, DivAtMost, DivBounds, MulNat
<1> QED BY <1>1, <1>2, <1>3

LEMMA RepayCredits ==
    ASSUME EInv, NEW u \in Accounts, NEW m \in Markets, NEW amount \in Nat,
           Books!Repay(u, m, amount)
    PROVE  CreditedPayers
<1> DEFINE state == Books!accrued(m)
           index == state.borrow_index
           actual == Books!debt_at(BookPositions[u][m], index)
           repaid == Books!repayment(amount, actual)
           rest == Books!repaid_down(BookPositions[u][m], actual - repaid, index)
<1>1. /\ Books!can_accrue(m)
      /\ BookPositions' = [BookPositions EXCEPT ![u][m] = rest]
      /\ load_all_interest(slots') = [load_all_interest(slots) EXCEPT
                                         ![m] = Books!book_repay(state, repaid)]
      /\ wallet' = [wallet EXCEPT ![u][m] = @ - repaid]
  BY DEF Books!Repay, Books!RepayAt, Books!repay_ok, BookPositions
<1>2. Stored(state, m)
  BY <1>1, AccruedStored
<1> HIDE DEF state
<1>3. /\ index \in Nat /\ WAD <= index /\ actual \in Nat
      /\ BookPositions[u][m] = position_of(u)[m] /\ position_of(u)[m] \in Books!Positions
  BY <1>2, StoredIsGood, OwedType, AccountType
<1>4. load_interest(slots', m).borrow_index = index
  <2>1. load_all_interest(slots')[m] = Books!book_repay(state, repaid)
    BY <1>1 DEF load_all_interest
  <2>2. load_interest(slots', m) = Books!book_repay(state, repaid)
    BY <2>1, LoadedAfter
  <2> QED BY <1>2, <2>2 DEF Books!book_repay, Stored, InterestStates
<1> HIDE DEF index, actual
<1>5. repaid \in Nat /\ actual - repaid \in Nat
  BY <1>3, SameWad DEF Books!repayment, Min2
<1> HIDE DEF repaid
<1>6. /\ rest.debt = Books!remaining_debt(actual - repaid, index)
      /\ rest.user_borrow_index = index
  BY <1>3 DEF Books!repaid_down, Books!with_debt, Books!Positions
<1> HIDE DEF rest
<1>7. BookPositions'[u][m] = rest
  BY <1>1 DEF BookPositions, load_position
<1>8. ASSUME repaid # 0 PROVE Credited(u, m)
  <2>1. Books!debt_at(rest, index) < actual
    BY <1>3, <1>5, <1>6, <1>8, DebtPaidDown
  <2>2. actual = Books!debt_at(BookPositions[u][m], index)
    BY DEF actual
  <2> QED BY <1>4, <1>7, <2>1, <2>2, LoadedAfter DEF Credited
<1> QED BY <1>1, <1>5, <1>8, OnePays

LEMMA LiquidateCredits ==
    ASSUME EInv, NEW u \in Accounts, NEW borrower \in Accounts,
           NEW d \in Markets, NEW c \in Markets,
           NEW amount \in Nat, Books!Liquidate(u, borrower, d, c, amount)
    PROVE  CreditedPayers
<1> DEFINE states == [load_all_interest(slots) EXCEPT ![d] = Books!accrued(d),
                                                      ![c] = Books!accrued(c)]
           actual == Books!actual_position(BookPositions[borrower], states)
           prices == Books!get_all_prices(feed)
           repaid == Books!liquidation_repaid(actual, prices, d, amount)
           seized == Books!collateral_to_seize(repaid, prices, d, c,
                                               V1_MARKETS[c].liquidation_bonus)
           remaining == Books!saturating_sub(actual[d].debt, repaid)
           index == states[d].borrow_index
           pos == Books!seized_position(borrower, d, c, states, seized, remaining)
<1>1. /\ Books!liquidate_ok(borrower, d, c, amount, states, actual, prices, repaid)
      /\ BookPositions' = [BookPositions EXCEPT ![borrower] = pos]
      /\ load_all_interest(slots') = [states EXCEPT ![d] = Books!book_repay(@, repaid)]
      /\ wallet' = [wallet EXCEPT ![u][d] = @ - amount, ![u][c] = @ + seized]
  BY DEF Books!Liquidate, Books!LiquidateAt, Books!Seize, BookPositions
<1>2. /\ d # c /\ Books!can_accrue(d) /\ actual[d].debt # 0 /\ repaid # 0
      /\ price_per_native(prices, d) # 0 /\ price_per_native(prices, c) # 0
  BY <1>1 DEF Books!liquidate_ok, Books!liquidation_amounts_ok,
              Books!price_per_native, price_per_native
<1>3. states[d] = Books!accrued(d) /\ Stored(states[d], d) /\ DOMAIN states = Markets
  BY <1>2, AccruedStored DEF load_all_interest
<1>4. \A n \in Markets : actual[n].debt \in Nat
  <2>1. Books!can_accrue(c)
    BY <1>1 DEF Books!liquidate_ok
  <2>2. ASSUME NEW n \in Markets PROVE Stored(states[n], n)
    <3>1. states[n] = IF n = c THEN Books!accrued(c)
                      ELSE IF n = d THEN Books!accrued(d) ELSE load_interest(slots, n)
      BY DEF load_all_interest
    <3> HIDE DEF states
    <3> QED BY <1>2, <2>1, <3>1, AccruedStored, MarketType
  <2> HIDE DEF states
  <2>3. BookPositions[borrower] \in [Markets -> Books!Positions]
        /\ BookPositions[borrower] = position_of(borrower)
    BY AccountType
  <2>4. ASSUME NEW n \in Markets PROVE actual[n].debt \in Nat
    <3>1. actual[n].debt = Books!debt_at(BookPositions[borrower][n], states[n].borrow_index)
      BY <2>3, ActualDebt
    <3> QED BY <2>2, <2>3, <3>1, OwedType
  <2> QED BY <2>4
<1> HIDE DEF states
<1>5. /\ BookPositions[borrower] \in [Markets -> Books!Positions]
      /\ actual[d].debt = Books!debt_at(BookPositions[borrower][d], index)
  <2>1. BookPositions[borrower] \in [Markets -> Books!Positions]
    BY AccountType
  <2> QED BY <2>1, ActualDebt
<1>6. /\ index \in Nat /\ WAD <= index
      /\ load_interest(slots', d).borrow_index = index
  <2>1. load_all_interest(slots')[d] = Books!book_repay(states[d], repaid)
    BY <1>1, <1>3
  <2>2. load_interest(slots', d) = Books!book_repay(states[d], repaid)
    BY <2>1, LoadedAfter
  <2>3. load_interest(slots', d).borrow_index = index
    BY <1>3, <2>2 DEF Books!book_repay, Stored, InterestStates
  <2> QED BY <1>3, <2>3, StoredIsGood
<1>7. prices \in [Markets -> Nat]
  <2>1. prices = get_all_prices(feed)
    BY SameHealth
  <2> QED BY <2>1, PricesOfFeed DEF EInv, Ledger
<1> HIDE DEF actual, prices, index
<1>8. repaid \in Nat
  BY <1>2, <1>4, <1>7, RepaymentBound, SameLiquidation
<1> HIDE DEF repaid
<1>9. seized \in Nat
  <2>1. V1_MARKETS[c].liquidation_bonus \in Nat
    BY BooksAssumption DEF MarketConfigs
  <2>2. seized = collateral_to_seize(repaid, prices, d, c, V1_MARKETS[c].liquidation_bonus)
    BY SameHealth
  <2> QED BY <1>2, <1>7, <1>8, <2>1, <2>2, SeizedType
<1>10. remaining \in Nat /\ remaining < actual[d].debt
  <2>1. remaining = saturating_sub(actual[d].debt, repaid) /\ actual[d].debt \in Nat
    BY <1>4, SameWad
  <2> QED BY <1>2, <1>8, <2>1 DEF saturating_sub
<1> HIDE DEF seized, remaining
<1>11. /\ pos[d].debt = Books!remaining_debt(remaining, index)
       /\ pos[d].user_borrow_index = index
  <2>1. BookPositions[borrower] \in [Markets -> Books!Positions]
    BY <1>5
  <2>2. pos = Books!liquidated(BookPositions[borrower], d, c,
                               Books!remaining_debt(remaining, index), index, seized)
    BY DEF Books!seized_position, BookPositions, index
  <2> HIDE DEF pos
  <2> QED BY <1>2, <2>1, <2>2 DEF Books!liquidated, Books!with_debt, Books!Positions
<1> HIDE DEF pos
<1>12. Credited(u, d)
  <2>1. BookPositions'[borrower] = pos
    BY <1>1 DEF BookPositions
  <2>2. Books!debt_at(pos[d], index) < actual[d].debt
    BY <1>4, <1>6, <1>10, <1>11, DebtPaidDown
  <2> QED BY <1>5, <1>6, <2>1, <2>2, LoadedAfter DEF Credited
<1>13. \A v \in Accounts, n \in Markets : wallet'[v][n] < wallet[v][n] => v = u /\ n = d
  <2>1. wallet \in [Accounts -> [Markets -> Nat]]
    BY DEF EInv, Balances
  <2>2. \A v \in Accounts, n \in Markets :
            wallet'[v][n] = IF v = u /\ n = d THEN wallet[v][n] - amount
                            ELSE IF v = u /\ n = c THEN wallet[v][n] + seized
                            ELSE wallet[v][n]
    BY <1>1, <1>2, <2>1
  <2> QED BY <1>9, <2>1, <2>2
<1> QED BY <1>12, <1>13 DEF CreditedPayers

LEMMA NextCredits ==
    ASSUME EInv, MintsShares, [Books!Next]_Books!vars
    PROVE  CreditedPayers
<1>1. Books!Markets = Markets /\ Amounts \subseteq Nat
  BY SameHealth, ParameterTypes DEF Amounts
<1>2. ASSUME NEW u \in Accounts, NEW m \in Markets, NEW amount \in Amounts,
             \/ Books!Supply(u, m, amount) \/ Books!DepositCollateral(u, m, amount)
             \/ Books!Repay(u, m, amount)
      PROVE  CreditedPayers
  BY <1>1, <1>2, SupplyCredits, DepositCredits, RepayCredits
<1>3. ASSUME NEW u \in Accounts, NEW m \in Markets, NEW amount \in Amounts,
             Books!Withdraw(u, m, amount)
      PROVE  CreditedPayers
  <2> DEFINE paid == Books!redeemed(amount, Books!accrued(m))
  <2>1. /\ Books!can_accrue(m) /\ wallet' = [wallet EXCEPT ![u][m] = @ + paid]
    BY <1>3 DEF Books!Withdraw, Books!WithdrawAt, Books!withdraw_ok
  <2>2. paid \in Nat
    BY <1>1, <2>1, AccruedStored, StoredIsGood, WadMulType, SameWad DEF Books!redeemed
  <2> HIDE DEF paid
  <2> QED BY <2>1, <2>2, NobodyPays
<1>4. ASSUME NEW u \in Accounts, NEW m \in Markets, NEW amount \in Amounts,
             Books!WithdrawCollateral(u, m, amount) \/ Books!Borrow(u, m, amount)
      PROVE  CreditedPayers
  <2>1. wallet' = [wallet EXCEPT ![u][m] = @ + amount] /\ amount \in Nat
    BY <1>1, <1>4 DEF Books!WithdrawCollateral, Books!Borrow, Books!BorrowAt
  <2> QED BY <2>1, NobodyPays
<1>5. ASSUME NEW u \in Accounts, NEW borrower \in Accounts, NEW d \in Markets,
             NEW c \in Markets, NEW amount \in Amounts,
             Books!Liquidate(u, borrower, d, c, amount)
      PROVE  CreditedPayers
  BY <1>1, <1>5, LiquidateCredits
<1>6. ASSUME wallet' = wallet PROVE CreditedPayers
  <2>1. wallet \in [Accounts -> [Markets -> Nat]]
    BY DEF EInv, Balances
  <2> QED BY <1>6, <2>1 DEF CreditedPayers
<1> QED BY <1>1, <1>2, <1>3, <1>4, <1>5, <1>6
        DEF Books!Next, Books!Tick, Books!PostPrices, Books!vars

(***************************************************************************)
(* Who pays is credited (lib.rs:207-525): the shares, the collateral or    *)
(* the debt that moves is that of the account the payment is for, and it   *)
(* does move.  MintsShares leaves out the amounts that an index has        *)
(* outgrown: supply takes them and rounds the shares they buy to none      *)
(* (supply.rs:43).                                                         *)
(***************************************************************************)
THEOREM PayerCreditedCorrect ==
    ASSUME Unambiguous PROVE EntrySpec /\ []MintsShares => PayerCredited
<1>1. EInv /\ VInv /\ MintsShares /\ [EntryNext]_entryVars
        => [\A u \in Accounts, m \in Addressed :
               wallet'[u][m] < wallet[u][m] => Credited(u, m)]_entryVars
  <2> SUFFICES ASSUME EInv, VInv, MintsShares, [EntryNext]_entryVars,
                      NEW u \in Accounts, NEW m \in Addressed, wallet'[u][m] < wallet[u][m]
               PROVE  Credited(u, m)
    OBVIOUS
  <2>1. [Books!Next]_Books!vars
    BY EntryNextBooks
  <2>2. m \in Markets
    BY DEF Addressed
  <2> QED BY <2>1, <2>2, NextCredits DEF CreditedPayers
<1> QED BY <1>1, RecordsCorrect, VaultInit, VaultNext, PTL DEF EntrySpec, PayerCredited

(***************************************************************************)
(* What is proved of LendingController, of the books in storage.  The      *)
(* theorems of LendingStepProofs are instantiated with the books that are  *)
(* read out of storage; the definitions they are about are those of Books. *)
(***************************************************************************)
Controller == INSTANCE LendingStepProofs WITH
    interest <- load_all_interest(slots),
    position <- [u \in Accounts |-> load_position(slots, u)],
    shares   <- [u \in Accounts |-> [m \in Markets |-> load_supply_shares(slots, u, m)]],
    cash     <- [m \in Markets |-> cash_of(m)]

LEMMA ControllerWad ==
    /\ Books!Markets = Controller!Markets
    /\ \A n : /\ Books!Fits(n) <=> Controller!Fits(n)
              /\ Books!saturate(n) = Controller!saturate(n)
    /\ \A a, b : /\ Books!Min2(a, b) = Controller!Min2(a, b)
                 /\ Books!saturating_sub(a, b) = Controller!saturating_sub(a, b)
                 /\ Books!wad_mul_ok(a, b) <=> Controller!wad_mul_ok(a, b)
                 /\ Books!wad_mul(a, b) = Controller!wad_mul(a, b)
                 /\ Books!wad_div_ok(a, b) <=> Controller!wad_div_ok(a, b)
                 /\ Books!wad_div(a, b) = Controller!wad_div(a, b)
  BY DEF Books!Markets, Controller!Markets, Books!ASSET_XRP, Controller!ASSET_XRP,
         Books!ASSET_RLUSD, Controller!ASSET_RLUSD, Books!ASSET_WBTC, Controller!ASSET_WBTC,
         Books!HALF_WAD, Controller!HALF_WAD, Books!Fits, Controller!Fits,
         Books!saturate, Controller!saturate, Books!Min2, Controller!Min2,
         Books!saturating_sub, Controller!saturating_sub,
         Books!wad_mul_ok, Controller!wad_mul_ok, Books!wad_mul, Controller!wad_mul,
         Books!wad_div_ok, Controller!wad_div_ok, Books!wad_div, Controller!wad_div

LEMMA ControllerAccrual ==
    \A m : /\ Books!can_accrue(m) <=> Controller!can_accrue(m)
           /\ Books!accrued(m) = Controller!accrued(m)
<1> USE ControllerWad
<1>1. /\ \A s, t : Books!elapsed(s, t) = Controller!elapsed(s, t)
      /\ \A bps : Books!annual_bps_to_per_second_wad(bps)
                      = Controller!annual_bps_to_per_second_wad(bps)
      /\ \A s : Books!stored_rate(s) = Controller!stored_rate(s)
      /\ \A b, t : Books!calculate_utilization(b, t) = Controller!calculate_utilization(b, t)
  BY DEF Books!elapsed, Controller!elapsed, Books!stored_rate, Controller!stored_rate,
         Books!annual_bps_to_per_second_wad, Controller!annual_bps_to_per_second_wad,
         Books!calculate_utilization, Controller!calculate_utilization
<1>2. \A n, config : Books!borrow_rate_annual_bps(n, config)
                         = Controller!borrow_rate_annual_bps(n, config)
  BY DEF Books!borrow_rate_annual_bps, Controller!borrow_rate_annual_bps
<1>3. \A r, n, f : Books!calculate_supply_rate(r, n, f) = Controller!calculate_supply_rate(r, n, f)
  BY DEF Books!calculate_supply_rate, Controller!calculate_supply_rate
<1>4. \A r, n, f : Books!supply_rate_annual_bps(r, n, f)
                       = Controller!supply_rate_annual_bps(r, n, f)
  BY <1>3 DEF Books!supply_rate_annual_bps, Controller!supply_rate_annual_bps
<1>5. \A r, dt : /\ Books!calculate_compound_interest(r, dt)
                        = Controller!calculate_compound_interest(r, dt)
                 /\ Books!compound_interest_ok(r, dt) <=> Controller!compound_interest_ok(r, dt)
  BY DEF Books!calculate_compound_interest, Controller!calculate_compound_interest,
         Books!compound_interest_ok, Controller!compound_interest_ok
<1>6. \A s, n : Books!accrued_borrows(s, n) = Controller!accrued_borrows(s, n)
  BY DEF Books!accrued_borrows, Controller!accrued_borrows
<1>7. \A s, b : Books!period_supply_rate(s, b) = Controller!period_supply_rate(s, b)
  BY <1>1, <1>3 DEF Books!period_supply_rate, Controller!period_supply_rate
<1>8. \A s, dt, n, r : Books!growth_ok(s, dt, n, r) <=> Controller!growth_ok(s, dt, n, r)
  BY <1>1, <1>5 DEF Books!growth_ok, Controller!growth_ok
<1>9. \A s, t : Books!accrual_ok(s, t) <=> Controller!accrual_ok(s, t)
  BY <1>1, <1>5, <1>6, <1>7, <1>8 DEF Books!accrual_ok, Controller!accrual_ok
<1>10. \A s, config, t : Books!accrued_state(s, config, t) = Controller!accrued_state(s, config, t)
  BY <1>1, <1>2, <1>4, <1>5, <1>6, <1>7 DEF Books!accrued_state, Controller!accrued_state
<1>11. \A s, config, t : Books!update_interest_indexes(s, config, t)
                             = Controller!update_interest_indexes(s, config, t)
  BY <1>1, <1>10 DEF Books!update_interest_indexes, Controller!update_interest_indexes
<1> QED BY <1>9, <1>11 DEF Books!can_accrue, Controller!can_accrue,
                           Books!accrued, Controller!accrued

LEMMA ControllerDebt ==
    /\ \A pos, index : Books!debt_at(pos, index) = Controller!debt_at(pos, index)
    /\ \A p, i, j : Books!actual_debt_ok(p, i, j) <=> Controller!actual_debt_ok(p, i, j)
    /\ \A n, i : /\ Books!scaled_debt_ok(n, i) <=> Controller!scaled_debt_ok(n, i)
                 /\ Books!to_scaled_debt(n, i) = Controller!to_scaled_debt(n, i)
                 /\ Books!remaining_debt_ok(n, i) <=> Controller!remaining_debt_ok(n, i)
                 /\ Books!remaining_debt(n, i) = Controller!remaining_debt(n, i)
                 /\ Books!repayment(n, i) = Controller!repayment(n, i)
    /\ \A pos, n, i : /\ Books!with_debt(pos, n, i) = Controller!with_debt(pos, n, i)
                      /\ Books!borrowed(pos, n, i) = Controller!borrowed(pos, n, i)
                      /\ Books!repaid_down(pos, n, i) = Controller!repaid_down(pos, n, i)
  BY ControllerWad
     DEF Books!debt_at, Controller!debt_at, Books!get_actual_debt, Controller!get_actual_debt,
         Books!actual_debt_ok, Controller!actual_debt_ok,
         Books!scaled_debt_ok, Controller!scaled_debt_ok,
         Books!to_scaled_debt, Controller!to_scaled_debt,
         Books!remaining_debt_ok, Controller!remaining_debt_ok,
         Books!remaining_debt, Controller!remaining_debt,
         Books!repayment, Controller!repayment, Books!with_debt, Controller!with_debt,
         Books!borrowed, Controller!borrowed, Books!repaid_down, Controller!repaid_down

LEMMA ControllerBooking ==
    \A s, n : /\ Books!minted(n, s) = Controller!minted(n, s)
              /\ Books!redeemed(n, s) = Controller!redeemed(n, s)
              /\ Books!book_supply(s, n) = Controller!book_supply(s, n)
              /\ Books!book_withdraw(s, n) = Controller!book_withdraw(s, n)
              /\ Books!book_borrow(s, n) = Controller!book_borrow(s, n)
              /\ Books!book_repay(s, n) = Controller!book_repay(s, n)
  BY ControllerWad
     DEF Books!minted, Controller!minted, Books!redeemed, Controller!redeemed,
         Books!book_supply, Controller!book_supply, Books!book_withdraw, Controller!book_withdraw,
         Books!book_borrow, Controller!book_borrow, Books!book_repay, Controller!book_repay

LEMMA ControllerPositions ==
    /\ \A pos, states : /\ Books!actual_position(pos, states)
                           = Controller!actual_position(pos, states)
                        /\ Books!actual_position_ok(pos, states)
                               <=> Controller!actual_position_ok(pos, states)
    /\ \A pos, m, n : Books!without_collateral(pos, m, n) = Controller!without_collateral(pos, m, n)
    /\ \A u, d, c, states, s, r : Books!seized_position(u, d, c, states, s, r)
                                      = Controller!seized_position(u, d, c, states, s, r)
<1>1. \A pos, d, c, debt, index, seized :
          Books!liquidated(pos, d, c, debt, index, seized)
              = Controller!liquidated(pos, d, c, debt, index, seized)
  BY DEF Books!liquidated, Controller!liquidated, Books!with_debt, Controller!with_debt,
         Books!saturating_sub, Controller!saturating_sub
<1>2. \A u, d, c, states, s, r : Books!seized_position(u, d, c, states, s, r)
                                     = Controller!seized_position(u, d, c, states, s, r)
  BY <1>1, ControllerDebt DEF Books!seized_position, Controller!seized_position
<1>3. \A pos, m, n : Books!without_collateral(pos, m, n) = Controller!without_collateral(pos, m, n)
  BY DEF Books!without_collateral, Controller!without_collateral
<1>4. \A pos, states, m : Books!debt_owed(pos, states, m) = Controller!debt_owed(pos, states, m)
  BY ControllerDebt DEF Books!debt_owed, Controller!debt_owed
<1>5. \A pos, states : Books!actual_position(pos, states) = Controller!actual_position(pos, states)
  BY <1>4 DEF Books!actual_position, Controller!actual_position, Books!ASSET_XRP,
              Controller!ASSET_XRP, Books!ASSET_RLUSD, Controller!ASSET_RLUSD,
              Books!ASSET_WBTC, Controller!ASSET_WBTC
<1>6. \A pos, states : Books!actual_position_ok(pos, states)
                           <=> Controller!actual_position_ok(pos, states)
  BY ControllerWad, ControllerDebt DEF Books!actual_position_ok, Controller!actual_position_ok
<1> QED BY <1>2, <1>3, <1>5, <1>6

\* The pure operators on prices and positions, unfolded on both sides.
LEMMA ControllerHealth ==
    /\ \A f : Books!get_all_prices(f) = Controller!get_all_prices(f)
    /\ \A f, t : Books!all_prices_ok(f, t) <=> Controller!all_prices_ok(f, t)
    /\ \A p, m : Books!price_per_native(p, m) = Controller!price_per_native(p, m)
    /\ \A n, p, m : Books!asset_usd_value(n, p, m) = Controller!asset_usd_value(n, p, m)
    /\ \A configs : Books!ltvs(configs) = Controller!ltvs(configs)
    /\ \A pos, p, w : Books!usd_totals_ok(pos, p, w) <=> Controller!usd_totals_ok(pos, p, w)
    /\ \A h : Books!is_liquidatable(h) <=> Controller!is_liquidatable(h)
    /\ \A pos, p, configs :
          /\ Books!health_factor_ok(pos, p, configs)
             <=> Controller!health_factor_ok(pos, p, configs)
          /\ Books!calculate_health_factor(pos, p, configs)
                 = Controller!calculate_health_factor(pos, p, configs)
          /\ Books!calculate_borrow_capacity(pos, p, configs)
                 = Controller!calculate_borrow_capacity(pos, p, configs)
    /\ \A r, p, d, c, b :
          /\ Books!liquidation_amounts_ok(r, p, d, c, b)
                 <=> Controller!liquidation_amounts_ok(r, p, d, c, b)
          /\ Books!collateral_to_seize(r, p, d, c, b)
             = Controller!collateral_to_seize(r, p, d, c, b)
    /\ \A actual, p, d, n : Books!liquidation_repaid(actual, p, d, n)
                                = Controller!liquidation_repaid(actual, p, d, n)
  BY DEF Books!get_all_prices, Controller!get_all_prices,
         Books!get_asset_price, Controller!get_asset_price,
         Books!RLUSD_FIXED_PRICE, Controller!RLUSD_FIXED_PRICE,
         Books!ASSET_RLUSD, Controller!ASSET_RLUSD, Books!Markets, Controller!Markets,
         Books!ASSET_WBTC, Controller!ASSET_WBTC, Books!ASSET_XRP, Controller!ASSET_XRP,
         Books!all_prices_ok, Controller!all_prices_ok,
         Books!asset_price_ok, Controller!asset_price_ok,
         Books!rlusd_in_peg, Controller!rlusd_in_peg, Books!is_fresh, Controller!is_fresh,
         Books!saturating_sub, Controller!saturating_sub,
         Books!price_per_native, Controller!price_per_native,
         Books!asset_usd_value, Controller!asset_usd_value, Books!ltvs, Controller!ltvs,
         Books!usd_totals_ok, Controller!usd_totals_ok,
         Books!total_debt_usd, Controller!total_debt_usd,
         Books!OverMarkets, Controller!OverMarkets, Books!Fits, Controller!Fits,
         Books!weighted_collateral, Controller!weighted_collateral,
         Books!is_liquidatable, Controller!is_liquidatable,
         Books!health_factor_ok, Controller!health_factor_ok,
         Books!thresholds, Controller!thresholds, Books!wad_ratio_ok, Controller!wad_ratio_ok,
         Books!ratio_fraction, Controller!ratio_fraction,
         Books!ratio_scale, Controller!ratio_scale,
         Books!ratio_drops_fraction, Controller!ratio_drops_fraction,
         Books!calculate_health_factor, Controller!calculate_health_factor,
         Books!wad_ratio, Controller!wad_ratio,
         Books!calculate_borrow_capacity, Controller!calculate_borrow_capacity,
         Books!liquidation_amounts_ok, Controller!liquidation_amounts_ok,
         Books!collateral_to_seize, Controller!collateral_to_seize,
         Books!seize_usd, Controller!seize_usd,
         Books!liquidation_repaid, Controller!liquidation_repaid,
         Books!calculate_max_liquidation, Controller!calculate_max_liquidation,
         Books!CLOSE_FACTOR_BPS, Controller!CLOSE_FACTOR_BPS, Books!Min2, Controller!Min2

\* The guards of the handlers.
LEMMA ControllerGuards ==
    /\ \A u, m, n, s : Books!supply_ok(u, m, n, s) <=> Controller!supply_ok(u, m, n, s)
    /\ \A u, m, n, s : Books!withdraw_ok(u, m, n, s) <=> Controller!withdraw_ok(u, m, n, s)
    /\ \A u, m, n : Books!attached(u, m, n) <=> Controller!attached(u, m, n)
    /\ \A u, m, n : Books!deposit_ok(u, m, n) <=> Controller!deposit_ok(u, m, n)
    /\ \A u, m, n : Books!withdraw_collateral_ok(u, m, n)
                    <=> Controller!withdraw_collateral_ok(u, m, n)
    /\ \A u, m, n, states : Books!borrow_ok(u, m, n, states)
                            <=> Controller!borrow_ok(u, m, n, states)
    /\ \A u, m, n, s : Books!repay_ok(u, m, n, s) <=> Controller!repay_ok(u, m, n, s)
    /\ \A u, d, c, n, states, actual, p, r :
          Books!liquidate_ok(u, d, c, n, states, actual, p, r)
              <=> Controller!liquidate_ok(u, d, c, n, states, actual, p, r)
    /\ \A u, d, c, states, r, s, n :
          Books!seize_ok(u, d, c, states, r, s, n)
              <=> Controller!seize_ok(u, d, c, states, r, s, n)
<1>1. \A u, m, n, s : Books!supply_ok(u, m, n, s) <=> Controller!supply_ok(u, m, n, s)
  BY ControllerWad, ControllerAccrual, ControllerBooking
     DEF Books!supply_ok, Controller!supply_ok
<1>2. \A u, m, n, s : Books!withdraw_ok(u, m, n, s) <=> Controller!withdraw_ok(u, m, n, s)
  BY ControllerWad, ControllerAccrual, ControllerBooking
     DEF Books!withdraw_ok, Controller!withdraw_ok
<1>3. /\ \A u, m, n : Books!attached(u, m, n) <=> Controller!attached(u, m, n)
      /\ \A u, m, n : Books!deposit_ok(u, m, n) <=> Controller!deposit_ok(u, m, n)
  BY ControllerWad DEF Books!attached, Controller!attached, Books!deposit_ok, Controller!deposit_ok
<1>4. \A u, m, n : Books!withdraw_collateral_ok(u, m, n)
                   <=> Controller!withdraw_collateral_ok(u, m, n)
  BY ControllerHealth, ControllerPositions
     DEF Books!withdraw_collateral_ok, Controller!withdraw_collateral_ok
<1>5. \A u, m, n, states : Books!borrow_ok(u, m, n, states)
                           <=> Controller!borrow_ok(u, m, n, states)
  BY ControllerWad, ControllerAccrual, ControllerDebt, ControllerHealth, ControllerPositions
     DEF Books!borrow_ok, Controller!borrow_ok
<1>6. \A u, m, n, s : Books!repay_ok(u, m, n, s) <=> Controller!repay_ok(u, m, n, s)
  BY ControllerWad, ControllerAccrual, ControllerDebt DEF Books!repay_ok, Controller!repay_ok
<1>7. \A u, d, c, n, states, actual, p, r :
          Books!liquidate_ok(u, d, c, n, states, actual, p, r)
              <=> Controller!liquidate_ok(u, d, c, n, states, actual, p, r)
  BY ControllerWad, ControllerAccrual, ControllerHealth, ControllerPositions
     DEF Books!liquidate_ok, Controller!liquidate_ok
<1>8. \A u, d, c, states, r, s, n :
          Books!seize_ok(u, d, c, states, r, s, n)
              <=> Controller!seize_ok(u, d, c, states, r, s, n)
  BY ControllerWad, ControllerDebt, ControllerHealth, ControllerPositions
     DEF Books!seize_ok, Controller!seize_ok
<1> QED BY <1>1, <1>2, <1>3, <1>4, <1>5, <1>6, <1>7, <1>8

\* The handlers.
LEMMA ControllerSupply ==
    ASSUME NEW u, NEW m, NEW n
    PROVE  Books!Supply(u, m, n) <=> Controller!Supply(u, m, n)
<1>1. ASSUME NEW s PROVE Books!SupplyAt(u, m, n, s) <=> Controller!SupplyAt(u, m, n, s)
  <2>1. /\ Books!minted(n, s) = Controller!minted(n, s)
        /\ Books!book_supply(s, n) = Controller!book_supply(s, n)
        /\ Books!attached(u, m, n) <=> Controller!attached(u, m, n)
        /\ Books!supply_ok(u, m, n, s) <=> Controller!supply_ok(u, m, n, s)
    BY ControllerBooking, ControllerGuards
  <2> QED BY ONLY <2>1, Zenon DEF Books!SupplyAt, Controller!SupplyAt
<1> QED BY <1>1, ControllerAccrual DEF Books!Supply, Controller!Supply

LEMMA ControllerWithdraw ==
    ASSUME NEW u, NEW m, NEW n
    PROVE  Books!Withdraw(u, m, n) <=> Controller!Withdraw(u, m, n)
<1>1. ASSUME NEW s PROVE Books!WithdrawAt(u, m, n, s) <=> Controller!WithdrawAt(u, m, n, s)
  <2> DEFINE paid == Books!redeemed(n, s)
  <2>1. /\ paid = Controller!redeemed(n, s)
        /\ Books!book_withdraw(s, paid) = Controller!book_withdraw(s, paid)
        /\ Books!withdraw_ok(u, m, n, s) <=> Controller!withdraw_ok(u, m, n, s)
    BY ControllerBooking, ControllerGuards
  <2> QED BY ONLY <2>1, Zenon DEF Books!WithdrawAt, Controller!WithdrawAt
<1> QED BY <1>1, ControllerAccrual DEF Books!Withdraw, Controller!Withdraw

LEMMA ControllerCollateral ==
    ASSUME NEW u, NEW m, NEW n
    PROVE  /\ Books!DepositCollateral(u, m, n) <=> Controller!DepositCollateral(u, m, n)
           /\ Books!WithdrawCollateral(u, m, n) <=> Controller!WithdrawCollateral(u, m, n)
<1>1. Books!DepositCollateral(u, m, n) <=> Controller!DepositCollateral(u, m, n)
  <2>1. /\ Books!attached(u, m, n) <=> Controller!attached(u, m, n)
        /\ Books!deposit_ok(u, m, n) <=> Controller!deposit_ok(u, m, n)
    BY ControllerGuards
  <2> QED BY ONLY <2>1, Zenon DEF Books!DepositCollateral, Controller!DepositCollateral
<1>2. Books!WithdrawCollateral(u, m, n) <=> Controller!WithdrawCollateral(u, m, n)
  <2>1. /\ Books!withdraw_collateral_ok(u, m, n) <=> Controller!withdraw_collateral_ok(u, m, n)
        /\ \A pos : Books!without_collateral(pos, m, n) = Controller!without_collateral(pos, m, n)
    BY ControllerGuards, ControllerPositions
  <2> QED BY ONLY <2>1, Zenon DEF Books!WithdrawCollateral, Controller!WithdrawCollateral
<1> QED BY <1>1, <1>2

LEMMA ControllerBorrow ==
    ASSUME NEW u, NEW m, NEW n
    PROVE  Books!Borrow(u, m, n) <=> Controller!Borrow(u, m, n)
<1>1. ASSUME NEW states PROVE Books!BorrowAt(u, m, n, states)
                              <=> Controller!BorrowAt(u, m, n, states)
  <2> DEFINE pos == [v \in Accounts |-> load_position(slots, v)][u][m]
             index == states[m].borrow_index
  <2>1. /\ Books!borrow_ok(u, m, n, states) <=> Controller!borrow_ok(u, m, n, states)
        /\ Books!borrowed(pos, n, index) = Controller!borrowed(pos, n, index)
        /\ Books!book_borrow(states[m], n) = Controller!book_borrow(states[m], n)
    BY ControllerGuards, ControllerDebt, ControllerBooking
  <2> QED BY ONLY <2>1, Zenon DEF Books!BorrowAt, Controller!BorrowAt
<1> QED BY <1>1, ControllerAccrual DEF Books!Borrow, Controller!Borrow

LEMMA ControllerRepay ==
    ASSUME NEW u, NEW m, NEW n
    PROVE  Books!Repay(u, m, n) <=> Controller!Repay(u, m, n)
<1>1. ASSUME NEW s PROVE Books!RepayAt(u, m, n, s) <=> Controller!RepayAt(u, m, n, s)
  <2> DEFINE pos == [v \in Accounts |-> load_position(slots, v)][u][m]
             index == s.borrow_index
             actual == Books!debt_at(pos, index)
             repaid == Books!repayment(n, actual)
  <2>1. /\ Books!attached(u, m, n) <=> Controller!attached(u, m, n)
        /\ Books!repay_ok(u, m, n, s) <=> Controller!repay_ok(u, m, n, s)
        /\ actual = Controller!debt_at(pos, index)
        /\ repaid = Controller!repayment(n, actual)
        /\ Books!repaid_down(pos, actual - repaid, index)
               = Controller!repaid_down(pos, actual - repaid, index)
        /\ Books!book_repay(s, repaid) = Controller!book_repay(s, repaid)
    BY ControllerGuards, ControllerDebt, ControllerBooking
  <2> QED BY ONLY <2>1, Zenon DEF Books!RepayAt, Controller!RepayAt
<1> QED BY <1>1, ControllerAccrual DEF Books!Repay, Controller!Repay

LEMMA ControllerLiquidate ==
    ASSUME NEW l, NEW u, NEW d, NEW c, NEW n
    PROVE  Books!Liquidate(l, u, d, c, n) <=> Controller!Liquidate(l, u, d, c, n)
<1>1. ASSUME NEW states, NEW r, NEW s, NEW left
      PROVE  Books!Seize(l, u, d, c, n, states, r, s, left)
                 <=> Controller!Seize(l, u, d, c, n, states, r, s, left)
  <2>1. /\ Books!seize_ok(u, d, c, states, r, s, left)
           <=> Controller!seize_ok(u, d, c, states, r, s, left)
        /\ Books!seized_position(u, d, c, states, s, left)
               = Controller!seized_position(u, d, c, states, s, left)
        /\ \A state : Books!book_repay(state, r) = Controller!book_repay(state, r)
    BY ControllerGuards, ControllerPositions, ControllerBooking
  <2> QED BY ONLY <2>1, Zenon DEF Books!Seize, Controller!Seize
<1>2. ASSUME NEW states, NEW actual, NEW p, NEW r
      PROVE  Books!LiquidateAt(l, u, d, c, n, states, actual, p, r)
                 <=> Controller!LiquidateAt(l, u, d, c, n, states, actual, p, r)
  <2>1. /\ Books!attached(l, d, n) <=> Controller!attached(l, d, n)
        /\ Books!liquidate_ok(u, d, c, n, states, actual, p, r)
               <=> Controller!liquidate_ok(u, d, c, n, states, actual, p, r)
        /\ \A b : Books!collateral_to_seize(r, p, d, c, b)
                  = Controller!collateral_to_seize(r, p, d, c, b)
        /\ \A a : Books!saturating_sub(a, r) = Controller!saturating_sub(a, r)
    BY ControllerGuards, ControllerHealth, ControllerWad
  <2> QED BY <1>1, <2>1 DEF Books!LiquidateAt, Controller!LiquidateAt
<1>3. /\ Books!accrued(d) = Controller!accrued(d) /\ Books!accrued(c) = Controller!accrued(c)
      /\ \A pos, states : Books!actual_position(pos, states)
                          = Controller!actual_position(pos, states)
      /\ Books!get_all_prices(feed) = Controller!get_all_prices(feed)
      /\ \A actual, p : Books!liquidation_repaid(actual, p, d, n)
                            = Controller!liquidation_repaid(actual, p, d, n)
  BY ControllerAccrual, ControllerPositions, ControllerHealth
<1> QED BY ONLY <1>2, <1>3, Zenon DEF Books!Liquidate, Controller!Liquidate

LEMMA ControllerNext == [Books!Next]_Books!vars => [Controller!Next]_Controller!vars
<1>1. Books!vars = Controller!vars
  BY DEF Books!vars, Controller!vars
<1>2. Books!Tick <=> Controller!Tick
  BY DEF Books!Tick, Controller!Tick
<1>3. \A prices : Books!PostPrices(prices) <=> Controller!PostPrices(prices)
  BY DEF Books!PostPrices, Controller!PostPrices
<1>4. Books!Next => Controller!Next
  BY <1>2, <1>3, ControllerWad, ControllerSupply, ControllerWithdraw, ControllerCollateral,
     ControllerBorrow, ControllerRepay, ControllerLiquidate DEF Books!Next, Controller!Next
<1>5. ASSUME UNCHANGED Books!vars PROVE UNCHANGED Controller!vars
  BY <1>5 DEF Books!vars, Controller!vars
<1> QED BY <1>4, <1>5

LEMMA ControllerInit == Books!Init => Controller!Init
  BY ControllerWad DEF Books!Init, Controller!Init, Books!NoPrices, Controller!NoPrices,
     Books!FreshInterest, Controller!FreshInterest, Books!EmptyPosition, Controller!EmptyPosition

\* An account is a fixed number of bytes: there are finitely many.
LEMMA AccountIDsFinite == IsFiniteSet(AccountIDs)
<1> DEFINE places == (1 .. ACCOUNT_BYTES) \X Byte
           bytes(a) == {<<i, a[i]>> : i \in 1 .. ACCOUNT_BYTES}
           graph == [a \in AccountIDs |-> bytes(a)]
<1>1. IsFiniteSet(1 .. ACCOUNT_BYTES) /\ IsFiniteSet(Byte)
  <2>1. /\ 1 \in Int /\ ACCOUNT_BYTES \in Int /\ 0 \in Int /\ 255 \in Int
    BY StorageAssumption
  <2>2. IsFiniteSet(1 .. ACCOUNT_BYTES)
    BY <2>1, FS_Interval
  <2>3. IsFiniteSet(0 .. 255)
    BY <2>1, FS_Interval
  <2> QED BY <2>2, <2>3 DEF Byte
<1>2. IsFiniteSet(SUBSET places)
  BY <1>1, FS_Product, FS_SUBSET
<1>3. ASSUME NEW a \in AccountIDs PROVE bytes(a) \in SUBSET places
  BY DEF AccountIDs
<1>4. ASSUME NEW a \in AccountIDs, NEW b \in AccountIDs, bytes(a) = bytes(b) PROVE a = b
  <2>1. ASSUME NEW i \in 1 .. ACCOUNT_BYTES PROVE a[i] = b[i]
    <3>1. <<i, a[i]>> \in bytes(b)
      BY <1>4
    <3>2. PICK j \in 1 .. ACCOUNT_BYTES : <<i, a[i]>> = <<j, b[j]>>
      BY <3>1
    <3> QED BY <3>2
  <2>2. a = [i \in 1 .. ACCOUNT_BYTES |-> a[i]] /\ b = [i \in 1 .. ACCOUNT_BYTES |-> b[i]]
    BY DEF AccountIDs
  <2> QED BY <2>1, <2>2
<1> HIDE DEF bytes, places
<1>5. /\ graph \in [AccountIDs -> SUBSET places]
      /\ \A a, b \in AccountIDs : graph[a] = graph[b] => a = b
  BY <1>3, <1>4
<1>6. DOMAIN graph = AccountIDs
  OBVIOUS
<1> HIDE DEF graph
<1>7. graph \in Injection(AccountIDs, SUBSET places)
  BY <1>5, <1>6 DEF Injection, IsInjective
<1> QED BY <1>2, <1>7, FS_Injection

\* The parameters of the instance are as LendingController and the modules it
\* extends assume.
LEMMA ControllerAssumed ==
    /\ Controller!ControllerAssumption /\ Controller!AccountsAssumption
    /\ Controller!WadMathAssumption /\ Controller!OracleAssumption /\ Controller!HealthAssumption
<1>1. Controller!Markets = Markets /\ Controller!U128 = U128
  BY SameHealth, ControllerWad DEF Controller!U128, U128
<1>2. Controller!WadMathAssumption /\ Controller!OracleAssumption
  BY WadMathAssumption, OracleAssumption
     DEF Controller!WadMathAssumption, Controller!OracleAssumption
<1>3. Controller!HealthAssumption
  BY <1>1, HealthAssumption DEF Controller!HealthAssumption
<1>4. Accounts \subseteq AccountIDs
  BY AccountsType
<1>5. Controller!AccountsAssumption
  <2>1. IsFiniteSet(Accounts)
    BY <1>4, AccountIDsFinite, FS_Subset
  <2>2. Controller!IsFiniteSet(Accounts) <=> IsFiniteSet(Accounts)
    BY DEF IsFiniteSet, Controller!IsFiniteSet
  <2> QED BY <2>1, <2>2 DEF Controller!AccountsAssumption
<1>6. Controller!MarketConfigs = MarketConfigs
  BY DEF Controller!MarketConfigs, MarketConfigs
<1>7. Amounts \subseteq Nat
  BY ParameterTypes DEF Amounts
<1>8. Controller!ControllerAssumption
  BY <1>1, <1>6, <1>7, BooksAssumption DEF Controller!ControllerAssumption
<1> QED BY <1>2, <1>3, <1>5, <1>8

LEMMA ControllerKept == ASSUME Unambiguous PROVE EntrySpec => Controller!Spec
  BY BooksKeptCorrect, ControllerInit, ControllerNext, PTL
     DEF BooksKept, Books!Spec, Controller!Spec

(***************************************************************************)
(* What is in storage after any calls of the entry points (lib.rs:207-525) *)
(* is backed by tokens: the stored total_supply of a market by the cash    *)
(* within its reach, the stored collateral of all accounts by what the     *)
(* contract account holds.  No entry point lowers a stored index, charges  *)
(* an account more than it owed, was lent and earned in interest, seizes   *)
(* more than the value repaid with its bonus, keeps tokens but in a        *)
(* liquidation, or lends and is repaid without booking it.  Rests on the   *)
(* host's answer for the sender being that account (Unambiguous).          *)
(***************************************************************************)
THEOREM EntryBooksSafe ==
    ASSUME Unambiguous
    PROVE  EntrySpec => /\ []Controller!CashBacked
                        /\ []Controller!CollateralBacked
                        /\ []Controller!IndexesOrdered
                        /\ Controller!IndexesMonotone
                        /\ Controller!NeverOvercharged
                        /\ Controller!LiquidationBounded
                        /\ Controller!SurplusOnlyFromLiquidation
                        /\ Controller!DebtsBooked
<1> USE ControllerAssumed
    DEF Controller!ControllerAssumption, Controller!AccountsAssumption,
        Controller!WadMathAssumption, Controller!OracleAssumption, Controller!HealthAssumption
<1>1. Controller!Spec => []Controller!CashBacked
  BY Controller!CashBackedCorrect
<1>2. Controller!Spec => []Controller!CollateralBacked
  BY Controller!CollateralBackedCorrect
<1>3. Controller!Spec => []Controller!IndexesOrdered
  BY Controller!IndexesOrderedCorrect
<1>4. Controller!Spec => Controller!IndexesMonotone
  BY Controller!IndexesMonotoneCorrect
<1>5. Controller!Spec => Controller!NeverOvercharged
  BY Controller!NeverOverchargedCorrect
<1>6. Controller!Spec => Controller!LiquidationBounded
  BY Controller!LiquidationBoundedCorrect
<1>7. Controller!Spec => Controller!SurplusOnlyFromLiquidation
  BY Controller!SurplusOnlyFromLiquidationCorrect
<1>8. Controller!Spec => Controller!DebtsBooked
  BY Controller!DebtsBookedCorrect
<1> QED BY ControllerKept, <1>1, <1>2, <1>3, <1>4, <1>5, <1>6, <1>7, <1>8

(***************************************************************************)
(* What leaves by an entry point (withdraw, borrow, withdraw_collateral    *)
(* and liquidate of lib.rs) is covered: cash goes to who burns shares      *)
(* worth it or is within its LTV capacity, when a unit of every asset is   *)
(* worth something; collateral goes to an owner who stays solvent or out   *)
(* of a position that is not, when the ratios that decide it lose no       *)
(* fraction that matters (ClearBooks).                                     *)
(***************************************************************************)
THEOREM EntryPayoutsSafe ==
    ASSUME Unambiguous
    PROVE  /\ Controller!PricedPerUnit => (EntrySpec => Controller!CashLeavesSafely)
           /\ EntrySpec /\ []Controller!ClearBooks => Controller!CollateralLeavesSafely
<1> USE ControllerAssumed
    DEF Controller!ControllerAssumption, Controller!AccountsAssumption,
        Controller!WadMathAssumption, Controller!OracleAssumption, Controller!HealthAssumption
<1>1. ASSUME Controller!PricedPerUnit PROVE Controller!Spec => Controller!CashLeavesSafely
  BY <1>1, Controller!CashLeavesSafelyCorrect
<1>2. Controller!Spec /\ []Controller!ClearBooks => Controller!CollateralLeavesSafely
  BY Controller!CollateralLeavesSafelyCorrect
<1> QED BY ControllerKept, <1>1, <1>2

(***************************************************************************)
(* No entry point is closed for good by the interest of its market         *)
(* (update_interest_indexes): stored rates of at most 100%, at most 100%   *)
(* of interest since a market was last stored and room in its numbers keep *)
(* every accrual possible.  No rate leaves the curve, so a market whose    *)
(* curve ends at 100% has the first, and its suppliers' index below its    *)
(* borrowers'.  Where an accrual is possible, so are the two exits, repay  *)
(* and withdraw, for any amount the wallet and the vault have.             *)
(***************************************************************************)
THEOREM EntryMarketsStayOpen ==
    ASSUME Unambiguous
    PROVE  /\ EntrySpec => []Controller!RatesWithinCurve
           /\ EntrySpec => []Controller!SteadyMarkets
           /\ EntrySpec /\ []Controller!RatesBelowFull /\ []Controller!TouchedInTime
                        /\ []Controller!RoomToGrow => []Controller!NeverFrozen
           /\ EntrySpec /\ []Controller!NeverFrozen => []Controller!ExitsOpen
<1> USE ControllerAssumed
    DEF Controller!ControllerAssumption, Controller!AccountsAssumption,
        Controller!WadMathAssumption, Controller!OracleAssumption, Controller!HealthAssumption
<1>1. Controller!Spec => []Controller!RatesWithinCurve
  BY Controller!RatesWithinCurveCorrect
<1>2. Controller!Spec => []Controller!SteadyMarkets
  BY Controller!SteadyMarketsCorrect
<1>3. Controller!Spec /\ []Controller!RatesBelowFull /\ []Controller!TouchedInTime
                      /\ []Controller!RoomToGrow => []Controller!NeverFrozen
  BY Controller!NeverFrozenCorrect
<1>4. Controller!Spec /\ []Controller!NeverFrozen => []Controller!ExitsOpen
  BY Controller!ExitsOpenCorrect
<1> QED BY ControllerKept, <1>1, <1>2, <1>3, <1>4

=============================================================================
