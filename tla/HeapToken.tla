----------------------------- MODULE HeapToken -----------------------------
(***************************************************************************)
(* The HEAP token, src/heap_token/HEAP.sol.  A call is a transaction: its  *)
(* reverts are guards, and a reverted call changes nothing.  The           *)
(* arithmetic is that of solc 0.8: an addition that leaves uint256 reverts *)
(* the call, so its result is bounded by MaxUint in the guard.             *)
(***************************************************************************)
EXTENDS Naturals, FiniteSets, Functions

CONSTANTS
  Address,        \* all addresses
  Zero,           \* address(0), which never sends a transaction
  Admin,          \* _admin of the constructor
  MaxUint,        \* type(uint256).max
  InitialSupply,  \* 1_000_000_000 * 10 ** 18
  Amounts,        \* amounts a caller may pass
  Spenders        \* spenders anyone may approve

Uint == 0..MaxUint
Sender == Address \ {Zero}

ASSUME HeapAssumption ==
  /\ Zero \in Address /\ IsFiniteSet(Address)
  /\ Admin \in Sender
  /\ MaxUint \in Nat
  /\ InitialSupply \in Uint
  /\ Amounts \subseteq Uint
  /\ Spenders \subseteq Address

VARIABLES totalSupply, balanceOf, allowance, owner, pendingOwner,
          buybackEnabled, totalBurned,
          minted,     \* observer: tokens ever created
          nominator,  \* observer: the owner who set pendingOwner
          caller      \* observer: msg.sender of the last call

funds == <<totalSupply, balanceOf, totalBurned, minted>>
roles == <<owner, pendingOwner, nominator>>
tokenVars == <<funds, allowance, roles, buybackEnabled, caller>>

TokenTypeOK ==
  /\ totalSupply \in Uint
  /\ balanceOf \in [Address -> Uint]
  /\ allowance \in [Address -> [Address -> Uint]]
  /\ owner \in Address /\ pendingOwner \in Address
  /\ buybackEnabled \in BOOLEAN
  /\ totalBurned \in Uint
  /\ minted \in Nat
  /\ nominator \in Address
  /\ caller \in Address

TokenInit ==
  /\ \E mintInitialSupply \in BOOLEAN :
       totalSupply = IF mintInitialSupply THEN InitialSupply ELSE 0
  /\ balanceOf = [a \in Address |-> IF a = Admin THEN totalSupply ELSE 0]
  /\ allowance = [a \in Address |-> [s \in Address |-> 0]]
  /\ owner = Admin /\ pendingOwner = Zero
  /\ buybackEnabled = FALSE
  /\ totalBurned = 0
  /\ minted = totalSupply
  /\ nominator = Zero
  /\ caller = Admin

-----------------------------------------------------------------------------
OnlyOwner == caller' = owner

MoveCached(from, to, a) ==        \* a mutant: both balances read before the debit
  /\ to # Zero /\ a <= balanceOf[from]
  /\ balanceOf[to] + a <= MaxUint
  /\ balanceOf' = [balanceOf EXCEPT ![from] = @ - a,
                                    ![to] = balanceOf[to] + a]
  /\ UNCHANGED <<totalSupply, totalBurned, minted>>

(* _transfer: the credit sees the debit, so a transfer to oneself is none. *)
Move(from, to, a) ==
  /\ to # Zero
  /\ a <= balanceOf[from]
  /\ balanceOf' = IF from = to THEN balanceOf
                  ELSE [balanceOf EXCEPT ![from] = @ - a, ![to] = @ + a]
  /\ balanceOf'[to] <= MaxUint
  /\ UNCHANGED <<totalSupply, totalBurned, minted>>

Transfer(to, a) ==
  /\ Move(caller', to, a)
  /\ UNCHANGED <<allowance, roles, buybackEnabled>>

SpendUnreduced(from, to, a) ==   \* a mutant: the allowance is not written back
  /\ a <= allowance[from][caller']
  /\ Move(from, to, a)
  /\ UNCHANGED <<allowance, roles, buybackEnabled>>

TransferFrom(from, to, a) ==
  /\ IF allowance[from][caller'] = MaxUint
     THEN UNCHANGED allowance
     ELSE /\ a <= allowance[from][caller']
          /\ allowance' = [allowance EXCEPT ![from][caller'] = @ - a]
  /\ Move(from, to, a)
  /\ UNCHANGED <<roles, buybackEnabled>>

Approve(spender, a) ==
  /\ allowance' = [allowance EXCEPT ![caller'][spender] = a]
  /\ UNCHANGED <<funds, roles, buybackEnabled>>

TransferOwnership(newOwner) ==
  /\ OnlyOwner
  /\ pendingOwner' = newOwner
  /\ nominator' = owner
  /\ UNCHANGED <<funds, allowance, owner, buybackEnabled>>

AcceptAndKeep ==                 \* a mutant: pendingOwner is not cleared
  /\ caller' = pendingOwner
  /\ owner' = pendingOwner
  /\ UNCHANGED <<funds, allowance, pendingOwner, nominator, buybackEnabled>>

AcceptOwnership ==
  /\ caller' = pendingOwner
  /\ owner' = pendingOwner
  /\ pendingOwner' = Zero
  /\ UNCHANGED <<funds, allowance, nominator, buybackEnabled>>

Mint(to, a) ==                   \* to is not checked: it may be address(0)
  /\ OnlyOwner
  /\ totalSupply + a <= MaxUint
  /\ balanceOf[to] + a <= MaxUint
  /\ totalSupply' = totalSupply + a
  /\ balanceOf' = [balanceOf EXCEPT ![to] = @ + a]
  /\ minted' = minted + a
  /\ UNCHANGED <<allowance, roles, buybackEnabled, totalBurned>>

BurnUncounted(a) ==              \* a mutant: the supply is not reduced
  /\ a <= balanceOf[caller'] /\ a <= totalSupply
  /\ totalBurned + a <= MaxUint
  /\ balanceOf' = [balanceOf EXCEPT ![caller'] = @ - a]
  /\ totalBurned' = totalBurned + a
  /\ UNCHANGED <<totalSupply, allowance, roles, buybackEnabled, minted>>

Burn(a) ==                       \* - and += are checked, so each one is a guard
  /\ a <= balanceOf[caller'] /\ a <= totalSupply
  /\ totalBurned + a <= MaxUint
  /\ balanceOf' = [balanceOf EXCEPT ![caller'] = @ - a]
  /\ totalSupply' = totalSupply - a
  /\ totalBurned' = totalBurned + a
  /\ UNCHANGED <<allowance, roles, buybackEnabled, minted>>

SetBuybackEnabled(enabled) ==
  /\ OnlyOwner
  /\ buybackEnabled' = enabled
  /\ UNCHANGED <<funds, allowance, roles>>

Call ==
  \/ \E to \in Address, a \in Amounts : Transfer(to, a)
  \/ \E from, to \in Address, a \in Amounts : TransferFrom(from, to, a)
  \/ \E spender \in Spenders, a \in Amounts : Approve(spender, a)
  \/ \E newOwner \in Address : TransferOwnership(newOwner)
  \/ AcceptOwnership
  \/ \E to \in Address, a \in Amounts : Mint(to, a)
  \/ \E a \in Amounts : Burn(a)
  \/ \E enabled \in BOOLEAN : SetBuybackEnabled(enabled)

TokenNext == \E sender \in Sender : caller' = sender /\ Call

TokenSpec == TokenInit /\ [][TokenNext]_tokenVars

-----------------------------------------------------------------------------
(* Every token of the supply is in somebody's balance, address(0) included *)
(* (HEAP.sol:82-83, 103-104, 110-111 each update the two by hand).         *)
BalancesMatchSupply == FoldFunction(+, 0, balanceOf) = totalSupply

(* The supply and the burned total account for every token ever created:   *)
(* nothing but burn destroys tokens (HEAP.sol:102-115).                    *)
BurnsAccounted == totalSupply + totalBurned = minted

(* A balance falls only in a call of its holder, or by what the holder had *)
(* approved to the caller, an approval that is used up by as much unless   *)
(* it is unlimited (HEAP.sol:63-70).                                       *)
SpendingNeedsConsent ==
  [][\A h \in Address : balanceOf'[h] < balanceOf[h] =>
        \/ caller' = h
        \/ allowance[h][caller'] = MaxUint
        \/ balanceOf[h] - balanceOf'[h] =
             allowance[h][caller'] - allowance'[h][caller']]_tokenVars

(* A nomination does not outlive the owner who made it, and whoever is     *)
(* owner has been nominated and has accepted: the contract never belongs   *)
(* to address(0) (HEAP.sol:89-99).                                         *)
NominationsCurrent ==
  /\ owner # Zero
  /\ pendingOwner # Zero => nominator = owner
=============================================================================
