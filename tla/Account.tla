------------------------------- MODULE Account -------------------------------
(***************************************************************************)
(* The account of easy_exchange/asset_def.h, called by several threads, as *)
(* its atomic members mean it to be.  The fund is changed by loops around  *)
(* a weak compare_exchange, the positions in the body of                   *)
(* while(m_op_flag.test_and_set()), which runs as long as another thread   *)
(* has the flag and not when this thread has taken it.                     *)
(*                                                                         *)
(* Two bodies can run at the same time: the map they share then holds      *)
(* anything.  atomic_flag has no initial value before C++20.               *)
(***************************************************************************)
EXTENDS Integers, FiniteSets, FiniteSetsExt

CONSTANTS Traders,      \* threads that call the account
          Codes,        \* stocks
          Prices,
          Volumes,
          MaxCalls,     \* bound: calls of each thread
          MaxPosition   \* bound: positions beyond it are not followed

ASSUME AccountAssumption == /\ Prices \subseteq Nat /\ Volumes \subseteq Nat \ {0}
                            /\ MaxCalls \in Nat /\ MaxPosition \in Nat

VARIABLES
  m_fund,      \* the money
  m_position,  \* the map: the volume held, 0 where it has no entry
  m_op_flag,   \* the flag
  torn,        \* two bodies have overlapped on the map
  call,        \* each thread's call and where it is
  calls,       \* calls each thread has made
  settled      \* history: the sum of what the calls that returned true moved

acVars == <<m_fund, m_position, m_op_flag, torn, call, calls, settled>>

NoCall == [at |-> "idle"]
Positions == [Codes -> 0 .. MaxPosition]

AccountInit == /\ m_fund = 0 /\ m_position = [c \in Codes |-> 0]
               /\ m_op_flag \in BOOLEAN
               /\ torn = FALSE /\ settled = 0
               /\ call = [t \in Traders |-> NoCall]
               /\ calls = [t \in Traders |-> 0]

\* Thread t continues its call at l.
Proceed(t, l) == call' = [call EXCEPT ![t].at = l]
Leave(t) == call' = [call EXCEPT ![t] = NoCall]

\* A call up to its first access to shared state: buy_stock has loaded m_fund.
Begin(t, op, c, amount, volume) ==
  /\ call[t] = NoCall /\ calls[t] < MaxCalls
  /\ calls' = [calls EXCEPT ![t] = @ + 1]
  /\ call' = [call EXCEPT ![t] = [at |-> IF op = "buy" THEN "pay" ELSE "test", op |-> op,
                                  code |-> c, amount |-> amount, volume |-> volume,
                                  old |-> m_fund]]
  /\ UNCHANGED <<m_fund, m_position, m_op_flag, torn, settled>>

-----------------------------------------------------------------------------
(* The fund. *)

\* Mutant: the new value is stored without comparing the old one.
Exchange_Store(t, new, l) == m_fund' = new /\ Proceed(t, l)

\* compare_exchange_weak(old, new) succeeds, and the call goes on at l.
Exchange(t, new, l) == m_fund = call[t].old /\ m_fund' = new /\ Proceed(t, l)

\* It fails, perhaps without a cause, and loads the fund into old.
Reload(t) == call' = [call EXCEPT ![t].old = m_fund] /\ UNCHANGED m_fund

\* buy_stock's loop: the test for a refusal, old < old - balance, follows a failure,
\* and no price makes it true.
Pay(t) ==
  /\ call[t].at = "pay"
  /\ \/ Exchange(t, call[t].old - call[t].amount, "test")
     \/ IF m_fund < m_fund - call[t].amount THEN Leave(t) /\ UNCHANGED m_fund
                                             ELSE Reload(t)
  /\ UNCHANGED <<m_position, m_op_flag, torn, calls, settled>>

\* sell_stock's loop.
Collect(t) ==
  /\ call[t].at = "collect"
  /\ Exchange(t, call[t].old + call[t].amount, "sold") \/ Reload(t)
  /\ UNCHANGED <<m_position, m_op_flag, torn, calls, settled>>

Sold(t) ==
  /\ call[t].at = "sold"
  /\ settled' = settled + call[t].amount
  /\ Leave(t)
  /\ UNCHANGED <<m_fund, m_position, m_op_flag, torn, calls>>

-----------------------------------------------------------------------------
(* The positions. *)

InBody == {t \in Traders : call[t].at = "body"}

\* test_and_set: the body is entered if the flag was set already.
TestAndSet(t) ==
  /\ call[t].at = "test"
  /\ m_op_flag' = TRUE
  /\ Proceed(t, IF m_op_flag THEN "body" ELSE "clear")
  /\ torn' = (torn \/ (m_op_flag /\ \E u \in InBody : {call[t].op, call[u].op} # {"query"}))
  /\ UNCHANGED <<m_fund, m_position, calls, settled>>

\* What the body makes of the position p.
Moved(t, p) == CASE call[t].op = "buy" -> p + call[t].volume
                 [] call[t].op = "sell" -> p - call[t].volume
                 [] call[t].op = "query" -> p

\* The end of the body, and the test of the loop again: a sale of more than is held
\* clears the flag, whoever has it, and fails.
Body(t) ==
  LET new == Moved(t, m_position[call[t].code])
  IN  /\ call[t].at = "body"
      /\ new <= MaxPosition
      /\ IF new < 0 THEN m_op_flag' = FALSE /\ Leave(t)
         ELSE UNCHANGED m_op_flag /\ Proceed(t, "test")
      /\ IF torn THEN m_position' \in Positions
         ELSE m_position' = IF new < 0 THEN m_position
                            ELSE [m_position EXCEPT ![call[t].code] = new]
      /\ UNCHANGED <<m_fund, torn, calls, settled>>

\* clear() after the loop, and the return of a purchase or a query; a sale loads the
\* fund.
Clear(t) ==
  /\ call[t].at = "clear"
  /\ m_op_flag' = FALSE
  /\ IF call[t].op = "sell"
       THEN /\ call' = [call EXCEPT ![t].at = "collect", ![t].old = m_fund]
            /\ UNCHANGED settled
       ELSE /\ Leave(t)
            /\ settled' = IF call[t].op = "buy" THEN settled - call[t].amount ELSE settled
  /\ UNCHANGED <<m_fund, m_position, torn, calls>>

-----------------------------------------------------------------------------
TraderStep(t) == \/ \E op \in {"buy", "sell"}, c \in Codes, p \in Prices, v \in Volumes :
                      Begin(t, op, c, p * v, v)
                 \/ \E c \in Codes : Begin(t, "query", c, 0, 0)
                 \/ Pay(t) \/ Collect(t) \/ Sold(t)
                 \/ TestAndSet(t) \/ Body(t) \/ Clear(t)

AccountNext == \E t \in Traders : TraderStep(t)

AccountSpec == AccountInit /\ [][AccountNext]_acVars

-----------------------------------------------------------------------------
(* Correctness. *)

\* No update of the fund is lost and none is made twice: the fund is what the calls
\* that returned true have moved, and what the calls that are past their exchange
\* have; a sale that is refused moves nothing (asset_def.h:10-17, 49-66).
FundIsAccounted ==
  m_fund = settled
           - MapThenSumSet(LAMBDA t : call[t].amount,
               {t \in Traders : call[t].at \in {"test", "body", "clear"} /\ call[t].op = "buy"})
           + MapThenSumSet(LAMBDA t : call[t].amount, {t \in Traders : call[t].at = "sold"})
=============================================================================
