----------------------------- MODULE Activation -----------------------------
(***************************************************************************)
(* What billing promises (src/api/src/common/billing, common/plans): a     *)
(* sale is one step.  It adds an invoice, with its payment, under numbers  *)
(* that no other has, extends one subscription of the tenant or creates    *)
(* one, and marks the event it is due to as PROCESSED, which was not so    *)
(* before.                                                                 *)
(***************************************************************************)
EXTENDS Integers, FiniteSets

CONSTANTS Tenants, Payments, Events, TenantOf, PaymentOf, Named, Deletable, None

VARIABLES
  done,  \* the events that are PROCESSED
  sold,  \* PlatformInvoice rows, with their PlatformPayment
  subs,  \* PlatformSubscription rows
  alive  \* the tenants that exist

vars == <<done, sold, subs, alive>>

Init == done = {} /\ sold = {} /\ subs = {} /\ alive = Tenants

RowsOf(t) == {s \in subs : s.tenant = t}

Paid == {x \in sold : x.pay # 0}

\* The numbers of the sale x are no other's in its series; until a tenant is
\* deleted they are at most the next ones.
Numbered(x) ==
  /\ x.pay = 0 <=> x.of = None
  /\ \A y \in sold : y.series = x.series => y.inv # x.inv /\ (y.pay = x.pay => x.pay = 0)
  /\ alive = Tenants => /\ x.inv <= Cardinality(sold) + 1
                        /\ x.pay <= Cardinality(Paid) + 1

\* What the sale x is due to, and whom it is for.
Due(x) ==
  /\ x.tenant \in alive
  /\ x.by \in Events => x.by \notin done /\ x.of = PaymentOf[x.by]
  /\ x.by \in Named => x.tenant = TenantOf[x.of]
  /\ x.by = "verify" => x.of \in Payments /\ x.tenant = TenantOf[x.of]
  /\ x.by = "manual" => x.of = None

NewRow(t) == [tenant |-> t, id |-> Cardinality(RowsOf(t)) + 1, order |-> None, paid |-> None]

Extended(s, x) == [s EXCEPT !.order = IF x.by = "verify" THEN x.of ELSE @,
                            !.paid = IF x.by \in Events THEN x.of ELSE @]

Sell(x) ==
  /\ Due(x)
  /\ Numbered(x)
  /\ sold' = sold \cup {x}
  /\ done' = done \cup ({x.by} \cap Events)
  /\ \/ subs' = subs \cup {Extended(NewRow(x.tenant), x)}
     \/ \E s \in RowsOf(x.tenant) : subs' = (subs \ {s}) \cup {Extended(s, x)}
  /\ UNCHANGED alive

\* A tenant gets a subscription that costs nothing.
Grant(t) ==
  /\ t \in alive
  /\ subs' = subs \cup {NewRow(t)}
  /\ UNCHANGED <<done, sold, alive>>

\* An event that there is nobody to activate for.
Ignore(e) ==
  /\ e \notin done
  /\ e \in Named => TenantOf[PaymentOf[e]] \notin alive
  /\ done' = done \cup {e}
  /\ UNCHANGED <<sold, subs, alive>>

Delete(t) ==
  /\ t \in alive \cap Deletable
  /\ alive' = alive \ {t}
  /\ sold' = {x \in sold : x.tenant # t}
  /\ subs' = subs \ RowsOf(t)
  /\ UNCHANGED done

Next ==
  \/ \E x \in sold' \ sold : Sell(x)
  \/ \E e \in Events : Ignore(e)
  \/ \E t \in Tenants : Grant(t) \/ Delete(t)

Spec == Init /\ [][Next]_vars
=============================================================================
