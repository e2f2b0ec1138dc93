--------------------------- MODULE MCDataLifecycle ---------------------------
(* Four rows: an export, a subscription and a plain row of the             *)
(* organization, and a row of the account.  The first two are either both  *)
(* listed for what they are or both blank: an export under way, and a      *)
(* subscription of the internal provider.                                  *)
EXTENDS DataLifecycle

Plan == [account |-> <<"account_profile">>,
         organization |-> <<"exports", "billing_provider", "organization_relational">>]
Kinds == <<"exports", "billing_provider", "organization_relational", "account_profile">>
=============================================================================
