------------------------------- MODULE MCForm -------------------------------
(* A site with two funding sources, one of them split into two periods; a
   grant's site, which has no code; two names that may be typed, one of them a
   funding source of the first site.  A draft may exist already that lacks
   nothing but a signature.                                                *)
EXTENDS Form

Row(site, code, funding) == [site |-> site, siteCode |-> code, fundingSource |-> funding]

MCRows == <<Row("West Adams (2150)", "2150", "ASSET"), Row("West Adams (2150)", "2150", "WRSHARED"),
            Row("CNRA", "", "CNRA 25-26")>>
MCPeriodExempt == {"WRSHARED", "CNRA 25-26"}
MCPeriods      == <<"Summer 26", "26-27">>
MCTexts        == {"Camp", "ASSET"}
MCAssetFunding == {"ASSET", "ASSET Summer 26", "ASSET 26-27"}
MCAssetSites   == {"West Adams (2150)"}
MCAmounts      == {-10, 4, 1006}

Line == [description |-> "24 robotics kits for the Grade 9 lab",
         expenseType |-> "Program Supplies", amount |-> <<1006>>]
Filled == [p \in Plain |-> "good"]
MCDrafts == {[updateLine(selectSite(freshForm, "West Adams (2150)"), 1, Line) EXCEPT !.plain = Filled]}
=============================================================================
