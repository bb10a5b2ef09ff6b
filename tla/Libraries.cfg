INIT Init
NEXT Next
INVARIANT MatchesRight
INVARIANT TablesRight
 
INVARIANT RequireRight
 
INVARIANT TokensRight
CHECK_DEADLOCK FALSE
