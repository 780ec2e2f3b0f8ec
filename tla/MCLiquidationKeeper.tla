------------------------ MODULE MCLiquidationKeeper ------------------------
EXTENDS LiquidationKeeper

CONSTANTS u1, u2

Book(size, cash, other, assets) ==
    [size |-> size, cash |-> cash, other |-> other, assets |-> assets]

MCPortfolios ==
    {(u1 :> Book(<<4, 0>>, -4, 8, {"USDC", "USDT0"})) @@ (u2 :> Book(<<4, 5>>, 0, 4, {"USDC", "USDT0"}))}
MCUsdtOnly == {(u1 :> Book(<<4, 0>>, 0, 6, {"USDT0"})) @@ (u2 :> Book(<<0, 0>>, 0, 0, {"USDC"}))}
=============================================================================
