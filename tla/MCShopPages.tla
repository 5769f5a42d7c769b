---------------------------- MODULE MCShopPages -----------------------------
EXTENDS ShopPages
MCNames == {"a", "b"}
=============================================================================
