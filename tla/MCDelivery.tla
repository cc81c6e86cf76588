----------------------------- MODULE MCDelivery ------------------------------
EXTENDS Delivery
=============================================================================
