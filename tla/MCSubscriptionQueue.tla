------------------------ MODULE MCSubscriptionQueue -------------------------
\* Small instances of SubscriptionQueue.
EXTENDS SubscriptionQueue
==============================================================================
