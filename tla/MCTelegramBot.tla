--------------------------- MODULE MCTelegramBot ---------------------------
EXTENDS TelegramBot

CONSTANTS b1, b2, b3, s1, s2
===========================================================================
