\* The whole dialogue, with the connection lost at any moment, and every
\* interruption of a handshake that may be repeated twice.
SPECIFICATION Spec
CONSTANT MaxRetry = 2
PROPERTIES TheyConverse BothEnd
CHECK_DEADLOCK FALSE
