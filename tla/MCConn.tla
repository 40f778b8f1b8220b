-------------------------------- MODULE MCConn --------------------------------
EXTENDS Conn
===============================================================================
