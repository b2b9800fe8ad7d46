---------------------------- MODULE MCQueryParser ----------------------------
EXTENDS QueryParser

============================================================================
