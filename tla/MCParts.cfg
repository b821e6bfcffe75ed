SPECIFICATION Spec
INVARIANTS CodecsExact BodiesExact   
CHECK_DEADLOCK FALSE
