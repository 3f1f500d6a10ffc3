SPECIFICATION Spec
PROPERTIES BusyKeepsSession
