SPECIFICATION Spec
  
PROPERTY LoadReturns
